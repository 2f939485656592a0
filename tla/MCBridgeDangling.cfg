SPECIFICATION Spec
CONSTANTS
  Threads = {t1}
  NoThread = NoThread
  v1 = v1
  v2 = v2
  r1 = r1
  r2 = r2
  b1 = b1
  VMs <- MCTwoVMs
  NoVM = NoVM
  Regs <- MCTwoRegs
  NoReg = NoReg
  Backends <- MCBackends
  NoBackend = NoBackend
  HandleArgs <- ForeignHandles
  NoHandles = NoHandles
  Ops <- ConfiguredOps
  AllocMayFail = FALSE
  Reentrant = FALSE
CHECK_DEADLOCK FALSE
INVARIANTS NoDanglingCall

SPECIFICATION UseSpec
CONSTANTS
  Threads = {t1, t2}
  NoThread = NoThread
  v1 = v1
  v2 = v2
  r1 = r1
  r2 = r2
  b1 = b1
  VMs <- MCTwoVMs
  NoVM = NoVM
  Regs <- MCTwoRegs
  NoReg = NoReg
  Backends <- MCBackends
  NoBackend = NoBackend
  HandleArgs <- AnyHandles
  NoHandles = NoHandles
  Ops <- AllOps
  AllocMayFail = TRUE
  Reentrant = TRUE
CHECK_DEADLOCK FALSE
INVARIANTS TypeOK OneOwner SafeShutdown OnlyOrphansDangle OwnedVmKept
CONSTRAINT RaceBound
SYMMETRY Interchangeable

SPECIFICATION WgSpec
CONSTANTS
  t1 = t1
  t2 = t2
  t3 = t3
  Threads = {t1, t2, t3}
  NoThread = NoThread
  UseBts = FALSE
  Debug = TRUE
  Tasks = 2
  Uses <- MCUses
INVARIANTS TypeOK MutualExclusion NoLostWakeup NoFalsePanic WaitersCounted NoMissedSignal
PROPERTIES LockSpec WaitReturns

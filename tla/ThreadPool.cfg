SPECIFICATION Spec
CONSTANTS
  w1 = w1
  w2 = w2
  owner = owner
  none = none
  Workers = {w1, w2}
  Owner = owner
  None = none
  MaxThreads = 2
  Roots = 2
  Children = 1
  WarmTo = 1
  WaitFirst = FALSE
  SpawnFailures = 1
  WeakCas = TRUE
INVARIANTS TypeOK OneWaker SyncCounted TasksCounted AssertsHold
CHECK_DEADLOCK FALSE
CONSTRAINT PoolBound
PROPERTIES TasksRun DeinitEndsInTime

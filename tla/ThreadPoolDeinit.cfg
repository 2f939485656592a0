SPECIFICATION Spec
CONSTANTS
  w1 = w1
  owner = owner
  none = none
  Workers = {w1}
  Owner = owner
  None = none
  MaxThreads = 1
  Roots = 1
  Children = 0
  WarmTo = 0
  WaitFirst = TRUE
  SpawnFailures = 0
  WeakCas = FALSE
INVARIANTS NotTouchedAfterDeinit
CHECK_DEADLOCK FALSE

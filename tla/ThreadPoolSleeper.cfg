SPECIFICATION Spec
CONSTANTS
  w1 = w1
  w2 = w2
  owner = owner
  none = none
  Workers = {w1, w2}
  Owner = owner
  None = none
  MaxThreads = 2
  Roots = 2
  Children = 0
  WarmTo = 0
  WaitFirst = TRUE
  SpawnFailures = 0
  WeakCas = FALSE
PROPERTIES DeinitEnds
CHECK_DEADLOCK FALSE

SPECIFICATION Spec
CONSTANTS
  Calls = {p1, p2, p3}
  MaxSamples = 2
CHECK_DEADLOCK FALSE
INVARIANTS TypeOK OffWhenSettled AloneAccounted

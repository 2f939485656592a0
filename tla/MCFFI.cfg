SPECIFICATION Spec
CONSTANTS
    c1 = c1
    c2 = c2
    Callbacks = {c1, c2}
    Functions = {f1, f2}
    Natives = {n1}
    Shapes <- MCShapes
    Sent <- MCSent
    Starts = {0}
    MaxDepth = 4
    MaxTasks = 2
    None = None
    NaN = NaN
    MAX_INT32 = 16
    MAX_INT52 = 127
    Word64 = 1024
    LowBits <- MCLowBits
INVARIANTS TypeOK CalledAlive NoDanglingRead ClosedReleases ArgumentsArrive ExactInside
CHECK_DEADLOCK FALSE
CONSTRAINT ValuesBound

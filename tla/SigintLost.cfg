\* One holder of one global object, one SIGINT that comes while the watcher looks
\* in vain: the semaphore's first token is enough to make it look.
CONSTANTS
    Holders = {h1}
    Globals = {g1}
    Receivers = {}
    MaxSignals = 1
    None = none
    MaxTokens = 2
SPECIFICATION Spec
CHECK_DEADLOCK FALSE
PROPERTY SigintReachesHolder

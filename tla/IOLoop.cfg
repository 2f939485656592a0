SPECIFICATION Spec
CONSTANTS
    Requests = {r1, r2}
    Threads = {t1, t2}
    Backends = {"epoll", "kqueue"}
    NoBuffers = TRUE
    None = None
INVARIANTS TypeOK NoLostWakeup NothingAfterDone
PROPERTIES QueueInOrder ScheduledIsHandled
CHECK_DEADLOCK FALSE

CONSTANTS
    None = None
    Pids = {p1, p2}
    QueueLen = 2
    kMaxPendingEvents = 1
    MaxBirths = 2
SPECIFICATION Spec
INVARIANT CompensatingScan
CHECK_DEADLOCK FALSE

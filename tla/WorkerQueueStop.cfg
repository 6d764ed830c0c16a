CONSTANTS
    Keys = {k1}
    Contents = {c1}
    None = None
    kMaxQueuedTasks = 1
SPECIFICATION Spec
PROPERTY StopReturns

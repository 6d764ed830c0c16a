CONSTANTS
    Keys = {k1, k2, k3}
    Contents = {c1, c2}
    None = None
    kMaxQueuedTasks = 2
SPECIFICATION Spec
INVARIANTS QueueMatchesPending NewestTaskWaits NoTaskSleeps StopQuiesces StopDropsBacklog
PROPERTY QueuedTaskLeaves

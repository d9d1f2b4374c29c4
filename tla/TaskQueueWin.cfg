CHECK_DEADLOCK FALSE
CONSTANTS
    Task = {t1, t2, t3}
    Client = {c1}
    Delay = {0, 1, 2}
    MaxTime = 2
    MaxMessages = 2
    kMaxTaskProcessingTimeMs = 0
SPECIFICATION FairSpec
INVARIANTS
    OneTimerForEarliest
    TimersAreClean
PROPERTIES
    ImplementsTaskQueueBase
    TasksStart
    DeleteTerminates

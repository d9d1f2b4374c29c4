CONSTANTS
    Task = {t1, t2, t3}
    Client = {c1, c2}
    Delay = {1}
    MaxTime = 1
    IntModulus = 16
SPECIFICATION FairSpec
INVARIANTS
    NoLostWakeup
    NoUseAfterDelete
PROPERTIES
    StartsInPostingOrder
    ImplementsTaskQueueBase
    TasksStart
    DeleteTerminates

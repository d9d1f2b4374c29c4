CONSTANTS
    Task = {t1, t2, t3}
    Client = {c1}
    Delay = {0, 2}
    MaxTime = 3
    PipeCapacity = 2
    Time32Modulus = 3
SPECIFICATION FairSpec
INVARIANTS
    TypeOK
    OneWakePerBatch
PROPERTIES
    ImplementsTaskQueueBase
    TasksStart
    DeleteTerminates

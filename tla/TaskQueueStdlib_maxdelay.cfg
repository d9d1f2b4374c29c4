CONSTANTS
    Task = {t1}
    Client = {c1}
    Delay = {3}
    MaxTime = 3
    IntModulus = 4
SPECIFICATION FairSpec
PROPERTY TasksStart

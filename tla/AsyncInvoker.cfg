CONSTANTS
    Thread = {A, B}
    Home = A
    NoThread = NoThread
    Call = {c1, c2, c3}
SPECIFICATION FairSpec
INVARIANTS
    NoUseAfterDestroy
    WaitHasWaker
    FlushWaits
PROPERTY DestroyReturns
CHECK_DEADLOCK FALSE

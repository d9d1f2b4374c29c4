CONSTANTS
    Thread = {A, B}
    Owner = owner
    MaxMsgs = 3
    Delay = {1, 2}
    IntMax = 1
    MaxTime = 1
    Focus = {B}
SPECIFICATION FairSpec
CHECK_DEADLOCK FALSE
INVARIANTS
    NoLostWakeup
    SendChainMoves
PROPERTIES
    SendIsSynchronous
    ImplementsTaskQueueBase
    StopReturns
    SendReturns
    ReadyIsDelivered

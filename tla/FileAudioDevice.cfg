CONSTANT FileLen = 2
SPECIFICATION FairSpec
INVARIANTS
    BufferOutlivesRound
PROPERTIES
    TransportIsStable
    DeliversInOrder
    StopReturns

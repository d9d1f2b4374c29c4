CONSTANTS
    Size = 3
    MaxItems = 7
SPECIFICATION SwapSpec
INVARIANTS
    SlotExclusive
PROPERTIES
    ImplementsBoundedFifo

CONSTANTS
    MaxStarts = 2
    OthersCall = {FALSE}
SPECIFICATION Spec
INVARIANT SuspendedIsAlive

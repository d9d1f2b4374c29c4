CONSTANTS
    MaxStarts = 3
    OthersCall = {FALSE, TRUE}
SPECIFICATION FairSpec
INVARIANTS
    StoppedMeansExited
    ParkedIsSuspended
PROPERTIES
    OwnersStopTerminates

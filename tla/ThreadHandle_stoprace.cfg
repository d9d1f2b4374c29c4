CONSTANTS
    MaxStarts = 2
    OthersCall = {TRUE}
SPECIFICATION FairSpec
PROPERTY StopTerminates

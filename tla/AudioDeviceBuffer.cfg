CONSTANTS
    Interval = 1
    LevelPeriod = 2
    MaxTime = 2
    MaxStarts = 3
    MaxSamples = 2
SPECIFICATION Spec
INVARIANTS
    StatsNeverRunBackwards
    LoggingFollowsMedia
    LoggingHasTimer
    SilenceIsOfThisRecording

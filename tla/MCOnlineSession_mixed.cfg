SPECIFICATION FairSpec
CONSTANTS
    Keys = {1, 2, 3}
    Load <- MixedLoad
    NoCancel <- MCNoCancel
    Workers = 1
    QueueLimit = 1
    MayFail = TRUE
    MaxClock = 2
INVARIANT ResultsConsistent
PROPERTY SessionEnds
CHECK_DEADLOCK FALSE

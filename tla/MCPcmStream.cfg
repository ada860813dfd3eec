SPECIFICATION FairSpec
CONSTANTS
    Periods = 3
    StopBuffers = 2
    MaxLeaked = 1
INVARIANTS
    TypeOK
    Accounted
    FlagsFollow
PROPERTIES
    NoRestart
    CallEnds

SPECIFICATION FairSpec
CONSTANTS
    Periods = 2
    StopBuffers = 2
    CaptureNodes <- TwoCards
    None = None
INVARIANTS
    TypeOK
    NothingLeft
    NamedIsRecorded
PROPERTIES
    ImplementsSession
    ImplementsStream
    RecordingEnds

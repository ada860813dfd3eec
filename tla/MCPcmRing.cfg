SPECIFICATION FairSpec
CONSTANTS
    BufferSize = 3
    Boundary = 9
    StopThreshold = 7
    MaxFrames = 24
INVARIANTS
    TypeOK
    GrantAvailable
    FramesInOrder
    TimestampAvailable
PROPERTY TransferEnds
CHECK_DEADLOCK FALSE

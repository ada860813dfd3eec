SPECIFICATION Spec
CONSTANTS
    BufferSize = 2
    Boundary = 4
    StopThreshold = 2
    MaxFrames = 10
INVARIANT OnlyAvailable
CHECK_DEADLOCK FALSE

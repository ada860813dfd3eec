SPECIFICATION Spec
CONSTANTS
    PcmNodes <- NoNodes
    VideoNodes <- FiveCameras
    MaxChanges = 1
    MaxBuffers = 2
    None = None
INVARIANT CheckedNodeIsFound

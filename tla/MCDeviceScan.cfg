SPECIFICATION FairSpec
CONSTANTS
    PcmNodes <- Microphone
    VideoNodes <- TwoCameras
    MaxChanges = 3
    MaxBuffers = 2
    None = None
INVARIANTS
    TypeOK
    ReadsAgain
    ReportMatchesCheck
    CheckLeavesNothing
PROPERTIES
    NotFoundIsFinal
    ChangeIsFound

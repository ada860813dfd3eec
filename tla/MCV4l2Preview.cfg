SPECIFICATION FairSpec
CONSTANT MaxBuffers = 3
INVARIANTS
    TypeOK
    ReaderSafe
    SingleReader
    NothingHeld
    NothingOrphaned
    DanglingNeedsError
    WaitHasLoop
PROPERTIES
    ImplementsSession
    WaitEnds

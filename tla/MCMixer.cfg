SPECIFICATION Spec
CONSTANTS
    Handles = {h1, h2}
    FdCount = 4
    Elements = 2
    Enumerated = 2
    MaxItems = 2
    Channels = 2
    IntMax = 4095
    Ranges <- MCRanges
    Values = {1}
    Percents = {100, 101}
INVARIANTS
    TypeOK
    DescriptorsAreTheirs
    FreesVerified
    NamesInTable
PROPERTIES
    LostInOpenOnly
    OnlyArraysStray
SYMMETRY Symmetry

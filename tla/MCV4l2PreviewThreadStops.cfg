SPECIFICATION FairSpec
CONSTANT MaxBuffers = 2
PROPERTY ThreadStops

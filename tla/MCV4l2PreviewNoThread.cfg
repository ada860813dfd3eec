SPECIFICATION Spec
CONSTANT MaxBuffers = 2
INVARIANT WaitingForThread

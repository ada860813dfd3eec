SPECIFICATION Spec
CONSTANT MaxChecks = 3
INVARIANTS
    TypeOK
    OnlyLatest
PROPERTY ImplementsDelivery

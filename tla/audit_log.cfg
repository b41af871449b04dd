SPECIFICATION Spec
CONSTANTS
    w1 = w1
    w2 = w2
    w3 = w3
    k1 = k1
    k2 = k2
    Writers <- Writers2
    Keepers <- Keepers1
    Legacy = 1
    Retention = 1
    Skew = 0
    TicksPerSecond = 1
    MaxId = 4
    MaxTime = 4
SYMMETRY Symmetry
INVARIANTS
    TypeOK
    ChainLinked
    WholeLogVerifies
    ForgeryDetected
    RemovalDetected
    NothingLost
PROPERTIES
    ImplementsLinkedLog

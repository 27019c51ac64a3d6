SPECIFICATION Spec
CHECK_DEADLOCK FALSE
CONSTANTS
    Byte <- MCByte
    gearTable <- MCgearTable
    MODULUS = 4
    TARGET = 3
    MIN_CHUNK_SIZE = 0
    MAX_CHUNK_SIZE = 4
    HashSpan = 16
    U16Span = 5
    MaxFile = 8
INVARIANTS
    SizesBounded
    Tiles
    FedWhole
    ContentDefined
PROPERTY
    EventuallyLossless

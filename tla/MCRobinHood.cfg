SPECIFICATION Spec
CONSTANTS
    k1 = k1
    k2 = k2
    k3 = k3
    k4 = k4
    Key = {k1, k2, k3, k4}
    Value = {1, 2}
    Hash <- MCHash
    Multipliers = 3
    InitialNumElements = 4
    InitialInfoNumBits = 2
    InfoByte = 8
    MaxLoadFactor100 = 80
    NoNode = NoNode
    MaxAttempts = 3
    Sizes = {0, 4}
    Insertions <- MCInsertions
    None = None
INVARIANTS
    MapInv
    LookupsRight
    IterationSeesAll
PROPERTY
    IsMap

SPECIFICATION VersionsSpec
CHECK_DEADLOCK FALSE
CONSTANTS
    AlphabetSize = 2
    MAX_DICT_SIZE = 5
    CODE_LENGTH = 10
    BufferBits = 17
    INPUT_SIZE = 6
    MaxCalls = 2
    Letters = 3
    CAPACITY = 6
    ASSOCIATE_MEM_STORE = 1
    MaxInput = 6
    my_hash <- MCHash
INVARIANTS
    RoundTrip
    CodeWithinReach
    BlockConsumed
    TablesAgree
    BlockFits
    OldLookupsRight
    OldRoundTrip

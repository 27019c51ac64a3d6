SPECIFICATION Spec
CHECK_DEADLOCK FALSE
CONSTANTS
    ByteSpan = 4
    BLOCKSIZE = 3
    NUM_PACKETS = 3
    pipe_depth = 1
    NUM_ELEMENTS = 4
    Capacity = 12
    FileSizes <- Medium
    Faults <- AnyFault
    MaxFaults = 2
    Junk = Junk
INVARIANTS
    ReceivedPrefix
    WithinBuffer
    PacketsWhole
PROPERTY
    EventuallyReceived

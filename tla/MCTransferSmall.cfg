SPECIFICATION Spec
CHECK_DEADLOCK FALSE
CONSTANTS
    ByteSpan = 4
    BLOCKSIZE = 3
    NUM_PACKETS = 3
    pipe_depth = 1
    NUM_ELEMENTS = 4
    Capacity = 20
    FileSizes <- Small
    Faults <- Reliable
    MaxFaults = 0
    Junk = Junk
INVARIANT
    ReceivedWhole

SPECIFICATION HostSpec
CONSTANTS
    Byte = {a, b}
    MaxChunks = 2
    MaxLength = 3
    INPUT_SIZE = 2
    OUTPUT_SIZE = 5
    SizeSpan = 4
    FailKinds = {"task", "readSize"}
    Unset = Unset
INVARIANTS
    NoOverlap
    QueueInv
PROPERTY
    CompressesInTurn

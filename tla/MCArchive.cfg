SPECIFICATION Spec
CONSTANTS
    chunkA = chunkA
    chunkB = chunkB
    chunkC = chunkC
    Chunk <- MCChunk
    SHA <- MCSHA
    Length <- MCLength
    PackedSize <- MCPackedSize
    MaxPacked = 3
    MaxChunks = 5
    HeaderSpan = 16
    Garbage = Garbage
    KernelMayFail = TRUE
    WriteMayBeShort = FALSE
INVARIANTS
    SuccessMeansWhole
    InStep
    StatsAddUp
    ArchiveInv
    NothingRejected
PROPERTIES
    CopiesFile

SPECIFICATION Spec
CONSTANTS
    chunkA = chunkA
    chunkB = chunkB
    chunkC = chunkC
    Chunk <- MCChunk
    SHA <- MCSHA
    Length <- MCLength
    PackedSize <- MCPackedSize
    MaxPacked = 3
    MaxChunks = 4
    HeaderSpan = 16
    Garbage = Garbage
    KernelMayFail = FALSE
    WriteMayBeShort = TRUE
INVARIANT
    DamageIsLast

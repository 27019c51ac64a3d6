----------------------------- MODULE MCArchive -----------------------------
(* Archive on three chunks.  Block sizes differ, the smallest is the two    *)
(* bytes of a single 13-bit code, and a header spans 16 values, so that an  *)
(* index or a size that does not fit would wrap.                            *)
EXTENDS ArchiveInvariant, TLC

CONSTANTS chunkA, chunkB, chunkC

MCChunk      == {chunkA, chunkB, chunkC}
MCSHA        == (chunkA :> 11) @@ (chunkB :> 12) @@ (chunkC :> 13)
MCLength     == (chunkA :> 1) @@ (chunkB :> 2) @@ (chunkC :> 5)
MCPackedSize == (chunkA :> 2) @@ (chunkB :> 3) @@ (chunkC :> 2)
=============================================================================

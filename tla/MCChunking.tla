----------------------------- MODULE MCChunking -----------------------------
(* Chunking on every file of at most 8 bytes over two byte values.  The     *)
(* gear values make the hash wrap and let a chunk end by its content after  *)
(* one to four bytes, or only at MAX_CHUNK_SIZE.                            *)
EXTENDS Chunking, TLC

MCByte == {0, 1}
MCgearTable == (0 :> 13) @@ (1 :> 15)
=============================================================================

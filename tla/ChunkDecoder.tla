---------------------------- MODULE ChunkDecoder ----------------------------
(***************************************************************************)
(* main of Decoder/Decoder.cpp: read a header, decompress the block that   *)
(* follows it or look up the chunk it refers to, write the chunk, until    *)
(* the read of a header meets the end of the file.                         *)
(***************************************************************************)
EXTENDS ArchiveFormat

VARIABLES
    disk,         \* the compressed file
    pos,          \* the next cell of disk that Input will deliver
    Chunks,       \* chunk_list: the decompressed blocks, in order
    Output,       \* the chunks written to the output file
    total_chunks_in_header,
    successful_chunks,
    failed_chunks

decVars == <<disk, pos, Chunks, Output,
             total_chunks_in_header, successful_chunks, failed_chunks>>

DecInit ==
    /\ disk = << >>
    /\ pos = 1
    /\ Chunks = << >>
    /\ Output = << >>
    /\ total_chunks_in_header = 0
    /\ successful_chunks = 0
    /\ failed_chunks = 0

Eof == pos > Len(disk)

(* What Input.read can make of the cell it is at: the bytes of a block      *)
(* taken for a header may be any word.                                      *)
Words == IF disk[pos].kind = "header" THEN {disk[pos].value}
                                      ELSE 0..(HeaderSpan - 1)

(* The next size cells are chunk c's LZW block, whole.                      *)
BlockAhead(c, size) ==
    /\ size = PackedSize[c]
    /\ pos + size <= Len(disk)
    /\ \A k \in 1..size : disk[pos + k] = Packed(c, k)

(* What Decompress(size) may return: the chunk when the block is all there; *)
(* a string nobody can foretell when it is not, Input.get() having answered *)
(* EOF (read as the byte 0xFF) for what is missing.                         *)
Decompressed(size) ==
    IF \E c \in Chunk : BlockAhead(c, size)
    THEN {c \in Chunk : BlockAhead(c, size)}
    ELSE Chunk \cup {Garbage}

(* Mutation of AfterBlock: the block's last byte left unread, as when the   *)
(* loop of Decompress ends one code early.                                  *)
AfterBlockShort(size) == IF pos + size <= Len(disk) THEN pos + size
                                                    ELSE Len(disk) + 1

AfterBlock(size) == IF pos + size <= Len(disk) THEN pos + size + 1
                                               ELSE Len(disk) + 1

Counted(ok) ==
    /\ total_chunks_in_header' = total_chunks_in_header + 1
    /\ successful_chunks' = successful_chunks + (IF ok THEN 1 ELSE 0)
    /\ failed_chunks' = failed_chunks + (IF ok THEN 0 ELSE 1)
    /\ UNCHANGED disk

IsBlock(h)  == h % 2 = 0
Operand(h)  == h \div 2
ValidSize(size) == 0 < size /\ size <= MaxPacked

DecodeBlock ==
    /\ ~Eof
    /\ \E h \in Words :
         /\ IsBlock(h)
         /\ ValidSize(Operand(h))
         /\ \E chunk \in Decompressed(Operand(h)) :
              /\ Chunks' = Append(Chunks, chunk)
              /\ Output' = Append(Output, chunk)
         /\ pos' = AfterBlock(Operand(h))
    /\ Counted(TRUE)

(* Mutation of RejectSize: an impossible size passes for a success.         *)
RejectSizeSilently ==
    /\ ~Eof
    /\ \E h \in Words : IsBlock(h) /\ ~ValidSize(Operand(h))
    /\ pos' = pos + 1
    /\ UNCHANGED <<Chunks, Output>>
    /\ Counted(TRUE)

(* An impossible size: only the header is consumed, and nothing is pushed.  *)
RejectSize ==
    /\ ~Eof
    /\ \E h \in Words : IsBlock(h) /\ ~ValidSize(Operand(h))
    /\ pos' = pos + 1
    /\ UNCHANGED <<Chunks, Output>>
    /\ Counted(FALSE)

(* Mutation of DecodeReference: the referenced chunk is pushed once more.   *)
DecodeReferenceAndPush ==
    /\ ~Eof
    /\ \E h \in Words :
         /\ ~IsBlock(h)
         /\ Operand(h) < Len(Chunks)
         /\ Output' = Append(Output, Chunks[Operand(h) + 1])
         /\ Chunks' = Append(Chunks, Chunks[Operand(h) + 1])
    /\ pos' = pos + 1
    /\ Counted(TRUE)

DecodeReference ==
    /\ ~Eof
    /\ \E h \in Words :
         /\ ~IsBlock(h)
         /\ Operand(h) < Len(Chunks)
         /\ Output' = Append(Output, Chunks[Operand(h) + 1])
    /\ pos' = pos + 1
    /\ UNCHANGED Chunks
    /\ Counted(TRUE)

RejectReference ==
    /\ ~Eof
    /\ \E h \in Words : ~IsBlock(h) /\ Operand(h) >= Len(Chunks)
    /\ pos' = pos + 1
    /\ UNCHANGED <<Chunks, Output>>
    /\ Counted(FALSE)

DecNext == DecodeBlock \/ RejectSize \/ DecodeReference \/ RejectReference

(* "All chunks were successfully processed!"                                *)
AllProcessed == successful_chunks = total_chunks_in_header
=============================================================================

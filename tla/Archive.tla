------------------------------ MODULE Archive ------------------------------
(***************************************************************************)
(* The encoder's archive and the decoder that opens it: process_packet     *)
(* fills output_data, main writes it to disk, and later the decoder reads  *)
(* the disk.  The two programs share nothing but the file.                 *)
(***************************************************************************)
EXTENDS ChunkEncoder, ChunkDecoder, SequencesExt

CONSTANT WriteMayBeShort  \* fwrite may write less than it was given

VARIABLE phase  \* "encode", "decode", "done", or "crashed" (the decoder)

vars == <<encVars, decVars, phase>>

Init == EncInit /\ DecInit /\ phase = "encode"

Encode == phase = "encode" /\ EncNext /\ UNCHANGED <<decVars, phase>>

(* fopen, fwrite, fclose: a short write is only a warning.                  *)
WriteFile ==
    /\ phase = "encode"
    /\ i > Len(file)
    /\ \E n \in 0..Len(output_data) :
         /\ n = Len(output_data) \/ WriteMayBeShort
         /\ disk' = SubSeq(output_data, 1, n)
    /\ phase' = "decode"
    /\ UNCHANGED <<encVars, pos, Chunks, Output, total_chunks_in_header,
                   successful_chunks, failed_chunks>>

Decode == phase = "decode" /\ DecNext /\ UNCHANGED <<encVars, phase>>

(* Past the end of the file every code reads as 8191; the second such code  *)
(* makes Decompress index Code_table out of range.                          *)
DecodeOutOfTable ==
    /\ phase = "decode"
    /\ ~Eof
    /\ \E h \in Words : /\ IsBlock(h)
                        /\ ValidSize(Operand(h))
                        /\ pos + Operand(h) > Len(disk)
    /\ phase' = "crashed"
    /\ UNCHANGED <<encVars, decVars>>

DecodeEnd ==
    /\ phase = "decode"
    /\ Eof
    /\ phase' = "done"
    /\ UNCHANGED <<encVars, decVars>>

Stopped == phase \in {"done", "crashed"} /\ UNCHANGED vars

Next == Encode \/ WriteFile \/ Decode \/ DecodeOutOfTable \/ DecodeEnd \/ Stopped

Safety == Init /\ [][Next]_vars

(* Two sequential programs, run one after the other, that never wait: they  *)
(* take their next step until they exit.                                    *)
Spec == Safety /\ WF_vars(Encode \/ WriteFile \/ Decode \/ DecodeEnd)
-----------------------------------------------------------------------------
(* The reachable values of every variable.                                  *)
TypeOK ==
    /\ phase \in {"encode", "decode", "done", "crashed"}
    /\ file \in Seq(Chunk) /\ Len(file) <= MaxChunks
    /\ i \in 1..(Len(file) + 1)
    /\ lzw_chunk_index \in 0..Len(file)
    /\ DOMAIN chunk_hash_map \subseteq {SHA[c] : c \in Chunk}
    /\ \A d \in DOMAIN chunk_hash_map :
         chunk_hash_map[d] \in 0..(lzw_chunk_index - 1)
    /\ output_data \in Seq(Cell) /\ disk \in Seq(Cell)
    /\ stats \in Stats
    /\ mark \in Seq([at : Nat \ {0}, seen : Nat]) /\ Len(mark) = i
    /\ pos \in 1..(Len(disk) + 1)
    /\ Chunks \in Seq(Chunk \cup {Garbage})
    /\ Output \in Seq(Chunk \cup {Garbage})
    /\ total_chunks_in_header \in Nat
    /\ successful_chunks \in Nat /\ failed_chunks \in Nat

(* When the decoder reports that all chunks were successfully processed,    *)
(* what it wrote is the file the encoder was given.  Failed kernel runs     *)
(* included: they are never silent.                                         *)
SuccessMeansWhole == phase = "done" /\ AllProcessed => Output = file

(* A kernel run that failed has left its mark: a header of size 0.          *)
RunFailed ==
    \E k \in 1..Len(output_data) : output_data[k] = Header(SizeHeader(0))

(* The decoder complains of nothing but kernel runs that failed: without    *)
(* one, as always with the software encoder, no entry is rejected.          *)
NothingRejected == failed_chunks > 0 => RunFailed

(* A chunk the decoder wrote and counted as successful is a chunk that was  *)
(* restored.                                                                *)
SuccessfulMeansRestored == \A k \in 1..Len(Output) : Output[k] # Garbage

(* Encoder and decoder count blocks alike: as long as no chunk has failed,  *)
(* the k-th chunk the decoder pushed is the one the encoder's map calls     *)
(* k-1.  References are right only because of this.                         *)
IndexAgreement ==
    failed_chunks = 0 =>
      \A k \in 1..Len(Chunks) :
        /\ Chunks[k] \in Chunk
        /\ Known(SHA[Chunks[k]])
        /\ chunk_hash_map[SHA[Chunks[k]]] = k - 1

(* The decoder is never out of step with the stream: when it reads a        *)
(* header, a header is there, even after it rejected an entry, and even     *)
(* when the file was cut short.                                             *)
InStep == phase = "decode" /\ ~Eof => disk[pos].kind = "header"

(* Every entry of the archive is counted: the decoder ends having seen one  *)
(* header for each chunk that the encoder was given.                        *)
EveryEntrySeen ==
    phase = "done" /\ disk = output_data => total_chunks_in_header = Len(file)

Bytes(cell) == IF cell.kind = "header" THEN 4 ELSE 1

(* The statistics printed at the end are the truth: the compressed size is  *)
(* the size of the stream and splits into the two contributions, and the    *)
(* two input sizes add up to the bytes of the file.                         *)
StatsAddUp ==
    LET size(k) == Bytes(output_data[k])
        bytes(k) == Length[file[k]]
    IN  /\ stats.total = MapThenSumSet(size, DOMAIN output_data)
        /\ stats.total = stats.dedup + stats.lzw
        /\ stats.input_dedup + stats.input_lzw = MapThenSumSet(bytes, 1..(i - 1))
        /\ stats.lzw_chunk = lzw_chunk_index

(* A short write spoils the last entry at most: what the decoder wrote      *)
(* before it came to the cut is a prefix of the file.                       *)
DamageIsLast ==
    \/ IsPrefix(Output, file)
    \/ Eof /\ Output # << >> /\ IsPrefix(Front(Output), file)

(* Encoding followed by decoding is a copy of the file (module FileCopy):   *)
(* its damage is a failed chunk and its verdict the decoder's last line.    *)
Copy == INSTANCE FileCopy WITH
          Value <- Chunk, MaxLength <- MaxChunks,
          source <- file, copy <- Output,
          damaged <- failed_chunks > 0,
          verdict <- IF phase # "done" THEN "none"
                     ELSE IF AllProcessed THEN "all" ELSE "some failed"
CopiesFile == Copy!Spec
=============================================================================

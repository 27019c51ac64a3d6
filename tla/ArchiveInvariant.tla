-------------------------- MODULE ArchiveInvariant --------------------------
(***************************************************************************)
(* The inductive invariant of Archive: where every entry of the stream     *)
(* lies and what it says, how much of it has reached the disk, and where   *)
(* the decoder is in it.  mark[j] is where entry j starts and how many     *)
(* indices were handed out before it.                                      *)
(***************************************************************************)
EXTENDS Archive

(* Different chunks have different indices.                                 *)
IndicesDiffer ==
    \A c, d \in Chunk :
      /\ Known(SHA[c]) /\ Known(SHA[d])
      /\ chunk_hash_map[SHA[c]] = chunk_hash_map[SHA[d]]
      => c = d

IndexOf(c) == chunk_hash_map[SHA[c]]

(* Entry j is a header with this value and nothing else.                    *)
Alone(j, h) ==
    /\ output_data[mark[j].at] = Header(h)
    /\ mark[j + 1].at = mark[j].at + 1

(* Entry j is the first of its chunk, compressed.                           *)
IsNew(j) ==
    LET c == file[j] IN
    /\ output_data[mark[j].at] = Header(SizeHeader(PackedSize[c]))
    /\ mark[j + 1].at = mark[j].at + PackedSize[c] + 1
    /\ \A k \in 1..PackedSize[c] : output_data[mark[j].at + k] = Packed(c, k)
    /\ IndexOf(c) = mark[j].seen
    /\ mark[j + 1].seen = mark[j].seen + 1

(* Entry j is the first of its chunk and its kernel run failed.             *)
IsFailed(j) ==
    /\ Alone(j, SizeHeader(0))
    /\ mark[j + 1].seen = mark[j].seen + 1

(* Entry j refers to a block before it.                                     *)
IsDuplicate(j) ==
    /\ Alone(j, IndexHeader(IndexOf(file[j])))
    /\ IndexOf(file[j]) < mark[j].seen
    /\ mark[j + 1].seen = mark[j].seen

Entry(j) ==
    /\ Known(SHA[file[j]])
    /\ mark[j].at \in 1..Len(output_data)
    /\ mark[j + 1].at <= Len(output_data) + 1
    /\ IsNew(j) \/ IsFailed(j) \/ IsDuplicate(j)

EncoderInv ==
    /\ mark[1].at = 1 /\ mark[1].seen = 0
    /\ mark[i].at = Len(output_data) + 1
    /\ mark[i].seen = lzw_chunk_index
    /\ lzw_chunk_index <= i - 1
    /\ IndicesDiffer
    /\ \A j \in 1..(i - 1) : Entry(j)

(* Unless something failed, the decoder holds what the entries before pos   *)
(* stand for.                                                               *)
Restored ==
    /\ Len(Output) = total_chunks_in_header
    /\ \A k \in 1..Len(Output) : Output[k] = file[k]
    /\ Len(Chunks) = mark[total_chunks_in_header + 1].seen

(* The decoder is between two entries.                                      *)
InTurn ==
    /\ total_chunks_in_header < i
    /\ pos = mark[total_chunks_in_header + 1].at
    /\ failed_chunks = 0 => Restored
    /\ IndexAgreement

(* The decoder has come to the cut inside a block; what it made of that     *)
(* block is the last that it wrote.                                         *)
CutShort ==
    /\ phase # "encode" /\ disk # output_data /\ Eof
    /\ total_chunks_in_header \in 1..Len(file)
    /\ failed_chunks = 0 =>
         /\ Len(Output) = total_chunks_in_header
         /\ \A k \in 1..(Len(Output) - 1) : Output[k] = file[k]

DecoderInv ==
    /\ successful_chunks + failed_chunks = total_chunks_in_header
    /\ InTurn \/ CutShort

(* The disk has the beginning of the stream, and all of it unless the write *)
(* was short; only then can the decoder run past its end.                   *)
Written ==
    /\ i = Len(file) + 1
    /\ Len(disk) <= Len(output_data)
    /\ \A k \in 1..Len(disk) : disk[k] = output_data[k]
    /\ phase = "crashed" \/ disk # output_data => WriteMayBeShort

PhaseInv ==
    /\ phase = "encode" => total_chunks_in_header = 0
    /\ phase # "encode" => Written
    /\ phase = "done" => Eof

(* Everything above holds together, and is kept by every step.              *)
ArchiveInv == TypeOK /\ EncoderInv /\ DecoderInv /\ PhaseInv
=============================================================================

---------------------------- MODULE ChunkEncoder ----------------------------
(***************************************************************************)
(* process_packet of Server/encoder.cpp from "Step 3" on, and the same     *)
(* loop in hls/Host.cpp: every chunk of the file is looked up in the       *)
(* deduplication map; a known chunk costs one header, a new one is         *)
(* compressed.  The FPGA host differs in one way: a kernel run that fails  *)
(* goes unnoticed and leaves compressed_size at 0 (KernelMayFail).         *)
(***************************************************************************)
EXTENDS ArchiveFormat

CONSTANT KernelMayFail  \* FALSE: encoder_sw; TRUE: the OpenCL host

VARIABLES
    file,             \* the chunks of the received file, in order
    i,                \* the chunk the loop is at (from 1)
    chunk_hash_map,   \* digest -> index of the block that holds the chunk
    lzw_chunk_index,  \* the next index dedup hands out
    output_data,      \* the encoded stream
    stats,            \* the counters printed at the end
    mark              \* history: where entry j starts and how many indices
                      \* had been handed out before it

encVars == <<file, i, chunk_hash_map, lzw_chunk_index, output_data, stats, mark>>

Stats == [dedup : Nat, lzw : Nat, total : Nat,
          input_dedup : Nat, input_lzw : Nat,
          dedup_chunk : Nat, lzw_chunk : Nat]

EncInit ==
    /\ file \in UNION {[1..n -> Chunk] : n \in 0..MaxChunks}
    /\ i = 1
    /\ chunk_hash_map = << >>
    /\ lzw_chunk_index = 0
    /\ output_data = << >>
    /\ stats = [dedup |-> 0, lzw |-> 0, total |-> 0,
                input_dedup |-> 0, input_lzw |-> 0,
                dedup_chunk |-> 0, lzw_chunk |-> 0]
    /\ mark = <<[at |-> 1, seen |-> 0]>>

Known(digest) == digest \in DOMAIN chunk_hash_map

(* Mutation of Emplace: ++lzw_chunk_index forgotten.                        *)
EmplaceSameIndex(digest) ==
    /\ chunk_hash_map' = [d \in DOMAIN chunk_hash_map \cup {digest} |->
                            IF d = digest THEN lzw_chunk_index
                                          ELSE chunk_hash_map[d]]
    /\ lzw_chunk_index' = lzw_chunk_index

(* dedup() on an unknown digest: emplace it under the next index.           *)
Emplace(digest) ==
    /\ chunk_hash_map' = [d \in DOMAIN chunk_hash_map \cup {digest} |->
                            IF d = digest THEN lzw_chunk_index
                                          ELSE chunk_hash_map[d]]
    /\ lzw_chunk_index' = lzw_chunk_index + 1

Emit(cells) ==
    /\ output_data' = output_data \o cells
    /\ mark' = Append(mark, [at   |-> Len(output_data) + Len(cells) + 1,
                             seen |-> lzw_chunk_index'])
    /\ i' = i + 1
    /\ UNCHANGED file

CountDuplicate(c) ==
    stats' = [stats EXCEPT !.dedup = @ + 4, !.total = @ + 4,
                           !.input_dedup = @ + Length[c],
                           !.dedup_chunk = @ + 1]

(* Mutation of CountBlock: the header's 4 bytes left out of the total.      *)
CountBlockOnly(c, size) ==
    stats' = [stats EXCEPT !.lzw = @ + 4 + size, !.total = @ + size,
                           !.input_lzw = @ + Length[c],
                           !.lzw_chunk = @ + 1]

CountBlock(c, size) ==
    stats' = [stats EXCEPT !.lzw = @ + 4 + size, !.total = @ + 4 + size,
                           !.input_lzw = @ + Length[c],
                           !.lzw_chunk = @ + 1]

(* Mutation of EncodeDuplicate: refer to the newest block, not to the one   *)
(* that the map names.                                                      *)
EncodeDuplicateAsNewest ==
    /\ i <= Len(file)
    /\ Known(SHA[file[i]])
    /\ UNCHANGED <<chunk_hash_map, lzw_chunk_index>>
    /\ Emit(<<Header(IndexHeader(lzw_chunk_index - 1))>>)
    /\ CountDuplicate(file[i])

(* Mutation of EncodeDuplicate: refer to the block after it.                *)
EncodeDuplicateNext ==
    /\ i <= Len(file)
    /\ Known(SHA[file[i]])
    /\ UNCHANGED <<chunk_hash_map, lzw_chunk_index>>
    /\ Emit(<<Header(IndexHeader(chunk_hash_map[SHA[file[i]]] + 1))>>)
    /\ CountDuplicate(file[i])

(* A duplicate: dedup returns the stored index, which becomes the header.   *)
EncodeDuplicate ==
    /\ i <= Len(file)
    /\ Known(SHA[file[i]])
    /\ UNCHANGED <<chunk_hash_map, lzw_chunk_index>>
    /\ Emit(<<Header(IndexHeader(chunk_hash_map[SHA[file[i]]]))>>)
    /\ CountDuplicate(file[i])

(* A new chunk: dedup has taken an index before lzw_encode runs.            *)
EncodeNew ==
    /\ i <= Len(file)
    /\ ~Known(SHA[file[i]])
    /\ Emplace(SHA[file[i]])
    /\ Emit(<<Header(SizeHeader(PackedSize[file[i]]))>> \o Block(file[i]))
    /\ CountBlock(file[i], PackedSize[file[i]])

(* A new chunk whose kernel run failed: neither enqueueTask's error nor the *)
(* size 0 that was written to the device before the launch is looked at, so *)
(* a header of size 0 goes out and the index stays taken.                   *)
EncodeFailed ==
    /\ KernelMayFail
    /\ i <= Len(file)
    /\ ~Known(SHA[file[i]])
    /\ Emplace(SHA[file[i]])
    /\ Emit(<<Header(SizeHeader(0))>>)
    /\ CountBlock(file[i], 0)

EncNext == EncodeDuplicate \/ EncodeNew \/ EncodeFailed
=============================================================================

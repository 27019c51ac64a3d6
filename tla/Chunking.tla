------------------------------ MODULE Chunking ------------------------------
(***************************************************************************)
(* content_defined_chunking of Server/cdc.cpp, and the first lines of the  *)
(* loop that feeds its chunks to SHA-256, deduplication and LZW (encoder   *)
(* and OpenCL host alike).                                                 *)
(*                                                                         *)
(* The gear hash is computed as the code does, in an unsigned integer that *)
(* wraps at HashSpan (2^64); chunk sizes pass through an unsigned integer  *)
(* that wraps at U16Span (2^16), being stored in a uint16_t.               *)
(***************************************************************************)
EXTENDS Integers, Sequences, SequencesExt

CONSTANTS
    Byte,             \* the values of an unsigned char
    gearTable,        \* [Byte -> 0..HashSpan-1]
    MODULUS, TARGET, MIN_CHUNK_SIZE, MAX_CHUNK_SIZE,
    HashSpan, U16Span,
    MaxFile           \* bound: the length of the longest file

ASSUME ChunkingAssumption ==
    /\ MAX_CHUNK_SIZE \in Nat \ {0} /\ MIN_CHUNK_SIZE \in Nat
    /\ U16Span \in Nat /\ MAX_CHUNK_SIZE < U16Span
    /\ HashSpan \in Nat \ {0} /\ MODULUS \in Nat \ {0} /\ TARGET \in Nat
    /\ gearTable \in [Byte -> 0..(HashSpan - 1)]
    /\ MaxFile \in Nat

VARIABLES
    buffer,           \* the received file
    i, hash, chunk_start, chunk_positions,
    n,                \* the chunk that process_packet's loop is at (from 1)
    fed               \* the chunks it has handed on, in order

vars == <<buffer, i, hash, chunk_start, chunk_positions, n, fed>>

Init ==
    /\ buffer \in UNION {[1..l -> Byte] : l \in 0..MaxFile}
    /\ i = 0
    /\ hash = 0
    /\ chunk_start = 0
    /\ chunk_positions = <<0>>
    /\ n = 1
    /\ fed = << >>

NextHash == (hash \div 2 + gearTable[buffer[i + 1]]) % HashSpan

(* Mutation of Boundary: > for >=.                                          *)
BoundaryTooLate(size) ==
    \/ NextHash % MODULUS = TARGET /\ size >= MIN_CHUNK_SIZE
    \/ size > MAX_CHUNK_SIZE
    \/ i + 1 = Len(buffer)

(* Mutation of Boundary: the end of the file is no boundary.                *)
BoundaryNotAtEnd(size) ==
    \/ NextHash % MODULUS = TARGET /\ size >= MIN_CHUNK_SIZE
    \/ size >= MAX_CHUNK_SIZE

(* Does a chunk of this size end with the byte just hashed?                 *)
Boundary(size) ==
    \/ NextHash % MODULUS = TARGET /\ size >= MIN_CHUNK_SIZE
    \/ size >= MAX_CHUNK_SIZE
    \/ i + 1 = Len(buffer)

Extend ==
    /\ i < Len(buffer)
    /\ ~Boundary(i + 1 - chunk_start)
    /\ i' = i + 1
    /\ hash' = NextHash
    /\ UNCHANGED <<buffer, chunk_start, chunk_positions, n, fed>>

(* Mutation of Cut: the hash of one chunk runs on into the next.            *)
CutKeepsHash ==
    /\ i < Len(buffer)
    /\ Boundary(i + 1 - chunk_start)
    /\ i' = i + 1
    /\ hash' = NextHash
    /\ chunk_start' = i + 1
    /\ chunk_positions' = Append(chunk_positions, i + 1)
    /\ UNCHANGED <<buffer, n, fed>>

(* Mutation of Cut: the chunk starts one byte late.                         *)
CutStartsLate ==
    /\ i < Len(buffer)
    /\ Boundary(i + 1 - chunk_start)
    /\ i' = i + 1
    /\ hash' = 0
    /\ chunk_start' = i + 2
    /\ chunk_positions' = Append(chunk_positions, i + 1)
    /\ UNCHANGED <<buffer, n, fed>>

Cut ==
    /\ i < Len(buffer)
    /\ Boundary(i + 1 - chunk_start)
    /\ i' = i + 1
    /\ hash' = 0
    /\ chunk_start' = i + 1
    /\ chunk_positions' = Append(chunk_positions, i + 1)
    /\ UNCHANGED <<buffer, n, fed>>

(* Mutation of ValidSize: < for <=.                                         *)
ValidSizeBelowMax(size) == size # 0 /\ size < MAX_CHUNK_SIZE

ValidSize(size) == size # 0 /\ ~(size > MAX_CHUNK_SIZE)

(* One turn of the loop over chunk_positions; a size that is not valid      *)
(* skips the chunk with a message only.                                     *)
Feed ==
    /\ i = Len(buffer)
    /\ n < Len(chunk_positions)
    /\ LET start      == chunk_positions[n]
           chunk_size == (chunk_positions[n + 1] - start) % U16Span
       IN  fed' = IF ValidSize(chunk_size)
                  THEN Append(fed, SubSeq(buffer, start + 1, start + chunk_size))
                  ELSE fed
    /\ n' = n + 1
    /\ UNCHANGED <<buffer, i, hash, chunk_start, chunk_positions>>

Finished == i = Len(buffer) /\ n = Len(chunk_positions)

Next == Extend \/ Cut \/ Feed

(* A single thread that does not wait.                                      *)
Spec == Init /\ [][Next]_vars /\ WF_vars(Next)
-----------------------------------------------------------------------------
(* The reachable values of every variable; how far the chunk that is being  *)
(* measured reaches.                                                        *)
TypeOK ==
    /\ buffer \in Seq(Byte)
    /\ i \in 0..Len(buffer)
    /\ hash \in 0..(HashSpan - 1)
    /\ chunk_start \in 0..i
    /\ i - chunk_start < MAX_CHUNK_SIZE
    /\ chunk_positions \in Seq(0..i) /\ chunk_positions # << >>
    /\ n \in 1..Len(chunk_positions)
    /\ fed \in Seq(Seq(Byte))

(* Every chunk has at least one byte and at most MAX_CHUNK_SIZE: neither    *)
(* the uint16_t nor the buffers of the LZW encoder overflow.                *)
SizesBounded ==
    \A k \in 1..(Len(chunk_positions) - 1) :
      chunk_positions[k + 1] - chunk_positions[k] \in 1..MAX_CHUNK_SIZE

(* The positions tile the file: from 0, without gap or overlap, up to the   *)
(* last cut, which is the file's end when all of it has been scanned.       *)
Tiles ==
    /\ chunk_positions[1] = 0
    /\ \A k \in 1..(Len(chunk_positions) - 1) :
         chunk_positions[k] < chunk_positions[k + 1]
    /\ chunk_positions[Len(chunk_positions)] = chunk_start
    /\ i = Len(buffer) => chunk_start = Len(buffer)

(* No chunk is skipped or cut short on its way to the encoder.              *)
FedWhole ==
    /\ Len(fed) = n - 1
    /\ \A k \in 1..(n - 1) :
         fed[k] = SubSeq(buffer, chunk_positions[k] + 1, chunk_positions[k + 1])

(* In the end the chunks, one after the other, are the file.                *)
EventuallyLossless == <>(Finished /\ FlattenSeq(fed) = buffer)

(* The gear hash of a string, by its definition: byte after byte from 0.    *)
HashOf(bytes) ==
    LET h[k \in 0..Len(bytes)] ==
          IF k = 0 THEN 0 ELSE (h[k - 1] \div 2 + gearTable[bytes[k]]) % HashSpan
    IN  h[Len(bytes)]

IsCut(start, end) ==
    LET size == end - start IN
    \/ HashOf(SubSeq(buffer, start + 1, end)) % MODULUS = TARGET
         /\ size >= MIN_CHUNK_SIZE
    \/ size >= MAX_CHUNK_SIZE
    \/ end = Len(buffer)

(* Chunks are defined by content: where a chunk ends depends only on the    *)
(* bytes since its own start, so the same bytes cut at the same place give  *)
(* the same chunks wherever they stand in the file (what deduplication      *)
(* lives on).                                                               *)
ContentDefined ==
    \A k \in 1..(Len(chunk_positions) - 1) :
      LET start == chunk_positions[k]
          end   == chunk_positions[k + 1]
      IN  /\ IsCut(start, end)
          /\ \A e \in (start + 1)..(end - 1) : ~IsCut(start, e)
=============================================================================

--------------------------- MODULE ArchiveFormat ---------------------------
(***************************************************************************)
(* The compressed file that encoder.cpp writes and Decoder.cpp reads: a    *)
(* stream of 32-bit headers, each followed by the LZW block it announces   *)
(* (or by nothing, when it is a reference to an earlier chunk).            *)
(*                                                                         *)
(* A chunk is a value; its bytes and the bits of its LZW block are the     *)
(* business of the modules Chunking and Lzw.  What the format needs of a   *)
(* chunk is its length, the size of its block and its SHA-256 digest.      *)
(***************************************************************************)
EXTENDS Integers, Sequences

CONSTANTS
    Chunk,        \* the chunks that content-defined chunking can cut
    SHA,          \* [Chunk -> digests], sha256_hash
    Length,       \* [Chunk -> bytes], the size of a chunk
    PackedSize,   \* [Chunk -> bytes], compressed_size of a chunk's LZW block
    MaxPacked,    \* OUTPUT_SIZE = the decoder's MAX_CHUNK_SIZE (40960)
    MaxChunks,    \* bound: how many chunks a file has
    HeaderSpan,   \* 2^32: a header is a uint32_t
    Garbage       \* a decoded string that is no chunk of the file

ASSUME FormatAssumption ==
    /\ MaxPacked \in Nat /\ MaxChunks \in Nat
    /\ HeaderSpan \in Nat
    /\ 2 * MaxPacked < HeaderSpan
    /\ 2 * MaxChunks < HeaderSpan
    /\ Length \in [Chunk -> Nat \ {0}]
    /\ PackedSize \in [Chunk -> 1..MaxPacked]
    /\ Garbage \notin Chunk

(* The digests of different chunks differ: dedup compares digests only.    *)
ASSUME DigestAssumption ==
    /\ DOMAIN SHA = Chunk
    /\ \A c, d \in Chunk : SHA[c] = SHA[d] => c = d

(* Headers as numbers below HeaderSpan: bit 0 tells a reference (1) from a  *)
(* block (0), the other bits are the chunk's index or the block's size.     *)
IndexHeader(index) == (2 * index + 1) % HeaderSpan
SizeHeader(size)   == (2 * size) % HeaderSpan

Header(h)     == [kind |-> "header", value |-> h]
Packed(c, k)  == [kind |-> "data", of |-> c, byte |-> k]
Block(c)      == [k \in 1..PackedSize[c] |-> Packed(c, k)]

(* A header is one cell of the stream and an LZW block one cell per byte.   *)
(* Four bytes of header are one cell because Decoder.cpp treats a header    *)
(* cut short exactly as one that is absent (the read sets eof).             *)
Cell == [kind : {"header"}, value : 0..(HeaderSpan - 1)]
          \cup [kind : {"data"}, of : Chunk, byte : 1..MaxPacked]
=============================================================================

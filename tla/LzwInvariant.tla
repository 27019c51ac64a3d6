---------------------------- MODULE LzwInvariant ----------------------------
(***************************************************************************)
(* Why a chunk comes back from its block: the inductive invariants of Lzw. *)
(* A parse of the chunk into the strings of the code words ties encoder    *)
(* and decoder together; the bits of the block tie the code words that     *)
(* Read_code reads to those that were packed.                              *)
(***************************************************************************)
EXTENDS Lzw

(* The code words so far, with the one the encoder still extends.           *)
Codes == IF stage = "read" THEN Append(code_words, current_code) ELSE code_words

(* s is the string of each of the first size codes under the rows.          *)
Strings(s, rows, size) ==
    /\ s \in [0..(size - 1) -> Seq(Char)]
    /\ \A c \in 0..(size - 1) :
         /\ Len(s[c]) > 0
         /\ c < AlphabetSize => s[c] = <<c>>
         /\ c >= AlphabetSize => /\ rows[c].prefix \in 0..(c - 1)
                                 /\ s[c] = Append(s[rows[c].prefix], rows[c].char)

(* Between a code word and the next a row is added, while there is room: of *)
(* the first one's code and the first character of the second one's string. *)
RowsFollow(s, rows, size, codes) ==
    /\ size = IF AlphabetSize + Len(codes) - 1 < MAX_DICT_SIZE
              THEN AlphabetSize + Len(codes) - 1 ELSE MAX_DICT_SIZE
    /\ \A c \in AlphabetSize..(size - 1) :
         /\ rows[c].prefix = codes[c - AlphabetSize + 1]
         /\ rows[c].char = s[codes[c - AlphabetSize + 2]][1]

(* A code word's code is older than the row that is added after it.         *)
CodesKnown(size, codes) ==
    \A k \in 1..Len(codes) : codes[k] \in 0..(size - 1) /\ codes[k] < AlphabetSize + k - 1

(* The strings of the code words make up the first end characters: the      *)
(* string of code word k stands in the data from at[k] to at[k + 1].        *)
Covers(s, codes, at, data, end) ==
    /\ at \in [1..(Len(codes) + 1) -> 0..end]
    /\ at[1] = 0 /\ at[Len(codes) + 1] = end
    /\ \A k \in 1..Len(codes) : /\ at[k] < at[k + 1]
                                /\ s[codes[k]] = SubSeq(data, at[k] + 1, at[k + 1])

Parse(s, at, rows, size, codes, data, end) ==
    /\ Strings(s, rows, size) /\ RowsFollow(s, rows, size, codes)
    /\ CodesKnown(size, codes) /\ Covers(s, codes, at, data, end)

(* The decoder has read d code words: its table has the strings of all      *)
(* codes that the encoder had then, and perhaps one more.                   *)
Decoded(d, s, at) ==
    /\ Input_position = CODE_LENGTH * d
    /\ Old = code_words[d] /\ Symbol = <<s[Old][1]>>
    /\ Output = SubSeq(input_data, 1, at[d + 1])
    /\ Len(Code_table) = AlphabetSize + d - 1
    /\ \A c \in 0..(dict_size - 1) : c < Len(Code_table) => Code_table[c + 1] = s[c]

ParseInv ==
    /\ stage # "idle" =>
         \E s, at : /\ Parse(s, at, dictionary, dict_size, Codes, input_data, i)
                    /\ stage = "decode" => \E d \in 1..Len(code_words) : Decoded(d, s, at)
    /\ stage \in {"pack", "decode"} => i = Len(input_data)
    /\ stage = "idle" => Output = input_data

Byte == 0..255

(* Bit p of the block and, after it, of the buffer.                         *)
Stream(block, buffer, count, p) ==
    IF p < 8 * Len(block) THEN Bit(block, p)
    ELSE (buffer \div Power[8 * Len(block) + count - 1 - p]) % 2

(* Bit r of a code word, the most significant one first.                    *)
WordBit(word, r) == (word \div Power[CODE_LENGTH - 1 - r]) % 2

Streamed(words, number, block, buffer, count) ==
    \A j \in 0..(number - 1), r \in 0..(CODE_LENGTH - 1) :
      Stream(block, buffer, count, CODE_LENGTH * j + r) = WordBit(words[j + 1], r)

(* Once the block is complete it has every bit itself.                      *)
StreamInv ==
    /\ stage = "pack" =>
         Streamed(code_words, packed, compressed_data, bit_buffer, bit_count)
    /\ stage = "decode" =>
         \A j \in 0..(Len(code_words) - 1), r \in 0..(CODE_LENGTH - 1) :
           Bit(compressed_data, CODE_LENGTH * j + r) = WordBit(code_words[j + 1], r)
=============================================================================

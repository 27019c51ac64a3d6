----------------------------- MODULE LzwFormat -----------------------------
(***************************************************************************)
(* What the LZW encoder and decoder have agreed on: the alphabet, the      *)
(* width of a code word and the number of codes.                           *)
(***************************************************************************)
EXTENDS Integers, Sequences

CONSTANTS
    AlphabetSize,    \* 256: the values of a byte and the first free code
    MAX_DICT_SIZE,
    CODE_LENGTH,
    BufferBits,      \* 32: the encoder's bit_buffer is a uint32_t
    INPUT_SIZE       \* the length of the longest chunk

(* 1 << n, for every n that is shifted by.                                  *)
Power[n \in 0..BufferBits] == IF n = 0 THEN 1 ELSE 2 * Power[n - 1]

ASSUME LzwAssumption ==
    /\ AlphabetSize \in 1..256
    /\ MAX_DICT_SIZE \in Nat /\ AlphabetSize <= MAX_DICT_SIZE
    /\ CODE_LENGTH \in Nat /\ 9 <= CODE_LENGTH
    /\ MAX_DICT_SIZE <= Power[CODE_LENGTH]
    /\ BufferBits \in Nat /\ CODE_LENGTH + 7 <= BufferBits
    /\ INPUT_SIZE \in Nat

Char == 0..(AlphabetSize - 1)
Code == 0..(MAX_DICT_SIZE - 1)
=============================================================================

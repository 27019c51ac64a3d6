----------------------------- MODULE LzwDecoder -----------------------------
(***************************************************************************)
(* Decompress and Read_code of Decoder/Decoder.cpp: restore one chunk from *)
(* a block of Size bytes.  The table of strings is built anew by each      *)
(* call; Input_position counts the bits read since the call began.         *)
(***************************************************************************)
EXTENDS LzwFormat

VARIABLES
    Code_table, Input_position, Old, Symbol, Output

decVars == <<Code_table, Input_position, Old, Symbol, Output>>

DecInit ==
    /\ Code_table = << >> /\ Input_position = 0
    /\ Old = 0 /\ Symbol = << >> /\ Output = << >>

(* Bit p of the block; a byte that is not there reads as EOF, 0xFF.         *)
Bit(block, p) ==
    LET byte == IF p \div 8 < Len(block) THEN block[p \div 8 + 1] ELSE 255
    IN  (byte \div Power[7 - (p % 8)]) % 2

(* Read_code's CODE_LENGTH bits, most significant first.                    *)
CodeAt(block, p) ==
    LET read[k \in 0..CODE_LENGTH] ==
          IF k = 0 THEN 0 ELSE 2 * read[k - 1] + Bit(block, p + k - 1)
    IN  read[CODE_LENGTH]

(* Bytes taken from Input: one for each multiple of 8 below Input_position. *)
BytesRead == (Input_position + 7) \div 8

(* Code_table[code]; indices beyond the table are undefined in C++ and do   *)
(* not occur (property CodeWithinReach).                                    *)
Entry(code) == IF code < Len(Code_table) THEN Code_table[code + 1] ELSE << >>

DecodeFirst(block) ==
    /\ Code_table' = [c \in 1..AlphabetSize |-> <<c - 1>>]
    /\ Old' = CodeAt(block, 0)
    /\ Symbol' = <<Old' % AlphabetSize>>
    /\ Output' = Symbol'
    /\ Input_position' = CODE_LENGTH

(* Mutation of MoreCodes: the whole of Size instead of Size - 1.            *)
MoreCodesToEnd(block) == Input_position \div 8 < Len(block)

(* The condition of the loop.                                               *)
MoreCodes(block) == Input_position \div 8 < Len(block) - 1

(* Mutation of Symbols: a code not yet in the table repeats the old string. *)
SymbolsOldOnly(New) == IF New >= Len(Code_table) THEN Entry(Old) ELSE Entry(New)

(* The string a code stands for; a code the table has not got yet is the    *)
(* old string followed by its own first character.                          *)
Symbols(New) == IF New >= Len(Code_table) THEN Entry(Old) \o Symbol ELSE Entry(New)

DecodeNext(block) ==
    /\ MoreCodes(block)
    /\ LET New == CodeAt(block, Input_position) IN
         /\ Output' = Output \o Symbols(New)
         /\ Symbol' = SubSeq(Symbols(New), 1, 1)
         /\ Old' = New
    /\ Code_table' = Append(Code_table, Entry(Old) \o Symbol')
    /\ Input_position' = Input_position + CODE_LENGTH
=============================================================================

-------------------------------- MODULE Lzw --------------------------------
(***************************************************************************)
(* Chunks compressed one after the other by the same encoder, whose        *)
(* dictionary outlives each call, and restored by the decoder.             *)
(***************************************************************************)
EXTENDS LzwEncoder, LzwDecoder

CONSTANT MaxCalls  \* bound: how many chunks are compressed

ASSUME CallsAssumption == MaxCalls \in Nat

VARIABLES
    stage,           \* where the call is: "idle", "read", "pack", "decode"
    calls            \* how many calls have begun

vars == <<encVars, decVars, stage, calls>>

Init == EncInit /\ DecInit /\ stage = "idle" /\ calls = 0

Call ==
    /\ stage = "idle" /\ calls < MaxCalls
    /\ \E n \in 1..INPUT_SIZE : \E data \in [1..n -> Char] : EncodeCall(data)
    /\ stage' = "read" /\ calls' = calls + 1
    /\ UNCHANGED decVars

Read ==
    /\ stage = "read"
    /\ LengthenString \/ EmitCode
    /\ UNCHANGED <<decVars, stage, calls>>

ReadLast ==
    /\ stage = "read" /\ EmitLast
    /\ stage' = "pack"
    /\ UNCHANGED <<decVars, calls>>

Pack == stage = "pack" /\ PackCode /\ UNCHANGED <<decVars, stage, calls>>

(* The block is complete; the decoder starts on it.                         *)
Restore ==
    /\ stage = "pack" /\ PackTail
    /\ DecodeFirst(compressed_data')
    /\ stage' = "decode"
    /\ UNCHANGED calls

RestoreNext ==
    /\ stage = "decode" /\ DecodeNext(compressed_data)
    /\ UNCHANGED <<encVars, stage, calls>>

RestoreEnd ==
    /\ stage = "decode" /\ ~MoreCodes(compressed_data)
    /\ stage' = "idle"
    /\ UNCHANGED <<encVars, decVars, calls>>

Next == \/ Call \/ Read \/ ReadLast \/ Pack
        \/ Restore \/ RestoreNext \/ RestoreEnd

Spec == Init /\ [][Next]_vars
-----------------------------------------------------------------------------
(* The reachable values of every variable.                                  *)
TypeOK ==
    /\ stage \in {"idle", "read", "pack", "decode"} /\ calls \in 0..MaxCalls
    /\ input_data \in Seq(Char) /\ i \in 0..Len(input_data)
    /\ dictionary \in [AlphabetSize..(MAX_DICT_SIZE - 1) -> Row]
    /\ dict_size \in AlphabetSize..MAX_DICT_SIZE
    /\ current_code \in 0..(dict_size - 1)
    /\ code_words \in Seq(0..(dict_size - 1))
    /\ packed \in 0..Len(code_words)
    /\ bit_buffer \in 0..(Power[BufferBits] - 1) /\ bit_count \in 0..7
    /\ compressed_data \in Seq(0..255)
    /\ Code_table \in Seq(Seq(Char))
    /\ Old \in Code /\ Symbol \in Seq(Char) /\ Output \in Seq(Char)
    /\ Input_position \in Nat

(* What comes back is what went in, whatever the calls before it left in    *)
(* the dictionary.                                                          *)
RoundTrip == stage = "idle" => Output = input_data

(* No index is ever out of range at either end: a code is either in the     *)
(* decoder's table or the very next one it will add.                        *)
CodeWithinReach ==
    /\ TypeOK
    /\ stage = "decode" =>
         /\ Old < Len(Code_table)
         /\ MoreCodes(compressed_data) =>
              CodeAt(compressed_data, Input_position) <= Len(Code_table)

(* The decoder takes exactly the block's bytes from Input, so that the next *)
(* header is read where it stands, and exactly as many codes as were        *)
(* packed.                                                                  *)
BlockConsumed ==
    stage = "decode" /\ ~MoreCodes(compressed_data) =>
      /\ BytesRead = Len(compressed_data)
      /\ Input_position = CODE_LENGTH * Len(code_words)

(* The string that a code of the encoder stands for.                        *)
String[c \in 0..(dict_size - 1)] ==
    IF c < AlphabetSize THEN <<c>>
    ELSE Append(String[dictionary[c].prefix], dictionary[c].char)

(* Both ends build the same dictionary: row for row, as far as the decoder  *)
(* has got.                                                                 *)
TablesAgree ==
    stage = "decode" =>
      \A c \in 0..(dict_size - 1) :
        c < Len(Code_table) => Code_table[c + 1] = String[c]

(* A block fits OUTPUT_SIZE: one code word at most for each byte, and no    *)
(* bit is added or lost between the code words and the block.               *)
BlockFits ==
    /\ Len(code_words) <= Len(input_data)
    /\ 8 * Len(compressed_data) <= CODE_LENGTH * Len(code_words) + 7
    /\ stage \in {"read", "pack"} =>
         8 * Len(compressed_data) + bit_count = CODE_LENGTH * packed
=============================================================================

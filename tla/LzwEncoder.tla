----------------------------- MODULE LzwEncoder -----------------------------
(***************************************************************************)
(* lzw_encode of Server/lzw.cpp, and lzw_encode_hw of Server/lzw_hw.cpp,   *)
(* which does the same: compress one chunk into code words and pack them,  *)
(* most significant bit first.  The dictionary is a global that no call    *)
(* clears; only dict_size starts anew.  Its first AlphabetSize (256) rows, *)
(* the single characters, are never searched and are left out.             *)
(***************************************************************************)
EXTENDS LzwFormat

Row == [prefix : Code, char : Char]

VARIABLES
    input_data,      \* the chunk
    i,               \* how much of it has been read
    dictionary, dict_size,
    current_code, code_words,
    packed,          \* how many code words have been packed
    bit_buffer, bit_count,
    compressed_data

encVars == <<input_data, i, dictionary, dict_size, current_code, code_words,
             packed, bit_buffer, bit_count, compressed_data>>

EncInit ==
    /\ input_data = << >> /\ i = 0
    /\ dictionary = [j \in AlphabetSize..(MAX_DICT_SIZE - 1) |->
                       [prefix |-> 0, char |-> 0]]
    /\ dict_size = AlphabetSize
    /\ current_code = 0 /\ code_words = << >>
    /\ packed = 0 /\ bit_buffer = 0 /\ bit_count = 0
    /\ compressed_data = << >>

(* Mutation of EncodeCall: dict_size keeps its value.                       *)
EncodeCallKeepsSize(data) ==
    /\ input_data' = data /\ i' = 1
    /\ UNCHANGED dict_size
    /\ current_code' = data[1] /\ code_words' = << >>
    /\ packed' = 0 /\ bit_buffer' = 0 /\ bit_count' = 0
    /\ compressed_data' = << >>
    /\ UNCHANGED dictionary

(* The call, up to the loop.  Callers never pass an empty chunk.            *)
EncodeCall(data) ==
    /\ input_data' = data /\ i' = 1
    /\ dict_size' = AlphabetSize
    /\ current_code' = data[1] /\ code_words' = << >>
    /\ packed' = 0 /\ bit_buffer' = 0 /\ bit_count' = 0
    /\ compressed_data' = << >>
    /\ UNCHANGED dictionary

Reading   == i < Len(input_data)
next_char == input_data[i + 1]

(* The rows that hold the combined string.                                  *)
Matches == {j \in AlphabetSize..(dict_size - 1) :
              dictionary[j] = [prefix |-> current_code, char |-> next_char]}

LengthenString ==
    /\ Reading
    /\ \E j \in Matches : /\ \A k \in Matches : j <= k
                          /\ current_code' = j
    /\ i' = i + 1
    /\ UNCHANGED <<input_data, dictionary, dict_size, code_words,
                   packed, bit_buffer, bit_count, compressed_data>>

AddRow ==
    /\ dictionary' = [dictionary EXCEPT ![dict_size] =
                        [prefix |-> current_code, char |-> next_char]]
    /\ dict_size' = dict_size + 1

(* Mutation of EmitCode: a full dictionary is not noticed.                  *)
EmitCodeUnbounded ==
    /\ Reading
    /\ Matches = {}
    /\ code_words' = Append(code_words, current_code)
    /\ AddRow
    /\ current_code' = next_char
    /\ i' = i + 1
    /\ UNCHANGED <<input_data, packed, bit_buffer, bit_count, compressed_data>>

EmitCode ==
    /\ Reading
    /\ Matches = {}
    /\ code_words' = Append(code_words, current_code)
    /\ IF dict_size < MAX_DICT_SIZE THEN AddRow
                                    ELSE UNCHANGED <<dictionary, dict_size>>
    /\ current_code' = next_char
    /\ i' = i + 1
    /\ UNCHANGED <<input_data, packed, bit_buffer, bit_count, compressed_data>>

EmitLast ==
    /\ ~Reading
    /\ code_words' = Append(code_words, current_code)
    /\ UNCHANGED <<input_data, i, dictionary, dict_size, current_code,
                   packed, bit_buffer, bit_count, compressed_data>>

(* The bytes that the while loop takes out of a buffer with count bits.     *)
Extracted(buffer, count) ==
    [k \in 1..(count \div 8) |-> (buffer \div Power[count - 8 * k]) % 256]

(* Mutation of PackCode: bits left in the buffer are forgotten.             *)
PackCodeForgets ==
    /\ packed < Len(code_words)
    /\ LET code   == code_words[packed + 1] % Power[CODE_LENGTH]
           buffer == (bit_buffer * Power[CODE_LENGTH] + code) % Power[BufferBits]
           count  == bit_count + CODE_LENGTH
       IN  /\ bit_buffer' = buffer
           /\ bit_count' = 0
           /\ compressed_data' = compressed_data \o Extracted(buffer, count)
    /\ packed' = packed + 1
    /\ UNCHANGED <<input_data, i, dictionary, dict_size, current_code, code_words>>

PackCode ==
    /\ packed < Len(code_words)
    /\ LET code   == code_words[packed + 1] % Power[CODE_LENGTH]
           buffer == (bit_buffer * Power[CODE_LENGTH] + code) % Power[BufferBits]
           count  == bit_count + CODE_LENGTH
       IN  /\ bit_buffer' = buffer
           /\ bit_count' = count % 8
           /\ compressed_data' = compressed_data \o Extracted(buffer, count)
    /\ packed' = packed + 1
    /\ UNCHANGED <<input_data, i, dictionary, dict_size, current_code, code_words>>

(* The remaining bits, if any; the size of compressed_data is the result.   *)
PackTail ==
    /\ packed = Len(code_words)
    /\ compressed_data' =
         IF bit_count > 0
         THEN Append(compressed_data, (bit_buffer * Power[8 - bit_count]) % 256)
         ELSE compressed_data
    /\ UNCHANGED <<input_data, i, dictionary, dict_size, current_code, code_words,
                   packed, bit_buffer, bit_count>>
=============================================================================

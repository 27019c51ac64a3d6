----------------------------- MODULE KernelCalls -----------------------------
(***************************************************************************)
(* What the encoder's loop takes the FPGA for: a call that turns one chunk *)
(* after the other into its own block, or, if something failed during the  *)
(* call, into an empty one; a chunk that is too long ends the program.     *)
(***************************************************************************)
EXTENDS Integers, Sequences

CONSTANTS
    Byte,
    MaxChunks,       \* bound: how many chunks there are
    MaxLength,       \* bound: and how long they are
    INPUT_SIZE

VARIABLES chunks, results, failed, refused

callVars == <<chunks, results, failed, refused>>

(* Each byte of a block depends on the whole chunk.  The size is that of    *)
(* one code word of 13 bits for each byte, as when no string repeats.       *)
CompressedSize(bytes) == (13 * Len(bytes) + 7) \div 8
Block(bytes) == [k \in 1..CompressedSize(bytes) |-> [of |-> bytes, at |-> k]]

Chunk == UNION {[1..len -> Byte] : len \in 1..MaxLength}

Pending == ~refused /\ Len(results) < Len(chunks)
Current == chunks[Len(results) + 1]

Init ==
    /\ chunks \in UNION {[1..n -> Chunk] : n \in 0..MaxChunks}
    /\ results = << >>
    /\ failed = FALSE
    /\ refused = FALSE

Break ==
    /\ Pending
    /\ failed' = TRUE
    /\ UNCHANGED <<chunks, results, refused>>

Compress ==
    /\ Pending /\ Len(Current) <= INPUT_SIZE
    /\ \/ results' = Append(results, Block(Current))
       \/ failed /\ results' = Append(results, << >>)
    /\ failed' = FALSE
    /\ UNCHANGED <<chunks, refused>>

Refuse ==
    /\ Pending /\ Len(Current) > INPUT_SIZE
    /\ refused' = TRUE
    /\ UNCHANGED <<chunks, results, failed>>

Next == Break \/ Compress \/ Refuse

Safety == Init /\ [][Next]_callVars

(* Every call comes to an end.                                              *)
Spec == Safety /\ WF_callVars(Compress \/ Refuse)
=============================================================================

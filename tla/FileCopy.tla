------------------------------ MODULE FileCopy ------------------------------
(***************************************************************************)
(* What encoding a file and decoding the result promises: the copy grows   *)
(* chunk by chunk into the source; if a chunk is lost on the way, the run  *)
(* may go on but ends with the verdict "some failed", never with "all".    *)
(***************************************************************************)
EXTENDS Integers, Sequences

CONSTANTS Value, MaxLength

VARIABLES source, copy, damaged, verdict

vars == <<source, copy, damaged, verdict>>

Init ==
    /\ source \in UNION {[1..n -> Value] : n \in 0..MaxLength}
    /\ copy = << >>
    /\ damaged = FALSE
    /\ verdict = "none"

(* The next chunk of the source arrives.                                    *)
Deliver ==
    /\ verdict = "none" /\ ~damaged
    /\ Len(copy) < Len(source)
    /\ copy' = Append(copy, source[Len(copy) + 1])
    /\ UNCHANGED <<source, damaged, verdict>>

(* A chunk is lost: nothing more is promised of the copy.                   *)
Lose ==
    /\ verdict = "none"
    /\ damaged' = TRUE
    /\ UNCHANGED <<source, verdict>>

Finish ==
    /\ verdict = "none"
    /\ IF damaged THEN verdict' = "some failed"
                  ELSE copy = source /\ verdict' = "all"
    /\ UNCHANGED <<source, copy, damaged>>

Next == Deliver \/ Lose \/ Finish

Safety == Init /\ [][Next]_vars

Spec == Safety /\ WF_vars(Deliver \/ Finish)
=============================================================================

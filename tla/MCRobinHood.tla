---------------------------- MODULE MCRobinHood ----------------------------
(* Four keys whose homes are at the end of the table.  Under the first hash *)
(* multiplier all have the same home, under the second all but one; under   *)
(* the third there are two homes in a table of 16 slots, and one in a       *)
(* smaller table.  Info bytes have three bits, two of them the hash's at    *)
(* first: a node may be at most two steps from home.                        *)
EXTENDS RobinHoodInvariant, TLC

CONSTANTS k1, k2, k3, k4

MCHash == (0 :> ((k1 :> 60) @@ (k2 :> 60) @@ (k3 :> 61) @@ (k4 :> 63)))
       @@ (1 :> ((k1 :> 56) @@ (k2 :> 60) @@ (k3 :> 62) @@ (k4 :> 61)))
       @@ (2 :> ((k1 :> 60) @@ (k2 :> 61) @@ (k3 :> 28) @@ (k4 :> 63)))

(* One key's value is assigned anew, the others are inserted only.          *)
MCInsertions ==
    {[op |-> "emplace", node |-> Node(k, 1)] : k \in Key}
      \cup {[op |-> "insert_or_assign", node |-> Node(k3, v)] : v \in Value}
=============================================================================

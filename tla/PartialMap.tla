----------------------------- MODULE PartialMap -----------------------------
(***************************************************************************)
(* What a hash map promises, whatever its table looks like: a map from     *)
(* keys to values, and calls that change it.  A call may move the entries  *)
(* to new memory, one after the other.  One failure is admitted: a call    *)
(* may overflow, and the map then has lost the entries that were still on  *)
(* their way, all of them and nothing else.                                *)
(***************************************************************************)
CONSTANTS Insertions,  \* records with a node to insert; "emplace" keeps a
                       \* value that is there, "insert_or_assign" does not
          Rehash,      \* another call, which moves the entries only
          None

VARIABLES map,
          away,          \* the keys whose entries are on their way
          pending,       \* the call under way
          overflowed     \* whether the last call overflowed

Empty == [k \in {} |-> None]
With(m, node) ==
    [k \in DOMAIN m \cup {node.first} |-> IF k = node.first THEN node.second ELSE m[k]]
Without(m, keys) == [k \in DOMAIN m \ keys |-> m[k]]

Init == map = Empty /\ away = {} /\ pending = None /\ overflowed = FALSE

Begin ==
    /\ pending = None
    /\ \/ pending' \in Insertions /\ UNCHANGED away
       \/ pending' = Rehash /\ away' = DOMAIN map
    /\ overflowed' = FALSE
    /\ UNCHANGED map

(* An insertion that makes room.                                            *)
MoveAll ==
    /\ pending \in Insertions /\ away = {}
    /\ away' = DOMAIN map
    /\ UNCHANGED <<map, pending, overflowed>>

Arrive ==
    /\ \E key \in away : away' = away \ {key}
    /\ UNCHANGED <<map, pending, overflowed>>

Insert ==
    /\ pending \in Insertions /\ away = {}
    /\ LET node == pending.node
       IN  IF pending.op = "emplace" /\ node.first \in DOMAIN map
           THEN UNCHANGED map
           ELSE map' = With(map, node)
    /\ pending' = None
    /\ UNCHANGED <<away, overflowed>>

Rehashed ==
    /\ pending = Rehash /\ away = {}
    /\ pending' = None
    /\ UNCHANGED <<map, away, overflowed>>

Overflow ==
    /\ pending # None
    /\ map' = Without(map, away) /\ away' = {}
    /\ pending' = None
    /\ overflowed' = TRUE

(* Calls that return at once: an erasure, clear, or one that changes nothing.*)
AtOnce ==
    /\ pending = None
    /\ map' \in {Without(map, {key}) : key \in DOMAIN map} \cup {Empty, map}
    /\ overflowed' = FALSE
    /\ UNCHANGED <<away, pending>>

Next == Begin \/ MoveAll \/ Arrive \/ Insert \/ Rehashed \/ Overflow \/ AtOnce

Spec == Init /\ [][Next]_<<map, away, pending, overflowed>>
=============================================================================

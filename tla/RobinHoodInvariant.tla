------------------------- MODULE RobinHoodInvariant -------------------------
(***************************************************************************)
(* The inductive invariant of RobinHoodMap: what makes a table sound, in   *)
(* particular the order of its nodes, and what holds between the table,    *)
(* the nodes on their way into it and an iterator.                         *)
(***************************************************************************)
EXTENDS RobinHoodMap

Fields(t) ==
    /\ t = [mHashMultiplier |-> t.mHashMultiplier, mKeyVals |-> t.mKeyVals,
            mInfo |-> t.mInfo, mNumElements |-> t.mNumElements,
            mMask |-> t.mMask,
            mMaxNumElementsAllowed |-> t.mMaxNumElementsAllowed,
            mInfoInc |-> t.mInfoInc, mInfoHashShift |-> t.mInfoHashShift]
    /\ t.mHashMultiplier \in 0..(Multipliers - 1)
    /\ t.mKeyVals \in [DOMAIN t.mKeyVals -> Pair \cup {NoNode}]
    /\ t.mInfo \in [DOMAIN t.mInfo -> 0..(InfoByte - 1)]
    /\ t.mNumElements \in Nat /\ t.mMask \in Nat
    /\ t.mMaxNumElementsAllowed \in Nat
    /\ t.mInfoInc \in Nat /\ t.mInfoHashShift \in Nat

KeyAt(t, i) == t.mKeyVals[i].first

(* The memory is of the size that goes with the mask and ends in the        *)
(* sentinel and zeros; a table without memory has zeros for info.           *)
Sized(t) ==
    IF t.mMask = 0
    THEN /\ t.mNumElements = 0
         /\ DOMAIN t.mInfo = 0..7
         /\ \A i \in 0..7 : t.mInfo[i] = 0
    ELSE /\ DOMAIN t.mKeyVals = 0..(Slots(t) - 1)
         /\ DOMAIN t.mInfo = 0..(Slots(t) + 7)
         /\ t.mInfo[Slots(t)] = 1
         /\ \A i \in (Slots(t) + 1)..(Slots(t) + 7) : t.mInfo[i] = 0

(* A step from home counts what the bits of hash leave room for.            *)
Scaled(t) ==
    /\ t.mInfoHashShift < InitialInfoNumBits
    /\ t.mInfoInc = Power[InitialInfoNumBits - t.mInfoHashShift]

Shaped(t) == Fields(t) /\ Sized(t) /\ Scaled(t)

(* As long as insertions are allowed, every node can move one step.         *)
Room(t) == \A i \in Used(t) : ~Full(t, t.mInfo[i])

Allowed(t) ==
    /\ t.mMaxNumElementsAllowed \in {0, calcMaxNumElementsAllowed(t.mMask + 1)}
    /\ t.mMaxNumElementsAllowed # 0 => Room(t)

(* An info byte says how far its node is from home.                         *)
Honest(t) ==
    \A i \in Used(t) :
      /\ t.mKeyVals[i] \in Pair
      /\ i >= Home(t, KeyAt(t, i))
      /\ t.mInfo[i] = Info(t, KeyAt(t, i), i - Home(t, KeyAt(t, i)))

(* A node away from home has a node before it that is not much nearer to    *)
(* its own.                                                                 *)
Ordered(t) ==
    \A i \in 1..(Slots(t) - 1) :
      t.mInfo[i] >= 2 * t.mInfoInc => t.mInfo[i - 1] >= t.mInfo[i] - t.mInfoInc

Distinct(t) == \A i, j \in Used(t) : KeyAt(t, i) = KeyAt(t, j) => i = j

Sound(t) ==
    /\ Shaped(t) /\ Allowed(t)
    /\ Honest(t) /\ Ordered(t) /\ Distinct(t)
    /\ t.mNumElements = Cardinality(Used(t))

(* The nodes on their way are other keys' and find room.                    *)
Incoming(t, nodes) ==
    /\ DOMAIN nodes \subseteq Nat /\ IsFiniteSet(DOMAIN nodes)
    /\ nodes \in [DOMAIN nodes -> Pair]
    /\ \A i, j \in DOMAIN nodes : nodes[i].first = nodes[j].first => i = j
    /\ \A i \in DOMAIN nodes : nodes[i].first \notin Keys(t)
    /\ t.mNumElements + Cardinality(DOMAIN nodes)
         <= calcMaxNumElementsAllowed(t.mMask + 1)

KeysFrom(t, i) == {KeyAt(t, j) : j \in {k \in Used(t) : k >= i}}

IteratorInv ==
    it # None =>
      /\ Idle
      /\ it = End(table) \/ it \in Used(table)
      /\ due = KeysFrom(table, it)

(* The table is sound, so that searches, growth and erasure may rely on its *)
(* order; the nodes that a rehash has still to move are other keys' and     *)
(* find room; an iterator is at a node or at the end, and what it has still *)
(* to come to is ahead of it; nothing is on its way between calls.          *)
MapInv ==
    /\ Sound(table) /\ Incoming(table, moving) /\ IteratorInv
    /\ pending \in Insertions \cup {Rehash, None}
    /\ Idle => ~Moving
    /\ attempts \in 0..MaxAttempts /\ overflowed \in BOOLEAN
    /\ due \subseteq Key
=============================================================================

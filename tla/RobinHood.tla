----------------------------- MODULE RobinHood -----------------------------
(***************************************************************************)
(* detail::Table of Server/robin_hood.h, the hash map that came with the   *)
(* project for the deduplication of chunks.  Each slot has an info byte:   *)
(* 0 if it is free, otherwise how far its node is from its home (in steps  *)
(* of mInfoInc, one at home) plus some bits of the key's hash.  Nodes that *)
(* are far from home displace nodes that are near.  There is no wrapping   *)
(* around: the table has extra slots at its end, and after them a sentinel *)
(* byte and padding.  A table here is a record of its members.             *)
(***************************************************************************)
EXTENDS Integers, Sequences, FiniteSets, SequencesExt

CONSTANTS
    Key, Value,
    Hash,                \* [0..(Multipliers - 1) -> [Key -> Nat]]
    Multipliers,         \* bound: the hash multipliers before they repeat
    InitialNumElements,  \* 8
    InitialInfoNumBits,  \* 5
    InfoByte,            \* 256: the values of an info byte
    MaxLoadFactor100,    \* 80
    NoNode               \* what a slot holds that nothing was moved to

(* 1 << n                                                                   *)
Power[n \in Nat] == IF n = 0 THEN 1 ELSE 2 * Power[n - 1]

InitialInfoInc == Power[InitialInfoNumBits]

calcMaxNumElementsAllowed(n) == (n * MaxLoadFactor100) \div 100

Pair == [first : Key, second : Value]

(* The load factor is above 10 and below 100, as the code asserts; that the *)
(* smallest table allows an element excludes 11 and 12.                     *)
ASSUME RobinHoodAssumption ==
    /\ IsFiniteSet(Key)
    /\ Multipliers \in Nat \ {0}
    /\ \A m \in 0..(Multipliers - 1), k \in Key : Hash[m][k] \in Nat
    /\ InitialInfoNumBits \in Nat \ {0}
    /\ InfoByte \in Nat /\ 2 * InitialInfoInc <= InfoByte
    /\ MaxLoadFactor100 \in 11..99
    /\ InitialNumElements \in Nat
    /\ calcMaxNumElementsAllowed(InitialNumElements) >= 1
    /\ NoNode \notin Pair

Node(key, value) == [first |-> key, second |-> value]

NoNodes == [i \in {} |-> NoNode]

calcNumElementsWithBuffer(n) ==
    n + (IF calcMaxNumElementsAllowed(n) < InfoByte THEN calcMaxNumElementsAllowed(n)
                                                    ELSE InfoByte - 1)

(* The slots of t, without the sentinel.                                    *)
Slots(t) == calcNumElementsWithBuffer(t.mMask + 1)

(* The table without memory of its own: mInfo points to mMask, which is 0.  *)
InitTable(multiplier) ==
    [mHashMultiplier |-> multiplier, mKeyVals |-> NoNodes,
     mInfo |-> [i \in 0..7 |-> 0],
     mNumElements |-> 0, mMask |-> 0, mMaxNumElementsAllowed |-> 0,
     mInfoInc |-> InitialInfoInc, mInfoHashShift |-> 0]

(* Fresh memory: free slots, the sentinel, and seven bytes of padding.      *)
initData(t, max_elements) ==
    LET slots == calcNumElementsWithBuffer(max_elements)
    IN  [t EXCEPT !.mNumElements = 0, !.mMask = max_elements - 1,
                  !.mMaxNumElementsAllowed = calcMaxNumElementsAllowed(max_elements),
                  !.mKeyVals = [i \in 0..(slots - 1) |-> NoNode],
                  !.mInfo = [i \in 0..(slots + 7) |-> IF i = slots THEN 1 ELSE 0],
                  !.mInfoInc = InitialInfoInc, !.mInfoHashShift = 0]
-----------------------------------------------------------------------------
(* Looking for a key *)

(* keyToIdx: where the search for a key begins, and with which info.        *)
Home(t, key) ==
    (Hash[t.mHashMultiplier][key] \div InitialInfoInc) % (t.mMask + 1)

HomeInfo(t, key) ==
    t.mInfoInc
      + ((Hash[t.mHashMultiplier][key] % InitialInfoInc) \div Power[t.mInfoHashShift])

(* The info that the search has after d calls of next, and the one it meets.*)
Info(t, key, d) == HomeInfo(t, key) + d * t.mInfoInc
Met(t, key, d) == t.mInfo[Home(t, key) + d]

(* As far as mInfo goes; beyond it nothing may be read.                     *)
LastStep(t, key) == Cardinality(DOMAIN t.mInfo) - 1 - Home(t, key)

(* The first number from lo on that P holds of; none up to hi is an error.  *)
First(lo, hi, P(_)) == CHOOSE i \in lo..hi : P(i) /\ \A j \in lo..(i - 1) : ~P(j)

HasKey(t, i, key) == i < Slots(t) /\ t.mKeyVals[i] # NoNode /\ t.mKeyVals[i].first = key

Matches(t, key, d) ==
    Info(t, key, d) = Met(t, key, d) /\ HasKey(t, Home(t, key) + d, key)

(* end(): one past the slots, where mInfo begins.                           *)
End(t) == IF t.mMask = 0 THEN 0 ELSE Slots(t)

(* findIdx looks at two slots before it asks whether to go on, erase(key)   *)
(* at one.                                                                  *)
SearchIdx(t, key, unrolled) ==
    LET stops(d) == d % unrolled = 0 /\ Info(t, key, d) > Met(t, key, d)
        seen == 0..(First(1, LastStep(t, key), stops) - 1)
    IN  IF \E d \in seen : Matches(t, key, d)
        THEN Home(t, key) + (CHOOSE d \in seen : Matches(t, key, d))
        ELSE End(t)

findIdx(t, key)  == SearchIdx(t, key, 2)
EraseIdx(t, key) == SearchIdx(t, key, 1)

(* fastForward: from slot i on to a byte that is not 0; the sentinel at the *)
(* latest.                                                                  *)
fastForward(t, i) == First(i, Slots(t), LAMBDA j : t.mInfo[j] # 0)

begin(t) == IF t.mNumElements = 0 THEN End(t) ELSE fastForward(t, 0)
-----------------------------------------------------------------------------
(* Moving nodes *)

Full(t, info) == info + t.mInfoInc > InfoByte - 1

(* Mutation of shiftUp: an info byte that is full now goes unnoticed.       *)
shiftUpUnchecked(t, startIdx, insertion_idx) ==
    LET moved == (insertion_idx + 1)..startIdx
        info(i) == (t.mInfo[i - 1] + t.mInfoInc) % InfoByte
    IN  [t EXCEPT
           !.mKeyVals = [i \in DOMAIN @ |-> IF i \in moved THEN @[i - 1] ELSE @[i]],
           !.mInfo = [i \in DOMAIN @ |-> IF i \in moved THEN info(i) ELSE @[i]]]

(* Every node from insertion_idx on moves up by one, into the free slot at  *)
(* startIdx.  A byte that could not grow again stops further insertions.    *)
shiftUp(t, startIdx, insertion_idx) ==
    LET moved == (insertion_idx + 1)..startIdx
        info(i) == (t.mInfo[i - 1] + t.mInfoInc) % InfoByte
    IN  [t EXCEPT
           !.mKeyVals = [i \in DOMAIN @ |-> IF i \in moved THEN @[i - 1] ELSE @[i]],
           !.mInfo = [i \in DOMAIN @ |-> IF i \in moved THEN info(i) ELSE @[i]],
           !.mMaxNumElementsAllowed =
               IF \E i \in moved : Full(t, info(i)) THEN 0 ELSE @]

(* The nodes after idx that are not at home move down by one.               *)
shiftDown(t, idx) ==
    LET last == First(idx, Slots(t) - 1, LAMBDA i : t.mInfo[i + 1] < 2 * t.mInfoInc)
        moved == idx..(last - 1)
    IN  [t EXCEPT
           !.mKeyVals = [i \in DOMAIN @ |-> IF i \in moved THEN @[i + 1]
                                            ELSE IF i = last THEN NoNode ELSE @[i]],
           !.mInfo = [i \in DOMAIN @ |-> IF i \in moved THEN @[i + 1] - t.mInfoInc
                                         ELSE IF i = last THEN 0 ELSE @[i]]]

(* The end of insert_move and of insertKeyPrepareEmptySpot: node gets the   *)
(* slot d steps from its home, and what is there moves up.                  *)
PutAt(t, node, d) ==
    LET insertion_idx == Home(t, node.first) + d
        insertion_info == Info(t, node.first, d) % InfoByte
        free == First(insertion_idx, Slots(t) + 7, LAMBDA i : t.mInfo[i] = 0)
        room == shiftUp(IF Full(t, insertion_info)
                        THEN [t EXCEPT !.mMaxNumElementsAllowed = 0] ELSE t,
                        free, insertion_idx)
    IN  [room EXCEPT !.mKeyVals[insertion_idx] = node,
                     !.mInfo[insertion_idx] = insertion_info,
                     !.mNumElements = @ + 1]

(* One bit of hash less in every info byte, one more for the distance.      *)
CanIncreaseInfo(t) == t.mInfoInc > 2

(* Mutation of IncreaseInfo: the bytes stay as they were.                   *)
IncreaseInfoOnly(t) ==
    [t EXCEPT !.mInfoInc = @ \div 2, !.mInfoHashShift = @ + 1,
              !.mMaxNumElementsAllowed = calcMaxNumElementsAllowed(t.mMask + 1)]

IncreaseInfo(t) ==
    LET end == Slots(t)
    IN  [t EXCEPT !.mInfoInc = @ \div 2, !.mInfoHashShift = @ + 1,
                  !.mInfo = [i \in DOMAIN @ |-> IF i = end THEN 1 ELSE @[i] \div 2],
                  !.mMaxNumElementsAllowed = calcMaxNumElementsAllowed(t.mMask + 1)]
=============================================================================

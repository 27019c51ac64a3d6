---------------------------- MODULE RobinHoodMap ----------------------------
(***************************************************************************)
(* The calls of robin_hood's map: insertions, each a loop that may grow    *)
(* the table before it finds room, erasing by key and by iterator,         *)
(* clearing, resizing, copying, moving, swapping, and iterating.           *)
(***************************************************************************)
EXTENDS RobinHood

CONSTANTS
    MaxAttempts,   \* 256, the tries of insertKeyPrepareEmptySpot
    Sizes,         \* bound: the arguments of reserve and rehash
    Insertions,    \* bound: the insertions that are called
    None

(* What is pending while reserve, rehash or compact move nodes.             *)
Rehash == [op |-> "rehash", node |-> NoNode]

ASSUME RobinHoodMapAssumption ==
    /\ MaxAttempts \in Nat /\ Sizes \subseteq Nat
    /\ Insertions \subseteq
         [op : {"emplace", "insert_or_assign"}, node : Pair]
    /\ None \notin Nat \cup Insertions \cup {Rehash}

VARIABLES
    table,         \* the map
    pending,       \* the call under way, an insertion or Rehash, or None
    attempts,      \* how many times it has grown the table
    moving,        \* the nodes that a rehash has still to move, by their old slots
    overflowed,    \* the last call has thrown an overflow_error
    it,            \* an iterator, as the slot it is at, or None
    due            \* history: the keys the iteration has still to come to

vars == <<table, pending, attempts, moving, overflowed, it, due>>

Init ==
    /\ table = InitTable(0)
    /\ pending = None /\ attempts = 0 /\ moving = NoNodes
    /\ overflowed = FALSE
    /\ it = None /\ due = {}

Used(t) == {i \in 0..(Slots(t) - 1) : t.mInfo[i] # 0}
Nodes(t) == {t.mKeyVals[i] : i \in Used(t)}
Keys(t) == {node.first : node \in Nodes(t)}
-----------------------------------------------------------------------------
(* Growing *)

(* Mutation of ToMove: the slots beyond the mask forgotten.                 *)
ToMoveMasked(t) == {i \in Used(t) : i <= t.mMask}

ToMove(t) == Used(t)

(* rehashPowerOfTwo: new memory, into which every node moves in turn.       *)
rehashPowerOfTwo(t, numBuckets) ==
    /\ table' = initData(t, numBuckets)
    /\ moving' = [i \in ToMove(table) |-> table.mKeyVals[i]]

Moving == DOMAIN moving # {}

(* The first slot whose node is nearer to its home than key would be.       *)
Passed(t, key) ==
    First(0, LastStep(t, key), LAMBDA d : Info(t, key, d) > Met(t, key, d))

(* insert_move, for a node known to be new.                                 *)
insert_move ==
    /\ Moving
    /\ table.mMaxNumElementsAllowed # 0 \/ CanIncreaseInfo(table)
    /\ LET t == IF table.mMaxNumElementsAllowed = 0 THEN IncreaseInfo(table) ELSE table
           node == moving[Min(DOMAIN moving)]
       IN  table' = PutAt(t, node, Passed(t, node.first))
    /\ moving' = Restrict(moving, DOMAIN moving \ {Min(DOMAIN moving)})
    /\ UNCHANGED <<pending, attempts, overflowed, it, due>>

(* The exception of insert_move: this node, and those after it, are lost.   *)
insert_move_throws ==
    /\ Moving
    /\ table.mMaxNumElementsAllowed = 0 /\ ~CanIncreaseInfo(table)
    /\ moving' = NoNodes
    /\ pending' = None
    /\ overflowed' = TRUE
    /\ UNCHANGED <<table, attempts, it, due>>

nextHashMultiplier(t) == [t EXCEPT !.mHashMultiplier = (@ + 1) % Multipliers]

increase_size ==
    LET allowed == calcMaxNumElementsAllowed(table.mMask + 1)
        at_once(t) == table' = t /\ UNCHANGED moving
    IN  IF table.mMask = 0 THEN at_once(initData(table, InitialNumElements))
        ELSE IF table.mNumElements < allowed /\ CanIncreaseInfo(table)
             THEN at_once(IncreaseInfo(table))
        ELSE IF table.mNumElements * 2 < allowed
             THEN rehashPowerOfTwo(nextHashMultiplier(table), table.mMask + 1)
        ELSE rehashPowerOfTwo(table, (table.mMask + 1) * 2)

(* The smallest table, by doubling, that allows n elements.                 *)
SizeFor(n) ==
    InitialNumElements
      * Power[First(0, n, LAMBDA e : calcMaxNumElementsAllowed(InitialNumElements * Power[e]) >= n)]
-----------------------------------------------------------------------------
(* Inserting: emplace, try_emplace, insert and operator[] keep the value of *)
(* a key that is there, insert_or_assign replaces it.                       *)

Idle == pending = None
Invalidate == it' = None /\ due' = {}

Call ==
    /\ Idle
    /\ pending' \in Insertions
    /\ attempts' = 0
    /\ Invalidate
    /\ overflowed' = FALSE
    /\ UNCHANGED <<table, moving>>

(* nextWhileLess, and on while info bytes and not keys agree.               *)
NotLess(t, key) ==
    First(0, LastStep(t, key), LAMBDA d : Info(t, key, d) >= Met(t, key, d))
Differs(t, key) ==
    First(NotLess(t, key), LastStep(t, key), LAMBDA d : Info(t, key, d) # Met(t, key, d))

Candidates(t, key) ==
    {d \in NotLess(t, key)..(Differs(t, key) - 1) : Matches(t, key, d)}

Return == pending' = None /\ UNCHANGED <<attempts, moving, it, due>>

(* The loop of insertKeyPrepareEmptySpot is at its beginning.               *)
Trying == pending \in Insertions /\ ~Moving

KeyFound ==
    /\ Trying /\ attempts < MaxAttempts
    /\ LET node == pending.node
           found == Candidates(table, node.first)
       IN  /\ found # {}
           /\ table' = IF pending.op = "emplace" THEN table
                       ELSE [table EXCEPT !.mKeyVals[Home(table, node.first) + (CHOOSE d \in found : TRUE)] = node]
    /\ Return
    /\ UNCHANGED overflowed

NewKey == Trying /\ attempts < MaxAttempts /\ Candidates(table, pending.node.first) = {}

Grow ==
    /\ NewKey
    /\ table.mNumElements >= table.mMaxNumElementsAllowed
    /\ increase_size
    /\ attempts' = attempts + 1
    /\ UNCHANGED <<pending, overflowed, it, due>>

(* new_node or overwrite_node.                                              *)
Place ==
    /\ NewKey
    /\ table.mNumElements < table.mMaxNumElementsAllowed
    /\ table' = PutAt(table, pending.node, Differs(table, pending.node.first))
    /\ Return
    /\ UNCHANGED overflowed

GiveUp ==
    /\ Trying /\ attempts = MaxAttempts
    /\ overflowed' = TRUE
    /\ Return
    /\ UNCHANGED table
-----------------------------------------------------------------------------
(* Erasing and iterating *)

Shrunk(t, idx) == [shiftDown(t, idx) EXCEPT !.mNumElements = @ - 1]

Erase ==
    /\ Idle
    /\ \E key \in Key :
         /\ EraseIdx(table, key) # End(table)
         /\ table' = Shrunk(table, EraseIdx(table, key))
    /\ Invalidate
    /\ overflowed' = FALSE
    /\ UNCHANGED <<pending, attempts, moving>>

Begin ==
    /\ Idle
    /\ it' = begin(table)
    /\ due' = Keys(table)
    /\ overflowed' = FALSE
    /\ UNCHANGED <<table, pending, attempts, moving>>

Dereferenced == table.mKeyVals[it].first

Increment ==
    /\ it # None /\ it # End(table)
    /\ it' = fastForward(table, it + 1)
    /\ due' = due \ {Dereferenced}
    /\ overflowed' = FALSE
    /\ UNCHANGED <<table, pending, attempts, moving>>

(* Mutation of After: the iterator moves on even if a node moved down to it.*)
AfterNext(t, i) == fastForward(t, i + 1)

(* What erase returns: this slot again if a node has moved down to it.      *)
After(t, i) == IF t.mInfo[i] # 0 THEN i ELSE fastForward(t, i + 1)

EraseAt ==
    /\ it # None /\ it # End(table)
    /\ table' = Shrunk(table, it)
    /\ it' = After(table', it)
    /\ due' = due \ {Dereferenced}
    /\ overflowed' = FALSE
    /\ UNCHANGED <<pending, attempts, moving>>
-----------------------------------------------------------------------------
(* Whole tables *)

Cleared(t) ==
    IF t.mNumElements = 0 THEN t
    ELSE [t EXCEPT !.mNumElements = 0,
                   !.mKeyVals = [i \in DOMAIN @ |-> NoNode],
                   !.mInfo = [i \in DOMAIN @ |-> IF i = Slots(t) THEN 1 ELSE 0],
                   !.mInfoInc = InitialInfoInc, !.mInfoHashShift = 0]

Clear ==
    /\ Idle
    /\ table' = Cleared(table)
    /\ Invalidate
    /\ overflowed' = FALSE
    /\ UNCHANGED <<pending, attempts, moving>>

Resize(newSize) ==
    /\ rehashPowerOfTwo(table, newSize)
    /\ pending' = Rehash
    /\ Invalidate
    /\ overflowed' = FALSE
    /\ UNCHANGED attempts

ResizeEnd ==
    /\ pending = Rehash /\ ~Moving
    /\ Return
    /\ UNCHANGED <<table, overflowed>>

(* rehash(c), or reserve(c) if it needs a larger table.                     *)
Reserve ==
    /\ Idle
    /\ \E c \in Sizes, forceRehash \in BOOLEAN :
         LET newSize == SizeFor(Max({c, table.mNumElements}))
         IN  /\ forceRehash \/ newSize > table.mMask + 1
             /\ Resize(newSize)

compact ==
    /\ Idle
    /\ SizeFor(table.mNumElements) < table.mMask + 1
    /\ Resize(SizeFor(table.mNumElements))

(* Tables that another is assigned to: with and without memory, used or not.*)
Targets == {InitTable(Multipliers - 1), initData(InitTable(0), InitialNumElements)}

(* Copy assignment; the copy constructor does the same to a new table.  The *)
(* run goes on with the copy.                                               *)
Copy ==
    /\ Idle
    /\ \E to \in Targets :
         table' = IF table.mNumElements # 0 THEN table
                  ELSE IF to.mMask = 0 THEN to ELSE InitTable(to.mHashMultiplier)
    /\ Invalidate
    /\ overflowed' = FALSE
    /\ UNCHANGED <<pending, attempts, moving>>

(* Move assignment.  The run goes on with the table moved to.               *)
MoveTo ==
    /\ Idle
    /\ \E to \in Targets : table' = IF table.mMask # 0 THEN table ELSE Cleared(to)
    /\ Invalidate
    /\ overflowed' = FALSE
    /\ UNCHANGED <<pending, attempts, moving>>

(* The same, but the run goes on with the table moved from.                 *)
MoveFrom ==
    /\ Idle
    /\ table' = IF table.mMask # 0 THEN InitTable(table.mHashMultiplier) ELSE table
    /\ Invalidate
    /\ overflowed' = FALSE
    /\ UNCHANGED <<pending, attempts, moving>>

Progress ==
    \/ KeyFound \/ Grow \/ Place \/ GiveUp
    \/ insert_move \/ insert_move_throws \/ ResizeEnd

Next ==
    \/ Call \/ Progress
    \/ Erase \/ Begin \/ Increment \/ EraseAt
    \/ Clear \/ Reserve \/ compact
    \/ Copy \/ MoveTo \/ MoveFrom

Spec == Init /\ [][Next]_vars
-----------------------------------------------------------------------------
(* Info bytes and slots of the reachable tables have their ranges.          *)
TypeOK ==
    /\ table.mHashMultiplier \in 0..(Multipliers - 1)
    /\ table.mMask \in Nat /\ table.mNumElements \in 0..Cardinality(Key)
    /\ \A i \in DOMAIN table.mInfo : table.mInfo[i] \in 0..(InfoByte - 1)
    /\ table.mMask # 0 => /\ DOMAIN table.mKeyVals = 0..(Slots(table) - 1)
                          /\ DOMAIN table.mInfo = 0..(Slots(table) + 7)
    /\ Nodes(table) \subseteq Pair
    /\ attempts \in 0..MaxAttempts /\ overflowed \in BOOLEAN
    /\ due \subseteq Key

(* The info bytes tell the truth: each that is not 0 says how far its node  *)
(* is from home, without having wrapped, the sentinel is where iteration    *)
(* and searches end, and as many nodes are there as are counted.            *)
InfoHonest ==
    /\ TypeOK
    /\ \A i \in Used(table) :
         LET key == table.mKeyVals[i].first
         IN  /\ i >= Home(table, key)
             /\ table.mInfo[i] = Info(table, key, i - Home(table, key))
    /\ table.mMask # 0 => table.mInfo[Slots(table)] = 1
    /\ table.mNumElements = Cardinality(Used(table))

(* Find, count, contains and at see a key exactly if it is in the table,    *)
(* although they stop at the first node nearer to its home than they are;   *)
(* erase finds the same slot.                                               *)
LookupsRight ==
    \A key \in Key :
      LET idx == findIdx(table, key)
      IN  /\ idx = EraseIdx(table, key)
          /\ IF key \in Keys(table) THEN HasKey(table, idx, key) ELSE idx = End(table)

(* An iteration comes to every key once, also when it erases on its way.    *)
IterationSeesAll ==
    it # None => due = {table.mKeyVals[i].first : i \in {j \in Used(table) : j >= it}}

(* The table is the map it is meant to be, the nodes on their way to new    *)
(* memory included, and a call that throws an overflow_error costs the map  *)
(* exactly those: nothing if it gives up after MaxAttempts.                 *)
Entries(nodes) == [k \in {node.first : node \in nodes} |->
                     (CHOOSE node \in nodes : node.first = k).second]
Maps == INSTANCE PartialMap
          WITH map <- Entries(Nodes(table) \cup Range(moving)),
               away <- {node.first : node \in Range(moving)}
IsMap == Maps!Spec
=============================================================================

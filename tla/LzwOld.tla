------------------------------- MODULE LzwOld -------------------------------
(***************************************************************************)
(* The first lzw_encode, of Server/lzw_old.cpp: strings are kept under     *)
(* their key, the code of the prefix and the next character, in a hash     *)
(* table without chaining whose collisions go to a small associative       *)
(* memory.  What fits neither is not inserted.                             *)
(***************************************************************************)
EXTENDS Integers, Sequences, SequencesExt

CONSTANTS
    Letters,              \* 256: the values of a byte and the first free code
    CAPACITY,             \* of the hash table
    ASSOCIATE_MEM_STORE,  \* of the associative memory
    my_hash,              \* from keys to slots of the hash table
    MaxInput              \* bound: the length of the input

Letter == 0..(Letters - 1)
Slot   == 0..(CAPACITY - 1)

(* There are fewer codes than letters and characters read.  Codes have 16   *)
(* bits: with an entry for each the tables are full before next_code wraps. *)
KeyRange == 0..(Letters * (Letters + MaxInput) - 1)

ASSUME LzwOldAssumption ==
    /\ Letters \in Nat \ {0} /\ CAPACITY \in Nat \ {0}
    /\ ASSOCIATE_MEM_STORE \in Nat /\ MaxInput \in Nat
    /\ my_hash \in [KeyRange -> Slot]

(* (prefix_code << 8) | next_char                                           *)
Key(prefix, char) == prefix * Letters + char

(* What no entry holds: neither a key nor a code.                           *)
None    == -1
Invalid == [key |-> None, value |-> None]

VARIABLES
    old_data,             \* the input, empty before the call
    old_at,               \* how much of it has been read
    hash_table, assoc_mem,
    next_code, prefix_code, output_codes,
    inserted,             \* history: the insertions that were not refused
    refused,              \* history: one of a string has been refused
    kept                  \* history: what has been read, as far as it lengthened a string

oldVars == <<old_data, old_at, hash_table, assoc_mem, next_code, prefix_code, output_codes,
             inserted, refused, kept>>
-----------------------------------------------------------------------------
(* The dictionary *)

(* Mutation of hash_lookup: the keys are not compared.                      *)
hash_lookupAny(table, key) == table[my_hash[key]].value

hash_lookup(table, key) ==
    IF table[my_hash[key]].key = key THEN table[my_hash[key]].value ELSE None

(* The first entry with this key.                                           *)
assoc_lookup(mem, key) ==
    LET found == SelectInSeq(mem, LAMBDA entry : entry.key = key)
    IN  IF found # 0 THEN mem[found].value ELSE None

lookup(table, mem, key) ==
    IF hash_lookup(table, key) # None THEN hash_lookup(table, key)
                                      ELSE assoc_lookup(mem, key)

Dictionary(table, mem, history) == [table |-> table, mem |-> mem, inserted |-> history]

Collides(d, key) ==
    d.table[my_hash[key]] # Invalid /\ Len(d.mem) = ASSOCIATE_MEM_STORE

insert(d, key, value) ==
    LET entry == [key |-> key, value |-> value]
    IN  IF d.table[my_hash[key]] = Invalid
        THEN [d EXCEPT !.table[my_hash[key]] = entry, !.inserted = @ \cup {entry}]
        ELSE IF ~Collides(d, key)
        THEN [d EXCEPT !.mem = Append(@, entry), !.inserted = @ \cup {entry}]
        ELSE d

(* The single characters, under the prefix ... 0, are put in first.         *)
Initialized ==
    LET with[n \in 0..Letters] ==
          IF n = 0 THEN Dictionary([s \in Slot |-> Invalid], << >>, {})
          ELSE insert(with[n - 1], Key(n - 1, 0), n - 1)
    IN  with[Letters]

Take(d) == hash_table' = d.table /\ assoc_mem' = d.mem /\ inserted' = d.inserted
-----------------------------------------------------------------------------
OldInit ==
    /\ old_data = << >> /\ old_at = 0
    /\ hash_table = [s \in Slot |-> Invalid] /\ assoc_mem = << >> /\ inserted = {}
    /\ next_code = Letters /\ prefix_code = None /\ output_codes = << >>
    /\ refused = FALSE /\ kept = << >>

(* The call, up to the loop; an empty input returns at once.                *)
OldCall ==
    /\ old_data = << >>
    /\ \E n \in 1..MaxInput : old_data' \in [1..n -> Letter]
    /\ Take(Initialized)
    /\ prefix_code' = old_data'[1] /\ old_at' = 1 /\ kept' = <<old_data'[1]>>
    /\ UNCHANGED <<next_code, output_codes, refused>>

OldReading == old_data # << >> /\ old_at < Len(old_data)
next_letter == old_data[old_at + 1]
key == Key(prefix_code, next_letter)
code == lookup(hash_table, assoc_mem, key)

(* A hit.  The code found is that of a single character if the key is one   *)
(* of those that were put in first: then the next character, a 0, is gone.  *)
OldLengthen ==
    /\ OldReading /\ code # None
    /\ prefix_code' = code
    /\ old_at' = old_at + 1
    /\ kept' = IF code < Letters THEN kept ELSE Append(kept, next_letter)
    /\ UNCHANGED <<old_data, hash_table, assoc_mem, next_code, output_codes, inserted, refused>>

(* Mutation of Advanced: next_code keeps its value.                         *)
AdvancedNot(collision) == next_code

Advanced(collision) == IF collision THEN next_code ELSE next_code + 1

OldEmit ==
    /\ OldReading /\ code = None
    /\ LET d == Dictionary(hash_table, assoc_mem, inserted)
       IN  /\ Take(insert(d, key, next_code))
           /\ next_code' = Advanced(Collides(d, key))
           /\ refused' = (refused \/ Collides(d, key))
    /\ output_codes' = Append(output_codes, prefix_code)
    /\ prefix_code' = next_letter
    /\ old_at' = old_at + 1
    /\ kept' = Append(kept, next_letter)
    /\ UNCHANGED old_data

OldEmitLast ==
    /\ old_data # << >> /\ old_at = Len(old_data)
    /\ output_codes' = Append(output_codes, prefix_code)
    /\ prefix_code' = None /\ old_at' = old_at + 1
    /\ UNCHANGED <<old_data, hash_table, assoc_mem, next_code, inserted, refused, kept>>

OldNext == OldCall \/ OldLengthen \/ OldEmit \/ OldEmitLast

OldSpec == OldInit /\ [][OldNext]_oldVars
-----------------------------------------------------------------------------
(* Wherever a collision has put it, every string that was not refused is    *)
(* found again, with its own code, and no other string is.                  *)
OldLookupsRight ==
    old_data # << >> =>
      \A prefix \in 0..(next_code - 1), char \in Letter :
        LET k == Key(prefix, char)
            found == lookup(hash_table, assoc_mem, k)
        IN  /\ found # None => [key |-> k, value |-> found] \in inserted
            /\ \A entry \in inserted : entry.key = k => entry.value = found

OldCodes == IF prefix_code = None THEN output_codes ELSE Append(output_codes, prefix_code)

(* The strings of the codes, by the encoder's own dictionary...             *)
OldString[c \in Letter \cup {e.value : e \in inserted}] ==
    IF c < Letters THEN <<c>>
    ELSE LET entry == CHOOSE e \in inserted : e.value = c
         IN  Append(OldString[entry.key \div Letters], entry.key % Letters)

(* ... and by that of a decoder, which adds one with every code.            *)
OldDecoder[j \in DOMAIN OldCodes] ==
    LET first(s) == SubSeq(s, 1, 1)
        start == <<OldCodes[1]>>
        last  == OldDecoder[j - 1]
        entry == IF OldCodes[j] < Len(last.strings) THEN last.strings[OldCodes[j] + 1]
                 ELSE last.old \o first(last.old)
    IN  IF j = 1
        THEN [strings |-> [c \in 1..Letters |-> <<c - 1>>], old |-> start, output |-> start]
        ELSE [strings |-> Append(last.strings, last.old \o first(entry)),
              old |-> entry, output |-> last.output \o entry]

(* The codes stand for what was read, except for each 0 that followed a     *)
(* string of a single character.  A decoder sees the same as long as no     *)
(* insertion was refused; from then on it numbers its strings differently.  *)
OldRoundTrip ==
    old_data # << >> =>
      /\ FlattenSeq([j \in DOMAIN OldCodes |-> OldString[OldCodes[j]]]) = kept
      /\ ~refused => OldDecoder[Len(OldCodes)].output = kept
=============================================================================

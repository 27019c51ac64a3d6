--------------------------- MODULE LzwOldInvariant ---------------------------
(***************************************************************************)
(* Why the first lzw_encode finds its strings again and what its codes     *)
(* stand for: the inductive invariant of LzwOld.                           *)
(***************************************************************************)
EXTENDS LzwOld

OldEntry == [key : KeyRange, value : Nat]

(* Slots and places hold nothing but what was inserted, and every entry is  *)
(* where lookup comes by.                                                   *)
Stored(table, mem, history) ==
    /\ history \subseteq OldEntry
    /\ table \in [Slot -> history \cup {Invalid}]
    /\ mem \in Seq(history)
    /\ \A e \in history :
         table[my_hash[e.key]] = e \/ \E j \in 1..Len(mem) : mem[j] = e

(* No key is inserted twice.                                                *)
KeysApart(history) == \A e, f \in history : e.key = f.key => e = f

(* s is the string of each of the first size codes: that of a single        *)
(* character has no entry but under the key of that character and a 0.      *)
OldStrings(s, history, size) ==
    /\ s \in [0..(size - 1) -> Seq(Letter)]
    /\ \A c \in 0..(size - 1) : Len(s[c]) > 0 /\ (c < Letters => s[c] = <<c>>)
    /\ \A c \in Letters..(size - 1) : \E e \in history : e.value = c
    /\ \A e \in history :
         /\ e.value < Letters => e.key = Key(e.value, 0)
         /\ e.value >= Letters =>
              /\ e.value < size /\ e.key \div Letters < e.value
              /\ s[e.value] = Append(s[e.key \div Letters], e.key % Letters)

(* The strings of the codes make up the text: that of code k stands in it   *)
(* from at[k] to at[k + 1].                                                 *)
OldCovers(s, size, codes, at, text) ==
    /\ at \in [1..(Len(codes) + 1) -> 0..Len(text)]
    /\ at[1] = 0 /\ at[Len(codes) + 1] = Len(text)
    /\ \A k \in 1..Len(codes) :
         /\ codes[k] \in 0..(size - 1) /\ at[k] < at[k + 1]
         /\ s[codes[k]] = SubSeq(text, at[k] + 1, at[k + 1])

(* As long as nothing was refused there is an entry between a code and the  *)
(* next, of the one's string and the first character of the other's.        *)
OldFollows(s, size, codes) ==
    /\ size = Letters + Len(codes) - 1
    /\ \A k \in 1..Len(codes) : codes[k] < Letters + k - 1
    /\ \A k \in 1..(Len(codes) - 1) :
         s[Letters + k - 1] = Append(s[codes[k]], s[codes[k + 1]][1])

OldParse(s, at, history, size, codes, text, complete) ==
    /\ OldStrings(s, history, size) /\ OldCovers(s, size, codes, at, text)
    /\ complete => OldFollows(s, size, codes)

(* The codes so far, of which the encoder still extends the last.           *)
OldCoding ==
    /\ old_at \in 1..(Len(old_data) + 1)
    /\ next_code >= Letters /\ next_code < Letters + old_at
    /\ Len(OldCodes) > 0
    /\ IF old_at <= Len(old_data) THEN prefix_code \in 0..(next_code - 1)
                                  ELSE prefix_code = None
    /\ \E s, at : OldParse(s, at, inserted, next_code, OldCodes, kept, ~refused)

OldInv ==
    /\ old_data \in Seq(Letter) /\ Len(old_data) <= MaxInput
    /\ output_codes \in Seq(Nat) /\ kept \in Seq(Letter)
    /\ next_code \in Nat /\ refused \in BOOLEAN
    /\ Stored(hash_table, assoc_mem, inserted) /\ KeysApart(inserted)
    /\ old_data = << >> => next_code = Letters /\ output_codes = << >> /\ ~refused
    /\ old_data # << >> => OldCoding
=============================================================================

-------------------------------- MODULE MCLzw --------------------------------
EXTENDS LzwVersions

(* Keys collide two by two or more, and in the slots of single characters.  *)
MCHash == [k \in 0..(Letters * (Letters + MaxInput) - 1) |-> (k + k \div 4) % CAPACITY]
=============================================================================

------------------------------ MODULE MCSha256 ------------------------------
(* Messages of every length from one byte below to one byte above each      *)
(* boundary (the 56 bytes that leave room for the length, the 64 of a       *)
(* block), in the first block and in the second; none of their bytes is     *)
(* near to what padding is made of.  Two of the messages and the empty one  *)
(* have published digests.                                                  *)
EXTENDS Sha256Transform, TLC

Numbered(l) == [k \in 1..l |-> ((7 * k + 3) % 127) + 1]

abc == <<97, 98, 99>>
abcdbcde == [k \in 1..56 |-> 97 + (k - 1) \div 4 + ((k - 1) % 4)]

MCKnownDigests ==
    (<< >> :> <<227, 176, 196, 66, 152, 252, 28, 20, 154, 251, 244, 200, 153,
                111, 185, 36, 39, 174, 65, 228, 100, 155, 147, 76, 164, 149,
                153, 27, 120, 82, 184, 85>>) @@
    (abc :> <<186, 120, 22, 191, 143, 1, 207, 234, 65, 65, 64, 222, 93, 174,
              34, 35, 176, 3, 97, 163, 150, 23, 122, 156, 180, 16, 255, 97,
              242, 0, 21, 173>>) @@
    (abcdbcde :> <<36, 141, 106, 97, 210, 6, 56, 184, 229, 192, 38, 147, 12,
                   62, 96, 57, 163, 60, 228, 89, 100, 255, 33, 103, 246, 236,
                   237, 212, 25, 219, 6, 193>>)

MCMessage == DOMAIN MCKnownDigests
               \cup {Numbered(l) : l \in {1, 55, 56, 57, 63, 64, 65,
                                          119, 120, 121, 127, 128, 129}}
=============================================================================

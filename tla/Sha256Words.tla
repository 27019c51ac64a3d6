---------------------------- MODULE Sha256Words ----------------------------
(***************************************************************************)
(* The 32-bit words of SHA-256 and the functions on them that              *)
(* Server/sha256_hw.cpp writes as macros and the NEON instructions of      *)
(* Server/sha256.cpp have built in.  A word is a pair of 16-bit halves,    *)
(* the high one first: TLC's integers end at 2^31.                         *)
(***************************************************************************)
EXTENDS Integers, Sequences

Half == 0..65535
Word == Half \X Half

(* Bit operations on bytes, tabulated once.  A bit is named by its value.   *)
Bit(a, value) == (a \div value) % 2
XorBit(a, b, value) == value * ((Bit(a, value) + Bit(b, value)) % 2)
AndBit(a, b, value) == value * (Bit(a, value) * Bit(b, value))

ByteXor == [a \in 0..255 |-> [b \in 0..255 |->
    XorBit(a, b, 128) + XorBit(a, b, 64) + XorBit(a, b, 32) + XorBit(a, b, 16)
      + XorBit(a, b, 8) + XorBit(a, b, 4) + XorBit(a, b, 2) + XorBit(a, b, 1)]]
ByteAnd == [a \in 0..255 |-> [b \in 0..255 |->
    AndBit(a, b, 128) + AndBit(a, b, 64) + AndBit(a, b, 32) + AndBit(a, b, 16)
      + AndBit(a, b, 8) + AndBit(a, b, 4) + AndBit(a, b, 2) + AndBit(a, b, 1)]]

HalfBy(table, a, b) ==
    256 * table[a \div 256][b \div 256] + table[a % 256][b % 256]

XorWord(x, y) == <<HalfBy(ByteXor, x[1], y[1]), HalfBy(ByteXor, x[2], y[2])>>
AndWord(x, y) == <<HalfBy(ByteAnd, x[1], y[1]), HalfBy(ByteAnd, x[2], y[2])>>
Complement(x) == <<65535 - x[1], 65535 - x[2]>>

XorWords(x, y, z) == XorWord(XorWord(x, y), z)

(* Addition of unsigned ints, modulo 2^32.                                  *)
Add(x, y) ==
    LET low == x[2] + y[2]
    IN  <<(x[1] + y[1] + low \div 65536) % 65536, low % 65536>>

Add3(x, y, z) == Add(Add(x, y), z)
Add4(w, x, y, z) == Add(Add(w, x), Add(y, z))

(* Logical shift to the right by n < 16 bits, the bits of "above" moving in.*)
ShiftIn(above, half, n) == half \div 2^n + (above % 2^n) * 2^(16 - n)

ShiftRight(x, n) == <<x[1] \div 2^n, ShiftIn(x[1], x[2], n)>>

ROTRIGHT(x, n) ==
    IF n < 16
    THEN <<ShiftIn(x[2], x[1], n), ShiftIn(x[1], x[2], n)>>
    ELSE <<ShiftIn(x[1], x[2], n - 16), ShiftIn(x[2], x[1], n - 16)>>

CH(x, y, z)  == XorWord(AndWord(x, y), AndWord(Complement(x), z))
MAJ(x, y, z) == XorWords(AndWord(x, y), AndWord(x, z), AndWord(y, z))
EP0(x)  == XorWords(ROTRIGHT(x, 2), ROTRIGHT(x, 13), ROTRIGHT(x, 22))
EP1(x)  == XorWords(ROTRIGHT(x, 6), ROTRIGHT(x, 11), ROTRIGHT(x, 25))
SIG0(x) == XorWords(ROTRIGHT(x, 7), ROTRIGHT(x, 18), ShiftRight(x, 3))
SIG1(x) == XorWords(ROTRIGHT(x, 17), ROTRIGHT(x, 19), ShiftRight(x, 10))

(* Mutation of BigEndian: the bytes of a word as a little-endian load       *)
(* leaves them.                                                             *)
LittleEndian(bytes, k) ==
    <<256 * bytes[k + 3] + bytes[k + 2], 256 * bytes[k + 1] + bytes[k]>>

(* The word at byte k of a block, big-endian.                               *)
BigEndian(bytes, k) ==
    <<256 * bytes[k] + bytes[k + 1], 256 * bytes[k + 2] + bytes[k + 3]>>

(* Words in order as bytes, big-endian each.                                *)
DigestBytes(words) ==
    [b \in 1..(4 * Len(words)) |->
       LET w == words[(b - 1) \div 4 + 1]
           half == w[((b - 1) % 4) \div 2 + 1]
       IN  IF b % 2 = 1 THEN half \div 256 ELSE half % 256]

(* The round constants.                                                     *)
K == <<
    <<17034, 12184>>, <<28983, 17553>>, <<46528, 64463>>, <<59829, 56229>>,
    <<14678, 49755>>, <<23025, 4593>>, <<37439, 33444>>, <<43804, 24277>>,
    <<55303, 43672>>, <<4739, 23297>>, <<9265, 34238>>, <<21772, 32195>>,
    <<29374, 23924>>, <<32990, 45566>>, <<39900, 1703>>, <<49563, 61812>>,
    <<58523, 27073>>, <<61374, 18310>>, <<4033, 40390>>, <<9228, 41420>>,
    <<11753, 11375>>, <<19060, 33962>>, <<23728, 43484>>, <<30457, 35034>>,
    <<38974, 20818>>, <<43057, 50797>>, <<45059, 10184>>, <<48985, 32711>>,
    <<50912, 3059>>, <<54695, 37191>>, <<1738, 25425>>, <<5161, 10599>>,
    <<10167, 2693>>, <<11803, 8504>>, <<19756, 28156>>, <<21304, 3347>>,
    <<25866, 29524>>, <<30314, 2747>>, <<33218, 51502>>, <<37490, 11397>>,
    <<41663, 59553>>, <<43034, 26187>>, <<49739, 35696>>, <<51052, 20899>>,
    <<53650, 59417>>, <<54937, 1572>>, <<62478, 13701>>, <<4202, 41072>>,
    <<6564, 49430>>, <<7735, 27656>>, <<10056, 30540>>, <<13488, 48309>>,
    <<14620, 3251>>, <<20184, 43594>>, <<23452, 51791>>, <<26670, 28659>>,
    <<29839, 33518>>, <<30885, 25455>>, <<33992, 30740>>, <<36039, 520>>,
    <<37054, 65530>>, <<42064, 27883>>, <<48889, 41975>>, <<50801, 30962>> >>

(* The state that sha256_init sets.                                         *)
InitialState == <<
    <<27145, 58983>>, <<47975, 44677>>, <<15470, 62322>>, <<42319, 62778>>,
    <<20750, 21119>>, <<39685, 26764>>, <<8067, 55723>>, <<23520, 52505>> >>
=============================================================================

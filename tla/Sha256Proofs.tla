---------------------------- MODULE Sha256Proofs ----------------------------
(***************************************************************************)
(* What sha256.cpp computes is SHA-256, for every message and in all three *)
(* forms of the transform.                                                 *)
(***************************************************************************)
EXTENDS Sha256Transform, Induction, SequenceTheorems
-----------------------------------------------------------------------------
(* Words *)

ByteValue == 0..255

LEMMA RangeIs ==
  ASSUME NEW hi \in Nat
  PROVE  \A x : x \in 0..hi <=> x \in Nat /\ x <= hi
OBVIOUS

(* The provers are better at these bounds than at the ranges.               *)
LEMMA HalfIs == \A x : x \in Half <=> x \in Nat /\ x < 65536
<1>1. PICK hi \in Nat : hi = 65535
  OBVIOUS
<1>4. Half = 0..hi
  BY <1>1 DEF Half
<1>2. \A x : x \in Half <=> x \in Nat /\ x <= hi
  BY <1>4, RangeIs
<1>3. \A x \in Nat : x <= hi <=> x < 65536
  BY <1>1
<1> QED
  BY <1>2, <1>3

LEMMA ByteIs == \A x : x \in ByteValue <=> x \in Nat /\ x < 256
<1>1. PICK hi \in Nat : hi = 255
  OBVIOUS
<1>4. ByteValue = 0..hi
  BY <1>1 DEF ByteValue
<1>2. \A x : x \in ByteValue <=> x \in Nat /\ x <= hi
  BY <1>4, RangeIs
<1>3. \A x \in Nat : x <= hi <=> x < 256
  BY <1>1
<1> QED
  BY <1>2, <1>3

LEMMA WordIs ==
  /\ \A x \in Word : x[1] \in Half /\ x[2] \in Half /\ x = <<x[1], x[2]>>
  /\ \A h \in Half, l \in Half : <<h, l>> \in Word
BY DEF Word

LEMMA HalfBytes ==
  ASSUME NEW h \in Half
  PROVE  h \div 256 \in ByteValue /\ h % 256 \in ByteValue
<1>1. h \in Nat /\ h < 65536
  BY HalfIs
<1>2. /\ h \div 256 \in Nat /\ h \div 256 < 256
      /\ h % 256 \in Nat /\ h % 256 < 256
  BY <1>1
<1> QED
  BY <1>2, ByteIs

LEMMA BytesHalf ==
  ASSUME NEW x \in ByteValue, NEW y \in ByteValue
  PROVE  256 * x + y \in Half
<1>1. x \in Nat /\ x < 256 /\ y \in Nat /\ y < 256
  BY ByteIs
<1>2. 256 * x + y \in Nat /\ 256 * x + y < 65536
  BY <1>1
<1> QED
  BY <1>2, HalfIs

LEMMA BitIs ==
  ASSUME NEW a \in Nat, NEW value \in Nat, value > 0
  PROVE  Bit(a, value) \in {0, 1}
<1>1. a \div value \in Nat
  BY Quotient
<1> QED
  BY <1>1 DEF Bit

(* A bit of the result is there or not.                                     *)
LEMMA BitOperations ==
  ASSUME NEW a \in Nat, NEW b \in Nat, NEW value \in Nat, value > 0
  PROVE  XorBit(a, b, value) \in {0, value} /\ AndBit(a, b, value) \in {0, value}
<1>1. Bit(a, value) \in {0, 1} /\ Bit(b, value) \in {0, 1}
  BY BitIs
<1>2. /\ (Bit(a, value) + Bit(b, value)) % 2 \in {0, 1}
      /\ Bit(a, value) * Bit(b, value) \in {0, 1}
  BY <1>1
<1>3. \A v \in {0, 1} : value * v \in {0, value}
  OBVIOUS
<1> QED
  BY <1>2, <1>3 DEF XorBit, AndBit

LEMMA EightBits ==
  ASSUME NEW p \in {0, 128}, NEW q \in {0, 64}, NEW r \in {0, 32}, NEW s \in {0, 16},
         NEW t \in {0, 8}, NEW u \in {0, 4}, NEW v \in {0, 2}, NEW w \in {0, 1}
  PROVE  p + q + r + s + t + u + v + w \in ByteValue
<1>1. p + q + r + s \in Nat /\ p + q + r + s <= 240
  OBVIOUS
<1>2. t + u + v + w \in Nat /\ t + u + v + w <= 15
  OBVIOUS
<1>3. p + q + r + s + t + u + v + w = (p + q + r + s) + (t + u + v + w)
  OBVIOUS
<1>4. /\ p + q + r + s + t + u + v + w \in Nat
      /\ p + q + r + s + t + u + v + w < 256
  BY <1>1, <1>2, <1>3
<1> QED
  BY <1>4, ByteIs

LEMMA TablesIs ==
  ASSUME NEW a \in ByteValue, NEW b \in ByteValue
  PROVE  ByteXor[a][b] \in ByteValue /\ ByteAnd[a][b] \in ByteValue
<1>1. a \in Nat /\ b \in Nat
  BY ByteIs
<1>2. \A v \in {1, 2, 4, 8, 16, 32, 64, 128} :
        XorBit(a, b, v) \in {0, v} /\ AndBit(a, b, v) \in {0, v}
  BY <1>1, BitOperations
<1>3. ByteXor[a][b] =
        XorBit(a, b, 128) + XorBit(a, b, 64) + XorBit(a, b, 32) + XorBit(a, b, 16)
          + XorBit(a, b, 8) + XorBit(a, b, 4) + XorBit(a, b, 2) + XorBit(a, b, 1)
  BY DEF ByteXor, ByteValue
<1>4. ByteAnd[a][b] =
        AndBit(a, b, 128) + AndBit(a, b, 64) + AndBit(a, b, 32) + AndBit(a, b, 16)
          + AndBit(a, b, 8) + AndBit(a, b, 4) + AndBit(a, b, 2) + AndBit(a, b, 1)
  BY DEF ByteAnd, ByteValue
<1>5. ByteXor[a][b] \in ByteValue
  BY <1>2, <1>3, EightBits
<1>6. ByteAnd[a][b] \in ByteValue
  BY <1>2, <1>4, EightBits
<1> QED
  BY <1>5, <1>6

LEMMA HalfByIs ==
  ASSUME NEW table, NEW a \in Half, NEW b \in Half,
         \A x \in ByteValue, y \in ByteValue : table[x][y] \in ByteValue
  PROVE  HalfBy(table, a, b) \in Half
<1>1. /\ table[a \div 256][b \div 256] \in ByteValue
      /\ table[a % 256][b % 256] \in ByteValue
  BY HalfBytes
<1> QED
  BY <1>1, BytesHalf DEF HalfBy

LEMMA XorAndIs ==
  ASSUME NEW x \in Word, NEW y \in Word
  PROVE  XorWord(x, y) \in Word /\ AndWord(x, y) \in Word
<1>1. x[1] \in Half /\ x[2] \in Half /\ y[1] \in Half /\ y[2] \in Half
  BY WordIs
<1>2. /\ \A a \in ByteValue, b \in ByteValue : ByteXor[a][b] \in ByteValue
      /\ \A a \in ByteValue, b \in ByteValue : ByteAnd[a][b] \in ByteValue
  BY TablesIs
<1>3. HalfBy(ByteXor, x[1], y[1]) \in Half /\ HalfBy(ByteXor, x[2], y[2]) \in Half
  BY <1>1, <1>2, HalfByIs
<1>4. HalfBy(ByteAnd, x[1], y[1]) \in Half /\ HalfBy(ByteAnd, x[2], y[2]) \in Half
  BY <1>1, <1>2, HalfByIs
<1> QED
  BY <1>3, <1>4, WordIs DEF XorWord, AndWord

LEMMA ComplementIs ==
  ASSUME NEW x \in Word
  PROVE  Complement(x) \in Word
<1>1. /\ x[1] \in Nat /\ x[1] < 65536 /\ x[2] \in Nat /\ x[2] < 65536
  BY WordIs, HalfIs
<1>2. /\ 65535 - x[1] \in Nat /\ 65535 - x[1] < 65536
      /\ 65535 - x[2] \in Nat /\ 65535 - x[2] < 65536
  BY <1>1
<1>3. 65535 - x[1] \in Half /\ 65535 - x[2] \in Half
  BY <1>2, HalfIs
<1> QED
  BY <1>3, WordIs DEF Complement

(* Two halves shifted by the same distance make a half.                     *)
LEMMA ShiftedBy ==
  ASSUME NEW p \in Nat, NEW q \in Nat, p > 0, q > 0, p * q = 65536,
         NEW a \in Half, NEW b \in Half
  PROVE  b \div p + (a % p) * q \in Half
<1> DEFINE u == b \div p
           r == b % p
           v == a % p
<1>1. a \in Nat /\ b \in Nat /\ b < p * q
  BY HalfIs
<1>2. u \in Nat /\ r \in Nat /\ v \in Nat /\ v < p /\ b = p * u + r
  BY <1>1, Quotient
<1> HIDE DEF u, v, r
<1>3. u < q
  <2> SUFFICES ASSUME u >= q PROVE FALSE
    BY <1>2
  <2>1. p * u >= p * q
    BY <1>2
  <2> QED
    BY <1>1, <1>2, <2>1
<1>4. v * q \in Nat /\ v * q + q <= p * q
  <2>1. v + 1 <= p
    BY <1>2
  <2>2. (v + 1) * q <= p * q
    BY <1>2, <2>1
  <2>3. (v + 1) * q = v * q + q
    BY <1>2
  <2> QED
    BY <1>2, <2>2, <2>3
<1>6. PICK m \in Nat : m = v * q
  BY <1>4
<1>7. u + m \in Nat /\ u + m < 65536
  BY <1>2, <1>3, <1>4, <1>6
<1>8. u + v * q \in Half
  BY <1>6, <1>7, HalfIs
<1> QED
  BY <1>8 DEF u, v
(* The distances that occur.                                                *)
LEMMA ShiftInIs ==
  ASSUME NEW d \in {1, 2, 3, 6, 7, 9, 10, 11, 13}, NEW a \in Half, NEW b \in Half
  PROVE  ShiftIn(a, b, d) \in Half
<1>3. \A p \in Nat, q \in Nat : p > 0 /\ q > 0 /\ p * q = 65536 => b \div p + (a % p) * q \in Half
  BY ShiftedBy
<1>4. CASE d = 1
  <2>1. 2^d = 2 /\ 2^(16 - d) = 32768
    BY <1>4, SMT
  <2>2. b \div 2 + (a % 2) * 32768 \in Half
    BY <1>3, SMT
  <2> QED
    BY <2>1, <2>2 DEF ShiftIn
<1>5. CASE d = 2
  <2>1. 2^d = 4 /\ 2^(16 - d) = 16384
    BY <1>5, SMT
  <2>2. b \div 4 + (a % 4) * 16384 \in Half
    BY <1>3, SMT
  <2> QED
    BY <2>1, <2>2 DEF ShiftIn
<1>6. CASE d = 3
  <2>1. 2^d = 8 /\ 2^(16 - d) = 8192
    BY <1>6, SMT
  <2>2. b \div 8 + (a % 8) * 8192 \in Half
    BY <1>3, SMT
  <2> QED
    BY <2>1, <2>2 DEF ShiftIn
<1>7. CASE d = 6
  <2>1. 2^d = 64 /\ 2^(16 - d) = 1024
    BY <1>7, SMT
  <2>2. b \div 64 + (a % 64) * 1024 \in Half
    BY <1>3, SMT
  <2> QED
    BY <2>1, <2>2 DEF ShiftIn
<1>8. CASE d = 7
  <2>1. 2^d = 128 /\ 2^(16 - d) = 512
    BY <1>8, SMT
  <2>2. b \div 128 + (a % 128) * 512 \in Half
    BY <1>3, SMT
  <2> QED
    BY <2>1, <2>2 DEF ShiftIn
<1>9. CASE d = 9
  <2>1. 2^d = 512 /\ 2^(16 - d) = 128
    BY <1>9, SMT
  <2>2. b \div 512 + (a % 512) * 128 \in Half
    BY <1>3, SMT
  <2> QED
    BY <2>1, <2>2 DEF ShiftIn
<1>10. CASE d = 10
  <2>1. 2^d = 1024 /\ 2^(16 - d) = 64
    BY <1>10, SMT
  <2>2. b \div 1024 + (a % 1024) * 64 \in Half
    BY <1>3, SMT
  <2> QED
    BY <2>1, <2>2 DEF ShiftIn
<1>11. CASE d = 11
  <2>1. 2^d = 2048 /\ 2^(16 - d) = 32
    BY <1>11, SMT
  <2>2. b \div 2048 + (a % 2048) * 32 \in Half
    BY <1>3, SMT
  <2> QED
    BY <2>1, <2>2 DEF ShiftIn
<1>12. CASE d = 13
  <2>1. 2^d = 8192 /\ 2^(16 - d) = 8
    BY <1>12, SMT
  <2>2. b \div 8192 + (a % 8192) * 8 \in Half
    BY <1>3, SMT
  <2> QED
    BY <2>1, <2>2 DEF ShiftIn
<1> QED
  BY <1>4, <1>5, <1>6, <1>7, <1>8, <1>9, <1>10, <1>11, <1>12

LEMMA RotateIs ==
  ASSUME NEW x \in Word, NEW d \in {2, 6, 7, 11, 13, 17, 18, 19, 22, 25}
  PROVE  ROTRIGHT(x, d) \in Word
<1>1. x[1] \in Half /\ x[2] \in Half
  BY WordIs
<1>2. CASE d < 16
  <2>1. d \in {1, 2, 3, 6, 7, 9, 10, 11, 13}
    BY <1>2
  <2>2. ShiftIn(x[2], x[1], d) \in Half /\ ShiftIn(x[1], x[2], d) \in Half
    BY <1>1, <2>1, ShiftInIs
  <2> QED
    BY <1>2, <2>2, WordIs DEF ROTRIGHT
<1>3. CASE ~(d < 16)
  <2>1. d - 16 \in {1, 2, 3, 6, 7, 9, 10, 11, 13}
    BY <1>3
  <2>2. ShiftIn(x[2], x[1], d - 16) \in Half /\ ShiftIn(x[1], x[2], d - 16) \in Half
    BY <1>1, <2>1, ShiftInIs
  <2> QED
    BY <1>3, <2>2, WordIs DEF ROTRIGHT
<1> QED
  BY <1>2, <1>3

LEMMA ShiftRightIs ==
  ASSUME NEW x \in Word, NEW d \in {3, 10}
  PROVE  ShiftRight(x, d) \in Word
<1>1. x[1] \in Half /\ x[2] \in Half /\ x[1] \in Nat /\ x[1] < 65536
  BY WordIs, HalfIs
<1>2. 2^3 = 8 /\ 2^10 = 1024
  BY SMT
<1>3. x[1] \div 2^d \in Nat /\ x[1] \div 2^d < 65536
  <2>1. CASE d = 3
    BY <1>1, <1>2, <2>1
  <2>2. CASE d = 10
    BY <1>1, <1>2, <2>2
  <2> QED
    BY <2>1, <2>2
<1>4. x[1] \div 2^d \in Half
  BY <1>3, HalfIs
<1>5. ShiftIn(x[1], x[2], d) \in Half
  BY <1>1, ShiftInIs
<1> QED
  BY <1>4, <1>5, WordIs DEF ShiftRight

(* What the rounds and the schedule make of words are words.                *)
LEMMA SigmasAre ==
  ASSUME NEW x \in Word
  PROVE  EP0(x) \in Word /\ EP1(x) \in Word /\ SIG0(x) \in Word /\ SIG1(x) \in Word
<1>1. \A a \in Word, b \in Word, c \in Word : XorWords(a, b, c) \in Word
  BY XorAndIs DEF XorWords
<1>2. /\ \A d \in {2, 6, 7, 11, 13, 17, 18, 19, 22, 25} : ROTRIGHT(x, d) \in Word
      /\ \A d \in {3, 10} : ShiftRight(x, d) \in Word
  BY RotateIs, ShiftRightIs
<1> QED
  BY <1>1, <1>2 DEF EP0, EP1, SIG0, SIG1

LEMMA ChoicesAre ==
  ASSUME NEW x \in Word, NEW y \in Word, NEW z \in Word
  PROVE  CH(x, y, z) \in Word /\ MAJ(x, y, z) \in Word
<1>1. /\ AndWord(x, y) \in Word /\ AndWord(x, z) \in Word /\ AndWord(y, z) \in Word
      /\ AndWord(Complement(x), z) \in Word
  BY XorAndIs, ComplementIs
<1> QED
  BY <1>1, XorAndIs DEF CH, MAJ, XorWords

LEMMA BigEndianIs ==
  ASSUME NEW bytes, NEW k \in Nat, bytes[k] \in ByteValue, bytes[k + 1] \in ByteValue,
         bytes[k + 2] \in ByteValue, bytes[k + 3] \in ByteValue
  PROVE  BigEndian(bytes, k) \in Word
<1>1. 256 * bytes[k] + bytes[k + 1] \in Half /\ 256 * bytes[k + 2] + bytes[k + 3] \in Half
  BY BytesHalf
<1> QED
  BY <1>1, WordIs DEF BigEndian
-----------------------------------------------------------------------------
(* Addition.  A word is the number that it stands for, and what is added    *)
(* is these numbers, up to multiples of 2^32.                               *)
NumberOf(x) == 65536 * x[1] + x[2]
Modulus == 65536 * 65536

LEMMA NumberIs ==
  ASSUME NEW x \in Word
  PROVE  NumberOf(x) \in Nat /\ NumberOf(x) < Modulus
<1>1. x[1] \in Nat /\ x[1] < 65536 /\ x[2] \in Nat /\ x[2] < 65536
  BY WordIs, HalfIs
<1> QED
  BY <1>1, SMT DEF NumberOf, Modulus

LEMMA SameNumber ==
  ASSUME NEW x \in Word, NEW y \in Word, NumberOf(x) = NumberOf(y)
  PROVE  x = y
<1>1. /\ x[1] \in Nat /\ x[1] < 65536 /\ x[2] \in Nat /\ x[2] < 65536
      /\ y[1] \in Nat /\ y[1] < 65536 /\ y[2] \in Nat /\ y[2] < 65536
  BY WordIs, HalfIs
<1>2. 65536 * x[1] + x[2] = 65536 * y[1] + y[2]
  BY DEF NumberOf
<1>5. PICK a \in Nat, b \in Nat, c \in Nat, d \in Nat :
        a = x[1] /\ b = x[2] /\ c = y[1] /\ d = y[2]
  BY <1>1
<1>6. /\ a < 65536 /\ b < 65536 /\ c < 65536 /\ d < 65536
      /\ 65536 * a + b = 65536 * c + d
  BY <1>1, <1>2, <1>5, SMT
<1>7. a = c /\ b = d
  BY <1>6, SMT
<1>4. x[1] = y[1] /\ x[2] = y[2]
  BY <1>5, <1>7
<1> QED
  BY <1>4, WordIs

LEMMA AddIs ==
  ASSUME NEW x \in Word, NEW y \in Word
  PROVE  /\ Add(x, y) \in Word
         /\ \E carry \in Nat :
              NumberOf(x) + NumberOf(y) = NumberOf(Add(x, y)) + Modulus * carry
<1>1. /\ x[1] \in Nat /\ x[1] < 65536 /\ x[2] \in Nat /\ x[2] < 65536
      /\ y[1] \in Nat /\ y[1] < 65536 /\ y[2] \in Nat /\ y[2] < 65536
  BY WordIs, HalfIs
<1> DEFINE low == x[2] + y[2]
           over == low \div 65536
           high == x[1] + y[1] + over
           c == high \div 65536
           l == low % 65536
           h == high % 65536
<1>2. low \in Nat /\ over \in Nat /\ l \in Nat /\ l < 65536 /\ low = 65536 * over + l
  <2>1. low \in Nat
    BY <1>1
  <2> HIDE DEF low
  <2> QED
    BY <2>1, Quotient
<1>3. high \in Nat /\ c \in Nat /\ h \in Nat /\ h < 65536 /\ high = 65536 * c + h
  <2>1. high \in Nat
    BY <1>1, <1>2
  <2> HIDE DEF high
  <2> QED
    BY <2>1, Quotient
<1>4. Add(x, y) = <<h, l>>
  BY DEF Add
<1>5. low = x[2] + y[2] /\ high = x[1] + y[1] + over
  OBVIOUS
<1> HIDE DEF low, over, high, c, l, h
<1>6. Add(x, y) \in Word
  BY <1>2, <1>3, <1>4, WordIs, HalfIs
<1>7. NumberOf(Add(x, y)) = 65536 * h + l
  BY <1>4 DEF NumberOf
<1>8. NumberOf(x) + NumberOf(y) = NumberOf(Add(x, y)) + Modulus * c
  <2>1. PICK x1 \in Nat, x2 \in Nat, y1 \in Nat, y2 \in Nat :
          x1 = x[1] /\ x2 = x[2] /\ y1 = y[1] /\ y2 = y[2]
    BY <1>1
  <2>2. x2 + y2 = 65536 * over + l /\ x1 + y1 + over = 65536 * c + h
    <3>1. x2 + y2 = low /\ x1 + y1 + over = high
      BY <1>5, <2>1
    <3> QED
      BY <1>2, <1>3, <3>1
  <2>3. 65536 * x1 + x2 + (65536 * y1 + y2) = 65536 * h + l + Modulus * c
    BY <1>2, <1>3, <2>2, SMT DEF Modulus
  <2> QED
    BY <1>7, <2>1, <2>3 DEF NumberOf
<1> QED
  BY <1>3, <1>6, <1>8

LEMMA AddCommutes ==
  ASSUME NEW x \in Word, NEW y \in Word
  PROVE  Add(x, y) = Add(y, x)
<1>1. /\ x[1] \in Nat /\ x[2] \in Nat /\ y[1] \in Nat /\ y[2] \in Nat
  BY WordIs, HalfIs
<1>2. x[1] + y[1] = y[1] + x[1] /\ x[2] + y[2] = y[2] + x[2]
  BY <1>1
<1> QED
  BY <1>2 DEF Add

LEMMA AddAssociates ==
  ASSUME NEW x \in Word, NEW y \in Word, NEW z \in Word
  PROVE  Add(Add(x, y), z) = Add(x, Add(y, z))
<1> DEFINE a == Add(x, y)
           b == Add(y, z)
           p == Add(a, z)
           q == Add(x, b)
<1>1. a \in Word /\ b \in Word
  BY AddIs
<1>2. p \in Word /\ q \in Word
  BY <1>1, AddIs
<1>3. PICK c1 \in Nat : NumberOf(x) + NumberOf(y) = NumberOf(a) + Modulus * c1
  BY AddIs
<1>4. PICK c2 \in Nat : NumberOf(a) + NumberOf(z) = NumberOf(p) + Modulus * c2
  <2> HIDE DEF a
  <2> QED
    BY <1>1, AddIs
<1>5. PICK c3 \in Nat : NumberOf(y) + NumberOf(z) = NumberOf(b) + Modulus * c3
  BY AddIs
<1>6. PICK c4 \in Nat : NumberOf(x) + NumberOf(b) = NumberOf(q) + Modulus * c4
  <2> HIDE DEF b
  <2> QED
    BY <1>1, AddIs
<1> HIDE DEF a, b, p, q
<1>7. /\ \A w \in {x, y, z, a, b, p, q} : NumberOf(w) \in Nat
      /\ NumberOf(p) < Modulus /\ NumberOf(q) < Modulus
  BY <1>1, <1>2, NumberIs
<1>8. PICK X \in Nat, Y \in Nat, Z \in Nat, A \in Nat, B \in Nat, P \in Nat, Q \in Nat :
        /\ X = NumberOf(x) /\ Y = NumberOf(y) /\ Z = NumberOf(z)
        /\ A = NumberOf(a) /\ B = NumberOf(b) /\ P = NumberOf(p) /\ Q = NumberOf(q)
  BY <1>7
<1>9. NumberOf(p) = NumberOf(q)
  <2>1. P < Modulus /\ Q < Modulus
    BY <1>7, <1>8
  <2>2. /\ X + Y = A + Modulus * c1 /\ A + Z = P + Modulus * c2
        /\ Y + Z = B + Modulus * c3 /\ X + B = Q + Modulus * c4
    BY <1>3, <1>4, <1>5, <1>6, <1>8
  <2>3. P = Q
    BY <2>1, <2>2, SMT DEF Modulus
  <2> QED
    BY <1>8, <2>3
<1>10. p = q
  BY <1>2, <1>9, SameNumber
<1> QED
  BY <1>10 DEF p, q, a, b

LEMMA ConstantsAre ==
  /\ \A t \in 1..64 : K[t] \in Word
  /\ \A j \in 1..8 : InitialState[j] \in Word
<1>1. \A j \in 1..8 : InitialState[j] \in Word
  BY HalfIs, WordIs, SMT DEF InitialState
<1>2. K[1] \in Word /\ K[2] \in Word /\ K[3] \in Word /\ K[4] \in Word
  BY HalfIs, WordIs, SMT DEF K
<1>3. K[5] \in Word /\ K[6] \in Word /\ K[7] \in Word /\ K[8] \in Word
  BY HalfIs, WordIs, SMT DEF K
<1>4. K[9] \in Word /\ K[10] \in Word /\ K[11] \in Word /\ K[12] \in Word
  BY HalfIs, WordIs, SMT DEF K
<1>5. K[13] \in Word /\ K[14] \in Word /\ K[15] \in Word /\ K[16] \in Word
  BY HalfIs, WordIs, SMT DEF K
<1>6. K[17] \in Word /\ K[18] \in Word /\ K[19] \in Word /\ K[20] \in Word
  BY HalfIs, WordIs, SMT DEF K
<1>7. K[21] \in Word /\ K[22] \in Word /\ K[23] \in Word /\ K[24] \in Word
  BY HalfIs, WordIs, SMT DEF K
<1>8. K[25] \in Word /\ K[26] \in Word /\ K[27] \in Word /\ K[28] \in Word
  BY HalfIs, WordIs, SMT DEF K
<1>9. K[29] \in Word /\ K[30] \in Word /\ K[31] \in Word /\ K[32] \in Word
  BY HalfIs, WordIs, SMT DEF K
<1>10. K[33] \in Word /\ K[34] \in Word /\ K[35] \in Word /\ K[36] \in Word
  BY HalfIs, WordIs, SMT DEF K
<1>11. K[37] \in Word /\ K[38] \in Word /\ K[39] \in Word /\ K[40] \in Word
  BY HalfIs, WordIs, SMT DEF K
<1>12. K[41] \in Word /\ K[42] \in Word /\ K[43] \in Word /\ K[44] \in Word
  BY HalfIs, WordIs, SMT DEF K
<1>13. K[45] \in Word /\ K[46] \in Word /\ K[47] \in Word /\ K[48] \in Word
  BY HalfIs, WordIs, SMT DEF K
<1>14. K[49] \in Word /\ K[50] \in Word /\ K[51] \in Word /\ K[52] \in Word
  BY HalfIs, WordIs, SMT DEF K
<1>15. K[53] \in Word /\ K[54] \in Word /\ K[55] \in Word /\ K[56] \in Word
  BY HalfIs, WordIs, SMT DEF K
<1>16. K[57] \in Word /\ K[58] \in Word /\ K[59] \in Word /\ K[60] \in Word
  BY HalfIs, WordIs, SMT DEF K
<1>17. K[61] \in Word /\ K[62] \in Word /\ K[63] \in Word /\ K[64] \in Word
  BY HalfIs, WordIs, SMT DEF K
<1> QED
  BY <1>1, <1>2, <1>3, <1>4, <1>5, <1>6, <1>7, <1>8, <1>9, <1>10, <1>11, <1>12, <1>13, <1>14, <1>15, <1>16, <1>17
-----------------------------------------------------------------------------
(* SHA-256 as FIPS 180-4 defines it (sections 5 and 6.2): the blocks of the *)
(* padded message, the 64 words that a block is stretched to, the 64 rounds *)
(* and the chain through the blocks.                                        *)
Blocks(m) == Len(Padding(m)) \div BlockSize

Block(m, b) == [k \in 1..BlockSize |-> Padding(m)[BlockSize * (b - 1) + k]]

Loaded(block, t) == BigEndian(block, 4 * t + 1)
Stretched(w, t)  == Add4(SIG1(w[t - 2]), w[t - 7], SIG0(w[t - 15]), w[t - 16])

Schedule(block) ==
    LET w[t \in 0..63] == IF t < 16 THEN Loaded(block, t) ELSE Stretched(w, t)
    IN  w

Rounds(s, w) ==
    LET r[t \in 0..64] ==
          IF t = 0 THEN s ELSE ScalarRound(r[t - 1], K[t], w[t - 1])
    IN  r

Compression(s, block) == AddEach(Rounds(s, Schedule(block))[64], s)

Chain(m) ==
    LET h[b \in 0..Blocks(m)] ==
          IF b = 0 THEN InitialState ELSE Compression(h[b - 1], Block(m, b))
    IN  h

SHA256(m) == DigestBytes(Chain(m)[Blocks(m)])
-----------------------------------------------------------------------------
(* The inductive invariant *)

Count == Len(transformed)

(* Where the caller of sha256_transform is.                                 *)
Caller == IF stage = "transform" THEN after ELSE stage

(* The first l bytes of the buffer are those of the next block.             *)
Buffered(l) == \A k \in 1..l : data[k] = Padding(message)[BlockSize * Count + k]

StageIs ==
    /\ message \in Message
    /\ stage \in {"update", "final", "clear", "length", "digest", "done", "transform"}
    /\ stage = "transform" =>
         /\ after \in {"update", "clear", "digest"}
         /\ Count > 0 /\ data = transformed[Count]

(* The blocks so far are those of the padded message.                       *)
BlocksSoFar ==
    /\ data = [k \in 1..BlockSize |-> data[k]]
    /\ Count \in 0..Blocks(message)
    /\ transformed = [b \in 1..Count |-> Block(message, b)]

(* The counters tell how much of the message is in them and in the buffer.  *)
Counted ==
    /\ i \in 0..Len(message) /\ datalen \in 0..(BlockSize - 1)
    /\ Caller # "update" => i = Len(message)
    /\ Caller \in {"update", "final", "clear", "length"} => bitlen = 8 * (i - datalen)

(* Of the padding, the stages leave what the later ones add.                *)
Remaining ==
    /\ Caller \in {"update", "final"} => BlockSize * Count + datalen = i /\ Buffered(datalen)
    /\ Caller = "clear" => datalen >= Room /\ BlockSize * (Count - 1) + datalen = i
    /\ Caller = "length" => BlockSize * (Count + 1) = Len(Padding(message)) /\ Buffered(Room)
    /\ Caller \in {"digest", "done"} => Count = Blocks(message)

PaddedSoFar == BlocksSoFar /\ Counted /\ Remaining

(* The state is that after the blocks that have been compressed.            *)
ChainedSoFar ==
    state = Chain(message)[IF stage = "transform" THEN Count - 1 ELSE Count]

WordsOf == Schedule(Block(message, Count))
RoundsOf == Rounds(state, WordsOf)

(* Four words of the schedule as the NEON code has them in a vector, and    *)
(* the state after round t in two.                                          *)
Vector(w, q) == << w[4 * q], w[4 * q + 1], w[4 * q + 2], w[4 * q + 3] >>
Halves(s) == << <<s[1], s[2], s[3], s[4]>>, <<s[5], s[6], s[7], s[8]>> >>

NeonSoFar ==
    /\ Len(sched) \in 0..16
    /\ sched = [q \in 1..Len(sched) |-> Vector(WordsOf, q - 1)]
    /\ n \in 0..16
    /\ n > 0 => Len(sched) = 16 /\ cur = Halves(RoundsOf[4 * n])

(* Of the schedule, the last four vectors are there, each in its place.     *)
RolledSoFar ==
    /\ n \in 0..16
    /\ sched = [q \in 1..(IF n < 4 THEN n ELSE 4) |-> sched[q]]
    /\ \A q \in 0..(n - 1) : q + 4 >= n => sched[(q % 4) + 1] = Vector(WordsOf, q)
    /\ n > 0 => cur = Halves(RoundsOf[4 * n])

ScalarSoFar ==
    /\ Len(sched) \in 0..64
    /\ sched = [t \in 1..Len(sched) |-> WordsOf[t - 1]]
    /\ n \in 0..64
    /\ n > 0 => Len(sched) = 64 /\ cur = RoundsOf[n]

CompressedSoFar ==
    /\ method \in {"neon", "rolled", "scalar"}
    /\ stage # "transform" => n = 0 /\ sched = << >> /\ cur = << >>
    /\ Transforming("neon") => NeonSoFar
    /\ Transforming("rolled") => RolledSoFar
    /\ Transforming("scalar") => ScalarSoFar

HashedSoFar ==
    /\ stage = "done" => hash = SHA256(message)
    /\ \A k \in 1..Len(hashes) : hashes[k] = SHA256(message)

Inv == /\ StageIs /\ PaddedSoFar /\ ChainedSoFar
       /\ CompressedSoFar /\ HashedSoFar
-----------------------------------------------------------------------------
(* Padding *)

LEMMA ByteOfIs ==
  ASSUME NEW v \in Nat, NEW e \in Nat
  PROVE  ByteOf(v, e) \in ByteValue
<1> DEFINE body(f) == [k \in 0..e |-> IF k = 0 THEN v ELSE f[k - 1] \div 256]
           step == [p \in (1..e) \X Nat |-> p[2] \div 256]
           chosen == CHOOSE f : f = body(f)
<1>1. IsStep(step, e, Nat)
  BY DEF IsStep
<1>2. PICK g : Iterates(g, e, Nat, v, step)
  BY <1>1, PrimitiveRecursion
<1>3. g = body(g)
  <2>1. /\ g \in [0..e -> Nat] /\ g[0] = v
        /\ \A k \in 1..e : g[k] = step[<<k, g[k - 1]>>]
    BY <1>2 DEF Iterates
  <2>2. \A k \in 1..e : g[k] = g[k - 1] \div 256
    <3>1. \A k \in 1..e : k - 1 \in 0..e
      OBVIOUS
    <3> QED
      BY <2>1, <3>1
  <2>3. \A k \in 0..e : g[k] = IF k = 0 THEN v ELSE g[k - 1] \div 256
    BY <2>1, <2>2
  <2> HIDE DEF step
  <2> QED
    BY <2>1, <2>3
<1>4. chosen = body(chosen)
  <2> HIDE DEF body
  <2> QED
    BY <1>3
<1>5. ByteOf(v, e) = chosen[e] % 256
  BY DEF ByteOf
<1> HIDE DEF chosen
<1>6. \A k \in 0..e : chosen[k] = IF k = 0 THEN v ELSE chosen[k - 1] \div 256
  BY <1>4
<1> HIDE DEF body
<1> DEFINE S == {k \in 0..e : chosen[k] \in Nat}
<1>7. 0 \in S
  BY <1>6
<1>8. ASSUME NEW k \in 0..(e - 1), k \in S
      PROVE  k + 1 \in S
  <2>1. k + 1 \in 0..e /\ k + 1 # 0 /\ (k + 1) - 1 = k
    OBVIOUS
  <2>2. chosen[k + 1] = chosen[k] \div 256
    BY <1>6, <2>1
  <2> QED
    BY <1>8, <2>1, <2>2
<1>9. chosen[e] \in Nat
  <2>1. 0..e \subseteq S
    <3> HIDE DEF S
    <3> QED
      BY <1>7, <1>8, InductiveInterval
  <2> QED
    BY <2>1
<1>10. chosen[e] % 256 \in Nat /\ chosen[e] % 256 < 256
  BY <1>9
<1> QED
  BY <1>5, <1>10, ByteIs

(* The bytes that padding is made of.                                       *)
Zeros(l) == (Room - 1 - l) % BlockSize

LEMMA ConstantBytes == 0 \in ByteValue /\ Pad \in ByteValue
<1>1. 0 < 256 /\ Pad \in Nat /\ Pad < 256
  BY DEF Pad
<1> QED
  BY <1>1, ByteIs

LEMMA MessageIs ==
  ASSUME NEW m \in Message
  PROVE  m \in Seq(ByteValue) /\ Len(m) \in Nat /\ m = [k \in 1..Len(m) |-> m[k]]
BY MessageAssumption DEF ByteValue

(* Byte by byte: a message of l bytes, the pad byte, z zeros, the length.   *)
PaddedAs(p, m, l, z) ==
    /\ p \in Seq(ByteValue)
    /\ Len(p) = l + 1 + z + 8
    /\ \A k \in 1..l : p[k] = m[k]
    /\ p[l + 1] = Pad
    /\ \A k \in (l + 2)..(l + 1 + z) : p[k] = 0
    /\ \A k \in 1..8 : p[l + 1 + z + k] = ByteOf(8 * l, 8 - k)

LEMMA PaddingIs ==
  ASSUME NEW m \in Message
  PROVE  PaddedAs(Padding(m), m, Len(m), Zeros(Len(m)))
<1>0. PICK l, z : l = Len(m) /\ z = Zeros(l)
  OBVIOUS
<1> DEFINE zeros == [k \in 1..z |-> 0]
           bytes == [k \in 1..8 |-> ByteOf(8 * l, 8 - k)]
<1>1. m \in Seq(ByteValue) /\ l \in Nat /\ z \in Nat
  BY <1>0, MessageIs DEF Zeros, Room, BlockSize
<1>2. Padding(m) = ((m \o <<Pad>>) \o zeros) \o bytes
  BY <1>0 DEF Padding, Zeros
<1>3. <<Pad>> \in Seq(ByteValue) /\ Len(<<Pad>>) = 1 /\ <<Pad>>[1] = Pad
  BY ConstantBytes
<1>4. zeros \in Seq(ByteValue) /\ Len(zeros) = z /\ \A k \in 1..z : zeros[k] = 0
  <2>1. \A k \in 1..z : 0 \in ByteValue
    BY ConstantBytes
  <2> QED
    BY <1>1, <2>1
<1>5. bytes \in Seq(ByteValue) /\ Len(bytes) = 8 /\ \A k \in 1..8 : bytes[k] = ByteOf(8 * l, 8 - k)
  <2>1. \A k \in 1..8 : ByteOf(8 * l, 8 - k) \in ByteValue
    BY <1>1, ByteOfIs
  <2> QED
    BY <2>1
<1> HIDE DEF zeros, bytes
<1> DEFINE a == m \o <<Pad>>
           b == a \o zeros
<1>6. /\ a \in Seq(ByteValue) /\ Len(a) = l + 1
      /\ \A k \in 1..l : a[k] = m[k]
      /\ a[l + 1] = Pad
  BY <1>0, <1>1, <1>3
<1> HIDE DEF a
<1>7. /\ b \in Seq(ByteValue) /\ Len(b) = l + 1 + z
      /\ \A k \in 1..(l + 1) : b[k] = a[k]
      /\ \A k \in (l + 2)..(l + 1 + z) : b[k] = 0
  <2>1. b \in Seq(ByteValue) /\ Len(b) = l + 1 + z
    BY <1>1, <1>4, <1>6
  <2>2. \A k \in 1..(l + 1) : b[k] = a[k]
    BY <1>1, <1>4, <1>6
  <2>3. ASSUME NEW k \in (l + 2)..(l + 1 + z)
        PROVE  b[k] = 0
    <3>1. k - (l + 1) \in 1..z /\ k \in 1..(l + 1 + z) /\ k > l + 1
      BY <1>1
    <3>2. b[k] = zeros[k - (l + 1)]
      BY <1>1, <1>4, <1>6, <3>1
    <3> QED
      BY <1>4, <3>1, <3>2
  <2> HIDE DEF b
  <2> QED
    BY <2>1, <2>2, <2>3
<1> HIDE DEF b
<1>8. PICK p : p = Padding(m)
  OBVIOUS
<1>9. p = b \o bytes
  BY <1>2, <1>8 DEF a, b
<1>10. p \in Seq(ByteValue) /\ Len(p) = l + 1 + z + 8
  <2>1. p \in Seq(ByteValue) /\ Len(p) = Len(b) + Len(bytes)
    BY <1>5, <1>7, <1>9, ConcatProperties
  <2> QED
    BY <1>5, <1>7, <2>1
<1>13. \A k \in 1..(Len(b) + Len(bytes)) :
         (b \o bytes)[k] = IF k <= Len(b) THEN b[k] ELSE bytes[k - Len(b)]
  <2>1. b \in Seq(ByteValue) /\ bytes \in Seq(ByteValue)
    BY <1>5, <1>7
  <2> QED
    BY <2>1, ConcatProperties
<1>14. \A k \in 1..(l + 1 + z + 8) :
         p[k] = IF k <= l + 1 + z THEN b[k] ELSE bytes[k - (l + 1 + z)]
  <2>1. Len(b) = l + 1 + z /\ Len(bytes) = 8
    BY <1>5, <1>7
  <2> QED
    BY <1>9, <1>13, <2>1
<1>15. \A k \in 1..(l + 1 + z) : p[k] = b[k]
  <2>1. \A k \in 1..(l + 1 + z) : k \in 1..(l + 1 + z + 8) /\ k <= l + 1 + z
    BY <1>1
  <2> QED
    BY <1>14, <2>1
<1>11. ASSUME NEW k \in 1..8
       PROVE  p[l + 1 + z + k] = ByteOf(8 * l, 8 - k)
  <2>1. PICK j \in Nat : j = l + 1 + z + k
    BY <1>1
  <2>2. j \in 1..(l + 1 + z + 8) /\ ~(j <= l + 1 + z) /\ j - (l + 1 + z) = k
    <3>1. PICK e \in Nat : e = l + 1 + z
      BY <1>1
    <3>2. j = e + k
      BY <2>1, <3>1
    <3>3. j \in 1..(e + 8) /\ ~(j <= e) /\ j - e = k
      BY <3>2
    <3> QED
      BY <3>1, <3>3
  <2>3. p[j] = bytes[k]
    BY <1>14, <2>2
  <2> QED
    BY <1>5, <2>1, <2>3
<1>12. /\ \A k \in 1..l : k \in 1..(l + 1) /\ k \in 1..(l + 1 + z)
       /\ l + 1 \in 1..(l + 1) /\ l + 1 \in 1..(l + 1 + z)
       /\ \A k \in (l + 2)..(l + 1 + z) : k \in 1..(l + 1 + z)
  BY <1>1
<1> QED
  <2>1. PaddedAs(p, m, l, z)
    BY <1>6, <1>7, <1>10, <1>11, <1>12, <1>15 DEF PaddedAs
  <2> QED
    BY <1>0, <1>8, <2>1

(* How many blocks it takes: one more if the length finds room in the last. *)
LEMMA BlocksAre ==
  ASSUME NEW m \in Message, NEW c \in Nat, NEW d \in 0..(BlockSize - 1),
         Len(m) = BlockSize * c + d
  PROVE  /\ d < Room => Zeros(Len(m)) = 55 - d /\ Blocks(m) = c + 1
         /\ d >= Room => Zeros(Len(m)) = 119 - d /\ Blocks(m) = c + 2
         /\ Len(Padding(m)) = BlockSize * Blocks(m)
<1>1. PICK l \in Nat, z \in Nat : l = Len(m) /\ z = Zeros(l)
  BY MessageIs DEF Zeros, Room, BlockSize
<1>2. d \in Nat /\ d < 64 /\ l = 64 * c + d /\ z = (55 - l) % 64
  BY <1>1 DEF BlockSize, Zeros, Room
<1>3. Len(Padding(m)) = l + 1 + z + 8
  BY <1>1, PaddingIs DEF PaddedAs
<1>4. Blocks(m) = (l + 1 + z + 8) \div 64
  BY <1>3 DEF Blocks, BlockSize
<1>5. CASE d < Room
  <2>1. d < 56
    BY <1>5 DEF Room
  <2>2. z = 55 - d
    BY <1>2, <2>1
  <2>3. l + 1 + z + 8 = 64 * (c + 1) /\ (64 * (c + 1)) \div 64 = c + 1
    BY <1>2, <2>2
  <2>4. Blocks(m) = c + 1 /\ Len(Padding(m)) = 64 * Blocks(m)
    BY <1>3, <1>4, <2>3
  <2> QED
    BY <1>1, <1>2, <2>1, <2>2, <2>4 DEF Room, BlockSize
<1>6. CASE d >= Room
  <2>1. d >= 56
    BY <1>6 DEF Room
  <2>2. z = 119 - d
    BY <1>2, <2>1
  <2>3. l + 1 + z + 8 = 64 * (c + 2) /\ (64 * (c + 2)) \div 64 = c + 2
    BY <1>2, <2>2
  <2>4. Blocks(m) = c + 2 /\ Len(Padding(m)) = 64 * Blocks(m)
    BY <1>3, <1>4, <2>3
  <2> QED
    BY <1>1, <1>2, <2>1, <2>2, <2>4 DEF Room, BlockSize
<1> QED
  BY <1>2, <1>5, <1>6 DEF Room

LEMMA WholeBlocks ==
  ASSUME NEW m \in Message
  PROVE  /\ Blocks(m) \in Nat /\ Blocks(m) > 0
         /\ Len(Padding(m)) = BlockSize * Blocks(m)
         /\ Len(m) <= Len(Padding(m))
<1>1. Len(m) \in Nat
  BY MessageIs
<1>2. PICK c \in Nat, d \in 0..(BlockSize - 1) : Len(m) = BlockSize * c + d
  <2>1. PICK l \in Nat : l = Len(m)
    BY <1>1
  <2>2. /\ l \div 64 \in Nat /\ l % 64 \in Nat /\ l % 64 < 64
        /\ l = 64 * (l \div 64) + (l % 64)
    BY Quotient
  <2> QED
    BY <2>1, <2>2 DEF BlockSize
<1>3. d \in Nat
  BY DEF BlockSize
<1>4. Blocks(m) = c + 1 \/ Blocks(m) = c + 2
  BY <1>2, <1>3, BlocksAre DEF Room
<1>5. Len(Padding(m)) = BlockSize * Blocks(m)
  BY <1>2, BlocksAre
<1>6. Len(m) <= 64 * (c + 1)
  BY <1>2 DEF BlockSize
<1>7. Len(m) <= 64 * Blocks(m)
  <2>1. PICK l \in Nat : l = Len(m)
    BY <1>1
  <2> QED
    BY <1>4, <1>6, <2>1
<1> QED
  BY <1>4, <1>5, <1>7 DEF BlockSize

LEMMA BlockIs ==
  ASSUME NEW m \in Message, NEW b \in 1..Blocks(m)
  PROVE  /\ Block(m, b) \in [1..BlockSize -> ByteValue]
         /\ \A k \in 1..BlockSize : Block(m, b)[k] = Padding(m)[BlockSize * (b - 1) + k]
<1>1. Padding(m) \in Seq(ByteValue)
  BY PaddingIs DEF PaddedAs
<1>2. Len(Padding(m)) = BlockSize * Blocks(m) /\ Blocks(m) \in Nat
  BY WholeBlocks
<1>3. ASSUME NEW k \in 1..BlockSize
      PROVE  Padding(m)[BlockSize * (b - 1) + k] \in ByteValue
  <2>1. BlockSize * (b - 1) + k \in 1..Len(Padding(m))
    <3>1. PICK w \in Nat : w = Blocks(m)
      BY <1>2
    <3>2. 64 * (b - 1) + k \in 1..(64 * w)
      BY <3>1 DEF BlockSize
    <3> QED
      BY <1>2, <3>1, <3>2 DEF BlockSize
  <2> QED
    BY <1>1, <2>1
<1> QED
  BY <1>3 DEF Block
-----------------------------------------------------------------------------
(* The schedule and the rounds are what their recursions say *)

BlockOfBytes == [1..BlockSize -> ByteValue]

LEMMA LoadedIs ==
  ASSUME NEW block \in BlockOfBytes, NEW t \in 0..15
  PROVE  Loaded(block, t) \in Word
<1>1. PICK k \in 1..61 : k = 4 * t + 1
  OBVIOUS
<1>2. \A j \in 1..64 : block[j] \in ByteValue
  BY DEF BlockOfBytes, BlockSize
<1>3. k \in 1..64 /\ k + 1 \in 1..64 /\ k + 2 \in 1..64 /\ k + 3 \in 1..64 /\ k \in Nat
  OBVIOUS
<1>4. BigEndian(block, k) \in Word
  BY <1>2, <1>3, BigEndianIs
<1> QED
  BY <1>1, <1>4 DEF Loaded

LEMMA AddsAre ==
  ASSUME NEW v \in Word, NEW x \in Word, NEW y \in Word, NEW z \in Word
  PROVE  Add3(x, y, z) \in Word /\ Add4(v, x, y, z) \in Word
BY AddIs DEF Add3, Add4

LEMMA StretchedIs ==
  ASSUME NEW w, NEW t \in 16..63, w[t - 2] \in Word, w[t - 7] \in Word,
         w[t - 15] \in Word, w[t - 16] \in Word
  PROVE  Stretched(w, t) \in Word
<1>1. SIG1(w[t - 2]) \in Word /\ SIG0(w[t - 15]) \in Word
  BY SigmasAre
<1> QED
  BY <1>1, AddsAre DEF Stretched

(* w is the schedule of the block up to word l.                             *)
Schedules(w, block, l) ==
    /\ w \in [0..63 -> Word]
    /\ \A t \in 0..l : w[t] = IF t < 16 THEN Loaded(block, t) ELSE Stretched(w, t)

LEMMA StretchedAlike ==
  ASSUME NEW v, NEW w, NEW t \in 16..63, \A s \in 0..(t - 1) : v[s] = w[s]
  PROVE  Stretched(v, t) = Stretched(w, t)
<1>1. t - 2 \in 0..(t - 1) /\ t - 7 \in 0..(t - 1) /\ t - 15 \in 0..(t - 1) /\ t - 16 \in 0..(t - 1)
  OBVIOUS
<1>2. /\ v[t - 2] = w[t - 2] /\ v[t - 7] = w[t - 7]
      /\ v[t - 15] = w[t - 15] /\ v[t - 16] = w[t - 16]
  BY <1>1
<1> QED
  BY <1>2 DEF Stretched

LEMMA ScheduleExists ==
  ASSUME NEW block \in BlockOfBytes
  PROVE  \E w : Schedules(w, block, 63)
<1> DEFINE T == {l \in 0..48 : \E w : Schedules(w, block, 15 + l)}
<1>1. 0 \in T
  <2> DEFINE w == [t \in 0..63 |-> IF t < 16 THEN Loaded(block, t) ELSE Loaded(block, 0)]
  <2>1. \A t \in 0..63 : w[t] \in Word
    BY LoadedIs
  <2>2. Schedules(w, block, 15)
    BY <2>1 DEF Schedules
  <2> HIDE DEF w
  <2> QED
    BY <2>2
<1>2. ASSUME NEW l \in 0..47, l \in T
      PROVE  l + 1 \in T
  <2>1. PICK w : Schedules(w, block, 15 + l)
    BY <1>2
  <2>2. PICK c \in 16..63 : c = 16 + l
    OBVIOUS
  <2> DEFINE v == [t \in 0..63 |-> IF t = c THEN Stretched(w, c) ELSE w[t]]
  <2>3. w \in [0..63 -> Word]
    BY <2>1 DEF Schedules
  <2>4. Stretched(w, c) \in Word
    BY <2>3, StretchedIs
  <2>5. v \in [0..63 -> Word]
    BY <2>3, <2>4
  <2>6. \A t \in 0..63 : t # c => v[t] = w[t]
    OBVIOUS
  <2>7. v[c] = Stretched(w, c)
    OBVIOUS
  <2> HIDE DEF v
  <2>8. ASSUME NEW t \in 0..c
        PROVE  v[t] = IF t < 16 THEN Loaded(block, t) ELSE Stretched(v, t)
    <3>1. ASSUME t >= 16 PROVE Stretched(v, t) = Stretched(w, t)
      <4>1. \A s \in 0..(t - 1) : s \in 0..63 /\ s # c
        OBVIOUS
      <4>2. \A s \in 0..(t - 1) : v[s] = w[s]
        BY <2>6, <4>1
      <4>3. t \in 16..63
        BY <3>1
      <4> QED
        BY <4>2, <4>3, StretchedAlike
    <3>2. CASE t = c
      BY <2>7, <3>1, <3>2
    <3>3. CASE t # c
      <4>1. t \in 0..(15 + l) /\ t \in 0..63
        BY <2>2, <3>3
      <4>2. w[t] = IF t < 16 THEN Loaded(block, t) ELSE Stretched(w, t)
        BY <2>1, <4>1 DEF Schedules
      <4>3. v[t] = w[t]
        BY <2>6, <3>3, <4>1
      <4> QED
        BY <3>1, <4>2, <4>3
    <3> QED
      BY <3>2, <3>3
  <2>9. c = 15 + (l + 1)
    BY <2>2
  <2>10. Schedules(v, block, 15 + (l + 1))
    BY <2>5, <2>8, <2>9 DEF Schedules
  <2> QED
    BY <2>10
<1>3. 0..48 \subseteq T
  <2>1. \A l \in 0..(48 - 1) : l \in T => l + 1 \in T
    BY <1>2
  <2> HIDE DEF T
  <2> QED
    BY <1>1, <2>1, InductiveInterval
<1>4. 48 \in T
  <2> HIDE DEF T
  <2> QED
    BY <1>3
<1> QED
  BY <1>4

LEMMA ScheduleIs ==
  ASSUME NEW block \in BlockOfBytes
  PROVE  Schedules(Schedule(block), block, 63)
<1> DEFINE body(f) == [t \in 0..63 |-> IF t < 16 THEN Loaded(block, t) ELSE Stretched(f, t)]
           w == CHOOSE f : f = body(f)
<1>1. PICK v : Schedules(v, block, 63)
  BY ScheduleExists
<1>2. v = body(v)
  BY <1>1 DEF Schedules
<1>3. w = body(w)
  <2> HIDE DEF body
  <2> QED
    BY <1>2
<1>4. Schedule(block) = w
  BY DEF Schedule
<1> HIDE DEF w
<1>5. DOMAIN w = 0..63 /\ w = [t \in 0..63 |-> w[t]]
  BY <1>3
<1>6. \A t \in 0..63 : w[t] = IF t < 16 THEN Loaded(block, t) ELSE Stretched(w, t)
  BY <1>3
<1> HIDE DEF body
<1> DEFINE T == {t \in 0..63 : w[t] \notin Word}
<1>7. T = {}
  <2> SUFFICES ASSUME T # {} PROVE FALSE
    OBVIOUS
  <2>1. T \subseteq Nat
    OBVIOUS
  <2>2. PICK c \in T : \A t \in T : c <= t
    <3> HIDE DEF T
    <3> QED
      BY <2>1, LeastNatural
  <2>3. c \in 0..63 /\ w[c] \notin Word
    BY <2>2
  <2>4. \A t \in 0..63 : t < c => w[t] \in Word
    BY <2>2
  <2>5. CASE c < 16
    BY <1>6, <2>3, <2>5, LoadedIs
  <2>6. CASE c >= 16
    <3>1. c \in 16..63
      BY <2>3, <2>6
    <3>2. w[c - 2] \in Word /\ w[c - 7] \in Word /\ w[c - 15] \in Word /\ w[c - 16] \in Word
      BY <2>4, <3>1
    <3>3. Stretched(w, c) \in Word
      BY <3>1, <3>2, StretchedIs
    <3> QED
      BY <1>6, <2>3, <2>6, <3>3
  <2> QED
    BY <2>3, <2>5, <2>6
<1>8. w \in [0..63 -> Word]
  BY <1>5, <1>7
<1> QED
  BY <1>4, <1>6, <1>8 DEF Schedules

EightWords == [1..8 -> Word]

LEMMA RoundIs ==
  ASSUME NEW s \in EightWords, NEW k \in Word, NEW w \in Word
  PROVE  ScalarRound(s, k, w) \in EightWords
<1>1. \A j \in 1..8 : s[j] \in Word
  BY DEF EightWords
<1>2. /\ EP1(s[5]) \in Word /\ CH(s[5], s[6], s[7]) \in Word
      /\ EP0(s[1]) \in Word /\ MAJ(s[1], s[2], s[3]) \in Word
  BY <1>1, SigmasAre, ChoicesAre
<1>3. PICK t1, t2 : /\ t1 = Add(Add4(s[8], EP1(s[5]), CH(s[5], s[6], s[7]), k), w)
                    /\ t2 = Add(EP0(s[1]), MAJ(s[1], s[2], s[3]))
  OBVIOUS
<1>4. t1 \in Word /\ t2 \in Word
  <2>1. Add4(s[8], EP1(s[5]), CH(s[5], s[6], s[7]), k) \in Word
    <3>1. s[8] \in Word
      BY <1>1
    <3> QED
      BY <1>2, <3>1, AddsAre
  <2> QED
    BY <1>2, <1>3, <2>1, AddIs
<1>5. Add(t1, t2) \in Word /\ Add(s[4], t1) \in Word
  BY <1>1, <1>4, AddIs
<1>6. ScalarRound(s, k, w) =
        <<Add(t1, t2), s[1], s[2], s[3], Add(s[4], t1), s[5], s[6], s[7]>>
  BY <1>3 DEF ScalarRound
<1> QED
  BY <1>1, <1>5, <1>6 DEF EightWords

(* r is the state after each of the rounds.                                 *)
TakesRounds(r, s, w) ==
    /\ r \in [0..64 -> EightWords]
    /\ r[0] = s
    /\ \A t \in 1..64 : r[t] = ScalarRound(r[t - 1], K[t], w[t - 1])

LEMMA RoundsAre ==
  ASSUME NEW s \in EightWords, NEW w \in [0..63 -> Word]
  PROVE  TakesRounds(Rounds(s, w), s, w)
<1> DEFINE step == [p \in (1..64) \X EightWords |-> ScalarRound(p[2], K[p[1]], w[p[1] - 1])]
           body(f) == [t \in 0..64 |-> IF t = 0 THEN s
                                       ELSE ScalarRound(f[t - 1], K[t], w[t - 1])]
           r == CHOOSE f : f = body(f)
<1>1. ASSUME NEW t \in 1..64, NEW v \in EightWords
      PROVE  /\ ScalarRound(v, K[t], w[t - 1]) \in EightWords
             /\ step[<<t, v>>] = ScalarRound(v, K[t], w[t - 1])
  <2>1. K[t] \in Word /\ w[t - 1] \in Word
    BY ConstantsAre
  <2>2. ScalarRound(v, K[t], w[t - 1]) \in EightWords
    BY <2>1, RoundIs
  <2> QED
    BY <2>2
<1> HIDE DEF step
<1>2. IsStep(step, 64, EightWords)
  BY <1>1 DEF IsStep
<1>3. PICK g : Iterates(g, 64, EightWords, s, step)
  BY <1>2, PrimitiveRecursion
<1>4. /\ g \in [0..64 -> EightWords] /\ g[0] = s
      /\ \A t \in 1..64 : g[t] = step[<<t, g[t - 1]>>]
  BY <1>3 DEF Iterates
<1>5. ASSUME NEW t \in 1..64
      PROVE  g[t] = ScalarRound(g[t - 1], K[t], w[t - 1])
  <2>1. g[t - 1] \in EightWords
    BY <1>4
  <2> QED
    BY <1>1, <1>4, <2>1
<1>6. g = body(g)
  <2>1. \A t \in 0..64 : g[t] = IF t = 0 THEN s ELSE ScalarRound(g[t - 1], K[t], w[t - 1])
    BY <1>4, <1>5
  <2> QED
    BY <1>4, <2>1
<1>7. r = body(r)
  <2> HIDE DEF body
  <2> QED
    BY <1>6
<1>8. Rounds(s, w) = r
  BY DEF Rounds
<1> HIDE DEF r
<1>9. /\ r = [t \in 0..64 |-> r[t]]
      /\ \A t \in 0..64 : r[t] = IF t = 0 THEN s ELSE ScalarRound(r[t - 1], K[t], w[t - 1])
  BY <1>7
<1> HIDE DEF body
<1> DEFINE S == {t \in 0..64 : r[t] \in EightWords}
<1>10. 0 \in S
  BY <1>9
<1>11. ASSUME NEW t \in 0..(64 - 1), t \in S
       PROVE  t + 1 \in S
  <2>1. PICK u \in 1..64 : u = t + 1 /\ u - 1 = t
    OBVIOUS
  <2>2. r[u] = ScalarRound(r[u - 1], K[u], w[u - 1])
    BY <1>9
  <2>3. r[u - 1] \in EightWords
    BY <1>11, <2>1
  <2>4. r[u] \in EightWords
    BY <1>1, <2>2, <2>3
  <2> QED
    BY <2>1, <2>4
<1>12. 0..64 \subseteq S
  <2> HIDE DEF S
  <2> QED
    BY <1>10, <1>11, InductiveInterval
<1>13. \A t \in 0..64 : r[t] \in EightWords
  BY <1>12
<1>14. \A t \in 1..64 : r[t] = ScalarRound(r[t - 1], K[t], w[t - 1])
  BY <1>9
<1> QED
  BY <1>8, <1>9, <1>13, <1>14 DEF TakesRounds

LEMMA AddEachIs ==
  ASSUME NEW x \in EightWords, NEW y \in EightWords
  PROVE  /\ AddEach(x, y) \in EightWords
         /\ AddEach(x, y) = [j \in 1..8 |-> Add(x[j], y[j])]
<1>1. Len(x) = 8
  BY DEF EightWords
<1>2. \A j \in 1..8 : Add(x[j], y[j]) \in Word
  BY AddIs DEF EightWords
<1> QED
  BY <1>1, <1>2 DEF AddEach, EightWords

LEMMA CompressionIs ==
  ASSUME NEW s \in EightWords, NEW block \in BlockOfBytes
  PROVE  Compression(s, block) \in EightWords
<1>1. Schedule(block) \in [0..63 -> Word]
  BY ScheduleIs DEF Schedules
<1>2. Rounds(s, Schedule(block)) \in [0..64 -> EightWords]
  BY <1>1, RoundsAre DEF TakesRounds
<1> QED
  BY <1>2, AddEachIs DEF Compression

(* The chain is what its recursion says.                                    *)
LEMMA ChainIs ==
  ASSUME NEW m \in Message
  PROVE  /\ Chain(m) \in [0..Blocks(m) -> EightWords]
         /\ Chain(m)[0] = InitialState
         /\ \A b \in 1..Blocks(m) : Chain(m)[b] = Compression(Chain(m)[b - 1], Block(m, b))
<1>0. PICK N \in Nat : N = Blocks(m)
  BY WholeBlocks
<1> DEFINE step == [p \in (1..N) \X EightWords |-> Compression(p[2], Block(m, p[1]))]
           body(f) == [b \in 0..N |-> IF b = 0 THEN InitialState
                                      ELSE Compression(f[b - 1], Block(m, b))]
           h == CHOOSE f : f = body(f)
<1>1. ASSUME NEW b \in 1..N, NEW v \in EightWords
      PROVE  /\ Compression(v, Block(m, b)) \in EightWords
             /\ step[<<b, v>>] = Compression(v, Block(m, b))
  <2>1. Block(m, b) \in BlockOfBytes
    BY <1>0, BlockIs DEF BlockOfBytes
  <2>2. Compression(v, Block(m, b)) \in EightWords
    BY <2>1, CompressionIs
  <2> QED
    BY <2>2
<1> HIDE DEF step
<1>15. InitialState \in EightWords
  <2>1. \A j \in 1..8 : InitialState[j] \in Word
    BY ConstantsAre
  <2>2. InitialState = [j \in 1..8 |-> InitialState[j]]
    BY SMT DEF InitialState
  <2> QED
    BY <2>1, <2>2 DEF EightWords
<1>2. IsStep(step, N, EightWords)
  BY <1>1 DEF IsStep
<1>3. PICK g : Iterates(g, N, EightWords, InitialState, step)
  BY <1>2, <1>15, PrimitiveRecursion
<1>4. /\ g \in [0..N -> EightWords] /\ g[0] = InitialState
      /\ \A b \in 1..N : g[b] = step[<<b, g[b - 1]>>]
  BY <1>3 DEF Iterates
<1>5. ASSUME NEW b \in 1..N
      PROVE  g[b] = Compression(g[b - 1], Block(m, b))
  <2>1. g[b - 1] \in EightWords
    BY <1>4
  <2> QED
    BY <1>1, <1>4, <2>1
<1>6. g = body(g)
  <2>1. \A b \in 0..N : g[b] = IF b = 0 THEN InitialState
                               ELSE Compression(g[b - 1], Block(m, b))
    BY <1>4, <1>5
  <2> QED
    BY <1>4, <2>1
<1>7. h = body(h)
  <2> HIDE DEF body
  <2> QED
    BY <1>6
<1>8. Chain(m) = h
  BY <1>0 DEF Chain
<1> HIDE DEF h
<1>9. /\ h = [b \in 0..N |-> h[b]]
      /\ \A b \in 0..N : h[b] = IF b = 0 THEN InitialState
                                ELSE Compression(h[b - 1], Block(m, b))
  BY <1>7
<1> HIDE DEF body
<1>14. \A b \in 1..N : h[b] = Compression(h[b - 1], Block(m, b))
  <2>1. \A b \in 1..N : b \in 0..N /\ b # 0
    BY <1>0
  <2> QED
    BY <1>9, <2>1
<1> DEFINE S == {b \in 0..N : h[b] \in EightWords}
<1>10. 0 \in S
  BY <1>9, <1>15
<1>11. ASSUME NEW b \in 0..(N - 1), b \in S
       PROVE  b + 1 \in S
  <2>1. PICK u \in 1..N : u = b + 1 /\ u - 1 = b
    OBVIOUS
  <2>2. h[u] = Compression(h[u - 1], Block(m, u))
    BY <1>14
  <2>3. h[u - 1] \in EightWords
    BY <1>11, <2>1
  <2>4. h[u] \in EightWords
    BY <1>1, <2>2, <2>3
  <2> QED
    BY <2>1, <2>4
<1>12. 0..N \subseteq S
  <2> HIDE DEF S
  <2> QED
    BY <1>10, <1>11, InductiveInterval
<1>13. \A b \in 0..N : h[b] \in EightWords
  BY <1>12
<1>16. h[0] = InitialState
  <2>1. 0 \in 0..N
    BY <1>0
  <2>2. h[0] = IF 0 = 0 THEN InitialState ELSE Compression(h[0 - 1], Block(m, 0))
    BY <1>9, <2>1
  <2> QED
    BY <2>2
<1> QED
  BY <1>0, <1>8, <1>9, <1>13, <1>14, <1>16
-----------------------------------------------------------------------------
(* The NEON instructions do the same rounds and make the same schedule *)

LEMMA ConstantsSeq == K \in Seq(Word) /\ Len(K) = 64
<1>1. Len(K) = 64
  BY SMT DEF K
<1>2. K = [t \in 1..64 |-> K[t]]
  BY SMT DEF K
<1>3. \A t \in 1..64 : K[t] \in Word
  BY ConstantsAre
<1>4. K \in [1..64 -> Word]
  BY <1>2, <1>3
<1>5. [1..64 -> Word] \in {[1..l -> Word] : l \in Nat}
  OBVIOUS
<1>6. [1..64 -> Word] \subseteq Seq(Word)
  BY <1>5, SeqDef
<1> QED
  BY <1>1, <1>4, <1>6

LEMMA QuadIs ==
  ASSUME NEW S, NEW words \in Seq(S), NEW q \in Nat, 4 * q + 4 <= Len(words),
         NEW j \in 1..4
  PROVE  Quad(words, q)[j] = words[4 * q + j]
<1>1. PICK a \in Nat, b \in Nat : a = 4 * q + 1 /\ b = 4 * q + 4 /\ a <= b /\ b <= Len(words)
  BY LenProperties
<1>2. Len(words) \in Nat
  BY LenProperties
<1>3. j \in 1..(b - a + 1) /\ a + j - 1 = 4 * q + j
  BY <1>1
<1>4. SubSeq(words, a, b)[j] = words[a + j - 1]
  BY <1>1, <1>2, <1>3
<1> QED
  BY <1>1, <1>3, <1>4 DEF Quad

LEMMA AddThenRound ==
  ASSUME NEW h \in Word, NEW e \in Word, NEW c \in Word, NEW k \in Word, NEW w \in Word
  PROVE  Add4(h, e, c, Add(w, k)) = Add(Add4(h, e, c, k), w)
<1>1. PICK a \in Word : a = Add(h, e)
  BY AddIs
<1>2. Add(w, k) = Add(k, w)
  BY AddCommutes
<1>3. Add(c, Add(k, w)) = Add(Add(c, k), w)
  BY AddAssociates
<1>4. Add(c, k) \in Word
  BY AddIs
<1>5. Add(a, Add(Add(c, k), w)) = Add(Add(a, Add(c, k)), w)
  BY <1>4, AddAssociates
<1> QED
  BY <1>1, <1>2, <1>3, <1>5 DEF Add4

LEMMA NeonRoundIs ==
  ASSUME NEW s \in EightWords, NEW k \in Word, NEW w \in Word,
         NEW x, NEW y, <<x, y>> = Halves(s)
  PROVE  NeonRound(x, y, Add(w, k)) = Halves(ScalarRound(s, k, w))
<1>1. \A j \in 1..8 : s[j] \in Word
  BY DEF EightWords
<1>2. x = <<s[1], s[2], s[3], s[4]>> /\ y = <<s[5], s[6], s[7], s[8]>>
  BY DEF Halves
<1>3. PICK e0, e1, c, j : /\ e0 = EP0(s[1]) /\ e1 = EP1(s[5])
                          /\ c = CH(s[5], s[6], s[7]) /\ j = MAJ(s[1], s[2], s[3])
  OBVIOUS
<1>4. e0 \in Word /\ e1 \in Word /\ c \in Word /\ j \in Word
  BY <1>1, <1>3, SigmasAre, ChoicesAre
<1>5. s[8] \in Word /\ s[4] \in Word
  BY <1>1
<1>6. PICK t : t = Add(Add4(s[8], e1, c, k), w)
  OBVIOUS
<1>7. t \in Word
  <2>1. Add4(s[8], e1, c, k) \in Word
    BY <1>4, <1>5, AddsAre
  <2> QED
    BY <1>6, <2>1, AddIs
<1>8. Add4(s[8], e1, c, Add(w, k)) = t
  <2>1. Add4(s[8], e1, c, Add(w, k)) = Add(Add4(s[8], e1, c, k), w)
    <3>1. PICK h \in Word : h = s[8]
      BY <1>5
    <3>2. Add4(h, e1, c, Add(w, k)) = Add(Add4(h, e1, c, k), w)
      BY <1>4, AddThenRound
    <3> QED
      BY <3>1, <3>2
  <2> QED
    BY <1>6, <2>1
<1>9. Add3(t, e0, j) = Add(t, Add(e0, j))
  BY <1>4, <1>7, AddAssociates DEF Add3
<1>10. Add(t, s[4]) = Add(s[4], t)
  BY <1>5, <1>7, AddCommutes
<1>11. ScalarRound(s, k, w) =
         <<Add(t, Add(e0, j)), s[1], s[2], s[3], Add(s[4], t), s[5], s[6], s[7]>>
  BY <1>3, <1>6 DEF ScalarRound
<1>12. NeonRound(x, y, Add(w, k)) =
         << <<Add3(t, e0, j), s[1], s[2], s[3]>>, <<Add(t, s[4]), s[5], s[6], s[7]>> >>
  BY <1>2, <1>3, <1>8 DEF NeonRound
<1> QED
  BY <1>9, <1>10, <1>11, <1>12 DEF Halves

(* Four rounds from after round 4 q on.                                     *)
LEMMA HashedIs ==
  ASSUME NEW s \in EightWords, NEW w \in [0..63 -> Word], NEW r, TakesRounds(r, s, w),
         NEW q \in 0..15, NEW old, old = Halves(r[4 * q]),
         NEW v, \A j \in 1..4 : v[j] = Add(w[4 * q + j - 1], K[4 * q + j])
  PROVE  Hashed(old, v) = Halves(r[4 * q + 4])
<1>1. PICK a \in 0..60 : a = 4 * q
  OBVIOUS
<1>2. /\ r \in [0..64 -> EightWords]
      /\ \A t \in 1..64 : r[t] = ScalarRound(r[t - 1], K[t], w[t - 1])
  BY DEF TakesRounds
<1>3. /\ v[1] = Add(w[a], K[a + 1]) /\ v[2] = Add(w[a + 1], K[a + 2])
      /\ v[3] = Add(w[a + 2], K[a + 3]) /\ v[4] = Add(w[a + 3], K[a + 4])
  <2>1. /\ v[1] = Add(w[4 * q + 1 - 1], K[4 * q + 1]) /\ v[2] = Add(w[4 * q + 2 - 1], K[4 * q + 2])
        /\ v[3] = Add(w[4 * q + 3 - 1], K[4 * q + 3]) /\ v[4] = Add(w[4 * q + 4 - 1], K[4 * q + 4])
    OBVIOUS
  <2>2. /\ 4 * q + 1 - 1 = a /\ 4 * q + 2 - 1 = a + 1 /\ 4 * q + 3 - 1 = a + 2 /\ 4 * q + 4 - 1 = a + 3
    BY <1>1
  <2> QED
    BY <1>1, <2>1, <2>2
<1>4. /\ w[a] \in Word /\ w[a + 1] \in Word /\ w[a + 2] \in Word /\ w[a + 3] \in Word
      /\ K[a + 1] \in Word /\ K[a + 2] \in Word /\ K[a + 3] \in Word /\ K[a + 4] \in Word
      /\ r[a] \in EightWords /\ r[a + 1] \in EightWords /\ r[a + 2] \in EightWords
      /\ r[a + 3] \in EightWords
  BY <1>2, ConstantsAre
<1>5. /\ r[a + 1] = ScalarRound(r[a], K[a + 1], w[a])
      /\ r[a + 2] = ScalarRound(r[a + 1], K[a + 2], w[a + 1])
      /\ r[a + 3] = ScalarRound(r[a + 2], K[a + 3], w[a + 2])
      /\ r[a + 4] = ScalarRound(r[a + 3], K[a + 4], w[a + 3])
  <2>1. /\ a + 1 \in 1..64 /\ a + 1 - 1 = a /\ a + 2 \in 1..64 /\ a + 2 - 1 = a + 1
        /\ a + 3 \in 1..64 /\ a + 3 - 1 = a + 2 /\ a + 4 \in 1..64 /\ a + 4 - 1 = a + 3
    OBVIOUS
  <2> QED
    BY <1>2, <2>1
<1>6. PICK h0, h1, h2, h3, h4 :
        /\ h0 = Halves(r[a]) /\ h1 = Halves(r[a + 1]) /\ h2 = Halves(r[a + 2])
        /\ h3 = Halves(r[a + 3]) /\ h4 = Halves(r[a + 4])
  OBVIOUS
<1>7. /\ h0 = <<h0[1], h0[2]>> /\ h1 = <<h1[1], h1[2]>> /\ h2 = <<h2[1], h2[2]>>
      /\ h3 = <<h3[1], h3[2]>> /\ h4 = <<h4[1], h4[2]>>
  BY <1>6 DEF Halves
<1>8. NeonRound(h0[1], h0[2], v[1]) = h1
  <2>1. <<h0[1], h0[2]>> = Halves(r[a])
    BY <1>6, <1>7
  <2>2. r[a] \in EightWords /\ w[a] \in Word /\ K[a + 1] \in Word
    BY <1>4
  <2>3. NeonRound(h0[1], h0[2], Add(w[a], K[a + 1])) = Halves(ScalarRound(r[a], K[a + 1], w[a]))
    BY <2>1, <2>2, NeonRoundIs
  <2> QED
    BY <1>3, <1>5, <1>6, <2>3
<1>9. NeonRound(h1[1], h1[2], v[2]) = h2
  <2>1. <<h1[1], h1[2]>> = Halves(r[a + 1])
    BY <1>6, <1>7
  <2>2. r[a + 1] \in EightWords /\ w[a + 1] \in Word /\ K[a + 2] \in Word
    BY <1>4
  <2>3. NeonRound(h1[1], h1[2], Add(w[a + 1], K[a + 2])) = Halves(ScalarRound(r[a + 1], K[a + 2], w[a + 1]))
    BY <2>1, <2>2, NeonRoundIs
  <2> QED
    BY <1>3, <1>5, <1>6, <2>3
<1>10. NeonRound(h2[1], h2[2], v[3]) = h3
  <2>1. <<h2[1], h2[2]>> = Halves(r[a + 2])
    BY <1>6, <1>7
  <2>2. r[a + 2] \in EightWords /\ w[a + 2] \in Word /\ K[a + 3] \in Word
    BY <1>4
  <2>3. NeonRound(h2[1], h2[2], Add(w[a + 2], K[a + 3])) = Halves(ScalarRound(r[a + 2], K[a + 3], w[a + 2]))
    BY <2>1, <2>2, NeonRoundIs
  <2> QED
    BY <1>3, <1>5, <1>6, <2>3
<1>11. NeonRound(h3[1], h3[2], v[4]) = h4
  <2>1. <<h3[1], h3[2]>> = Halves(r[a + 3])
    BY <1>6, <1>7
  <2>2. r[a + 3] \in EightWords /\ w[a + 3] \in Word /\ K[a + 4] \in Word
    BY <1>4
  <2>3. NeonRound(h3[1], h3[2], Add(w[a + 3], K[a + 4])) = Halves(ScalarRound(r[a + 3], K[a + 4], w[a + 3]))
    BY <2>1, <2>2, NeonRoundIs
  <2> QED
    BY <1>3, <1>5, <1>6, <2>3
<1>12. NeonRounds(h0[1], h0[2], v) = h4
  BY <1>8, <1>9, <1>10, <1>11 DEF NeonRounds
<1>13. Hashed(h0, v) = <<h4[1], h4[2]>>
  BY <1>12 DEF Hashed, vsha256hq, vsha256h2q
<1> QED
  BY <1>1, <1>6, <1>7, <1>13

LEMMA StretchedAs ==
  ASSUME NEW a \in Word, NEW b \in Word, NEW c \in Word, NEW d \in Word
  PROVE  Add3(a, Add(c, d), b) = Add4(a, b, c, d)
<1>1. PICK e \in Word : e = Add(c, d)
  BY AddIs
<1>2. Add(Add(a, e), b) = Add(a, Add(e, b))
  BY AddAssociates
<1>3. Add(e, b) = Add(b, e)
  BY AddCommutes
<1>4. Add(a, Add(b, e)) = Add(Add(a, b), e)
  BY AddAssociates
<1> QED
  BY <1>1, <1>2, <1>3, <1>4 DEF Add3, Add4

LEMMA StretchedBy ==
  ASSUME NEW w \in [0..63 -> Word], NEW t \in 16..63
  PROVE  Stretched(w, t) = Add3(SIG1(w[t - 2]), Add(SIG0(w[t - 15]), w[t - 16]), w[t - 7])
<1>1. w[t - 2] \in Word /\ w[t - 7] \in Word /\ w[t - 15] \in Word /\ w[t - 16] \in Word
  OBVIOUS
<1>2. SIG1(w[t - 2]) \in Word /\ SIG0(w[t - 15]) \in Word
  BY <1>1, SigmasAre
<1>3. PICK a \in Word, b \in Word, c \in Word, d \in Word :
        a = SIG1(w[t - 2]) /\ b = w[t - 7] /\ c = SIG0(w[t - 15]) /\ d = w[t - 16]
  BY <1>1, <1>2
<1>4. Add3(a, Add(c, d), b) = Add4(a, b, c, d)
  BY StretchedAs
<1> QED
  BY <1>3, <1>4 DEF Stretched

(* vsha256su1q of vsha256su0q is the next vector of the schedule.           *)
LEMMA NextVector ==
  ASSUME NEW w, NEW block, Schedules(w, block, 63), NEW q \in 4..15
  PROVE  vsha256su1q(vsha256su0q(Vector(w, q - 4), Vector(w, q - 3)),
                     Vector(w, q - 2), Vector(w, q - 1)) = Vector(w, q)
<1>1. PICK a \in 16..60 : a = 4 * q
  OBVIOUS
<1>2. /\ Vector(w, q) = <<w[a], w[a + 1], w[a + 2], w[a + 3]>>
      /\ Vector(w, q - 1) = <<w[a - 4], w[a - 3], w[a - 2], w[a - 1]>>
      /\ Vector(w, q - 2) = <<w[a - 8], w[a - 7], w[a - 6], w[a - 5]>>
      /\ Vector(w, q - 3) = <<w[a - 12], w[a - 11], w[a - 10], w[a - 9]>>
      /\ Vector(w, q - 4) = <<w[a - 16], w[a - 15], w[a - 14], w[a - 13]>>
  <2>1. /\ 4 * (q - 1) = a - 4 /\ 4 * (q - 2) = a - 8 /\ 4 * (q - 3) = a - 12 /\ 4 * (q - 4) = a - 16
    BY <1>1
  <2>2. /\ a - 4 + 1 = a - 3 /\ a - 4 + 2 = a - 2 /\ a - 4 + 3 = a - 1
        /\ a - 8 + 1 = a - 7 /\ a - 8 + 2 = a - 6 /\ a - 8 + 3 = a - 5
        /\ a - 12 + 1 = a - 11 /\ a - 12 + 2 = a - 10 /\ a - 12 + 3 = a - 9
        /\ a - 16 + 1 = a - 15 /\ a - 16 + 2 = a - 14 /\ a - 16 + 3 = a - 13
    OBVIOUS
  <2> QED
    BY <1>1, <2>1, <2>2 DEF Vector
<1>3. /\ w \in [0..63 -> Word]
      /\ \A t \in 16..63 : w[t] = Stretched(w, t)
  BY DEF Schedules
<1>4. \A t \in 16..63 : w[t] = Add3(SIG1(w[t - 2]), Add(SIG0(w[t - 15]), w[t - 16]), w[t - 7])
  BY <1>3, StretchedBy
<1>5. /\ w[a] = Add3(SIG1(w[a - 2]), Add(SIG0(w[a - 15]), w[a - 16]), w[a - 7])
      /\ w[a + 1] = Add3(SIG1(w[a - 1]), Add(SIG0(w[a - 14]), w[a - 15]), w[a - 6])
      /\ w[a + 2] = Add3(SIG1(w[a]), Add(SIG0(w[a - 13]), w[a - 14]), w[a - 5])
      /\ w[a + 3] = Add3(SIG1(w[a + 1]), Add(SIG0(w[a - 12]), w[a - 13]), w[a - 4])
  <2>1. PICK b \in 16..63, c \in 16..63, d \in 16..63 : b = a + 1 /\ c = a + 2 /\ d = a + 3
    <3>1. a + 1 \in 16..63 /\ a + 2 \in 16..63 /\ a + 3 \in 16..63
      OBVIOUS
    <3> QED
      BY <3>1
  <2>2. /\ b - 2 = a - 1 /\ b - 15 = a - 14 /\ b - 16 = a - 15 /\ b - 7 = a - 6
        /\ c - 2 = a /\ c - 15 = a - 13 /\ c - 16 = a - 14 /\ c - 7 = a - 5
        /\ d - 2 = a + 1 /\ d - 15 = a - 12 /\ d - 16 = a - 13 /\ d - 7 = a - 4
    BY <2>1
  <2>3. a \in 16..63
    BY <1>1
  <2> QED
    BY <1>4, <2>1, <2>2, <2>3
<1>6. PICK v0, v4, v8, v12 :
        /\ v0 = Vector(w, q - 4) /\ v4 = Vector(w, q - 3)
        /\ v8 = Vector(w, q - 2) /\ v12 = Vector(w, q - 1)
  OBVIOUS
<1>7. PICK t0 : t0 = vsha256su0q(v0, v4)
  OBVIOUS
<1>8. t0 = <<Add(SIG0(w[a - 15]), w[a - 16]), Add(SIG0(w[a - 14]), w[a - 15]),
             Add(SIG0(w[a - 13]), w[a - 14]), Add(SIG0(w[a - 12]), w[a - 13])>>
  BY <1>2, <1>6, <1>7 DEF vsha256su0q
<1>9. /\ w[a] = Add3(SIG1(v12[3]), t0[1], v8[2]) /\ w[a + 1] = Add3(SIG1(v12[4]), t0[2], v8[3])
      /\ w[a + 2] = Add3(SIG1(w[a]), t0[3], v8[4])
      /\ w[a + 3] = Add3(SIG1(w[a + 1]), t0[4], v12[1])
  BY <1>2, <1>5, <1>6, <1>8
<1>10. vsha256su1q(t0, v8, v12) = <<w[a], w[a + 1], w[a + 2], w[a + 3]>>
  BY <1>9 DEF vsha256su1q
<1> QED
  BY <1>2, <1>6, <1>7, <1>10

(* The first four are loaded.                                               *)
LEMMA FirstVectors ==
  ASSUME NEW w, Schedules(w, data, 63), NEW q \in 0..3
  PROVE  LoadQuad(q) = Vector(w, q)
<1>1. PICK a \in 0..12 : a = 4 * q
  OBVIOUS
<1>2. \A t \in 0..15 : w[t] = BigEndian(data, 4 * t + 1)
  BY DEF Schedules, Loaded
<1>3. /\ w[a] = BigEndian(data, 4 * a + 1) /\ w[a + 1] = BigEndian(data, 4 * (a + 1) + 1)
      /\ w[a + 2] = BigEndian(data, 4 * (a + 2) + 1) /\ w[a + 3] = BigEndian(data, 4 * (a + 3) + 1)
  BY <1>1, <1>2
<1>4. /\ 16 * q + 4 * 1 - 3 = 4 * a + 1 /\ 16 * q + 4 * 2 - 3 = 4 * (a + 1) + 1
      /\ 16 * q + 4 * 3 - 3 = 4 * (a + 2) + 1 /\ 16 * q + 4 * 4 - 3 = 4 * (a + 3) + 1
  BY <1>1
<1>5. LoadQuad(q) = <<BigEndian(data, 16 * q + 4 * 1 - 3), BigEndian(data, 16 * q + 4 * 2 - 3),
                      BigEndian(data, 16 * q + 4 * 3 - 3), BigEndian(data, 16 * q + 4 * 4 - 3)>>
  BY DEF LoadQuad
<1> QED
  BY <1>1, <1>3, <1>4, <1>5 DEF Vector
-----------------------------------------------------------------------------
(* The invariant holds *)

LEMMA ListAppend ==
  ASSUME NEW c \in Nat, NEW f, NEW s, s = [b \in 1..c |-> f[b]]
  PROVE  /\ Len(s) = c
         /\ Append(s, f[c + 1]) = [b \in 1..(c + 1) |-> f[b]]
<1>1. Len(s) = c
  OBVIOUS
<1> DEFINE S == {f[b] : b \in 1..c} \cup {f[c + 1]}
<1>2. s \in Seq(S)
  <2>1. s \in [1..c -> S]
    OBVIOUS
  <2> HIDE DEF S
  <2>2. [1..c -> S] \in {[1..l -> S] : l \in Nat}
    OBVIOUS
  <2> QED
    BY <2>1, <2>2, SeqDef
<1>3. f[c + 1] \in S
  OBVIOUS
<1> HIDE DEF S
<1>4. PICK e \in S : e = f[c + 1]
  BY <1>3
<1>5. /\ Append(s, e) \in Seq(S) /\ Len(Append(s, e)) = c + 1
      /\ \A b \in 1..c : Append(s, e)[b] = f[b]
      /\ Append(s, e)[c + 1] = e
  BY <1>1, <1>2, AppendProperties
<1>6. PICK t : t = Append(s, e)
  OBVIOUS
<1>7. t = [b \in 1..(c + 1) |-> t[b]]
  BY <1>5, <1>6
<1>8. \A b \in 1..(c + 1) : t[b] = f[b]
  BY <1>4, <1>5, <1>6
<1> QED
  BY <1>1, <1>4, <1>6, <1>7, <1>8

(* The blocks so far and one more.                                          *)
LEMMA BlocksAppend ==
  ASSUME NEW m, NEW c \in Nat, NEW s, s = [b \in 1..c |-> Block(m, b)]
  PROVE  /\ Len(s) = c
         /\ Append(s, Block(m, c + 1)) = [b \in 1..(c + 1) |-> Block(m, b)]
         /\ Len(Append(s, Block(m, c + 1))) = c + 1
         /\ Append(s, Block(m, c + 1))[c + 1] = Block(m, c + 1)
<1> DEFINE f == [b \in 1..(c + 1) |-> Block(m, b)]
<1>1. s = [b \in 1..c |-> f[b]] /\ f = [b \in 1..(c + 1) |-> f[b]] /\ f[c + 1] = Block(m, c + 1)
  OBVIOUS
<1>2. f = [b \in 1..(c + 1) |-> Block(m, b)]
  OBVIOUS
<1> HIDE DEF f
<1>3. Len(s) = c /\ Append(s, f[c + 1]) = [b \in 1..(c + 1) |-> f[b]]
  <2>1. PICK g : g = f
    OBVIOUS
  <2>2. s = [b \in 1..c |-> g[b]]
    BY <1>1, <2>1
  <2>3. Len(s) = c /\ Append(s, g[c + 1]) = [b \in 1..(c + 1) |-> g[b]]
    BY <2>2, ListAppend
  <2> QED
    BY <2>1, <2>3
<1>4. Append(s, Block(m, c + 1)) = f
  BY <1>1, <1>3
<1>5. Len(f) = c + 1
  BY <1>2
<1> QED
  BY <1>1, <1>2, <1>3, <1>4, <1>5

(* The numbers in the context, named.                                       *)
LEMMA NumbersAre ==
  ASSUME StageIs, PaddedSoFar
  PROVE  /\ Len(message) \in Nat /\ Blocks(message) \in Nat /\ Count \in Nat
         /\ datalen \in 0..63 /\ i \in Nat /\ i <= Len(message) /\ Count <= Blocks(message)
         /\ data = [k \in 1..64 |-> data[k]]
         /\ transformed = [b \in 1..Count |-> Block(message, b)]
         /\ Len(Padding(message)) = 64 * Blocks(message)
<1>1. message \in Message
  BY DEF StageIs
<1>2. Len(message) \in Nat /\ Blocks(message) \in Nat
  BY <1>1, MessageIs, WholeBlocks
<1>3. Len(Padding(message)) = 64 * Blocks(message)
  BY <1>1, WholeBlocks DEF BlockSize
<1>4. /\ Count \in 0..Blocks(message) /\ i \in 0..Len(message) /\ datalen \in 0..63
  BY DEF PaddedSoFar, BlocksSoFar, Counted, BlockSize
<1>5. /\ data = [k \in 1..64 |-> data[k]]
      /\ transformed = [b \in 1..Count |-> Block(message, b)]
  BY DEF PaddedSoFar, BlocksSoFar, BlockSize
<1> QED
  BY <1>2, <1>3, <1>4, <1>5

LEMMA UpdateKeeps ==
  ASSUME StageIs, PaddedSoFar, Update
  PROVE  StageIs' /\ PaddedSoFar'
<1>0. PICK P : P = Padding(message)
  OBVIOUS
<1>1. PICK N \in Nat, c \in Nat, d \in 0..63, e \in Nat, w \in Nat :
        N = Len(message) /\ c = Count /\ d = datalen /\ e = i /\ w = Blocks(message)
  BY NumbersAre
<1>2. /\ Caller = "update" /\ e < N /\ c <= w /\ stage = "update"
      /\ 64 * c + d = e /\ bitlen = 8 * (e - d)
      /\ \A k \in 1..d : data[k] = P[64 * c + k]
      /\ data = [k \in 1..64 |-> data[k]]
      /\ transformed = [b \in 1..c |-> Block(message, b)]
  <2>1. stage = "update" /\ Caller = "update" /\ e < N
    BY <1>1 DEF Update, Caller
  <2>2. 64 * c + d = e /\ Buffered(datalen)
    BY <1>1, <2>1 DEF PaddedSoFar, Remaining, BlockSize
  <2>3. \A k \in 1..d : data[k] = P[64 * c + k]
    BY <1>0, <1>1, <2>2 DEF Buffered, BlockSize
  <2>4. bitlen = 8 * (i - datalen)
    BY <2>1 DEF PaddedSoFar, Counted
  <2> QED
    BY <1>1, <2>1, <2>2, <2>3, <2>4, NumbersAre
<1>3. /\ data' = [data EXCEPT ![d + 1] = message[e + 1]] /\ i' = e + 1 /\ message' = message
  BY <1>1 DEF Update
<1>4. /\ Len(P) = 64 * w /\ N <= Len(P) /\ \A k \in 1..N : P[k] = message[k]
  <2>1. message \in Message
    BY DEF StageIs
  <2>2. Len(P) = 64 * w /\ N <= Len(P)
    BY <1>0, <1>1, <2>1, WholeBlocks DEF BlockSize
  <2>3. PaddedAs(P, message, N, Zeros(N))
    BY <1>0, <1>1, <2>1, PaddingIs
  <2> QED
    BY <2>2, <2>3 DEF PaddedAs
<1>5. \A k \in 1..(d + 1) : data'[k] = P[64 * c + k]
  <2> SUFFICES ASSUME NEW k \in 1..(d + 1) PROVE data'[k] = P[64 * c + k]
    OBVIOUS
  <2>1. k \in 1..64
    BY <1>1
  <2>2. CASE k = d + 1
    <3>1. data'[k] = message[e + 1]
      BY <1>2, <1>3, <2>1, <2>2
    <3>2. e + 1 \in 1..N /\ 64 * c + k = e + 1
      <4>1. 64 * c + d = e /\ e < N
        BY <1>2
      <4> QED
        BY <2>2, <4>1
    <3> QED
      BY <1>4, <3>1, <3>2
  <2>3. CASE k # d + 1
    <3>1. k \in 1..d
      BY <2>3
    <3> QED
      BY <1>2, <1>3, <2>1, <2>3, <3>1
  <2> QED
    BY <2>2, <2>3
<1>6. data' = [k \in 1..64 |-> data'[k]]
  BY <1>2, <1>3
<1>7. CASE BlockFull
  <2>1. d = 63
    BY <1>1, <1>7 DEF BlockFull, BlockSize
  <2>2. /\ transformed' = Append(transformed, data') /\ stage' = "transform" /\ after' = "update"
        /\ bitlen' = bitlen + 512 /\ datalen' = 0
    BY <1>7 DEF Update, Transform, BlockBits, BlockSize
  <2>3. data' = Block(message, c + 1)
    <3>1. PICK b \in Nat : b = c + 1 /\ b - 1 = c
      OBVIOUS
    <3>2. \A k \in 1..BlockSize : data'[k] = Padding(message)[BlockSize * (b - 1) + k]
      BY <1>0, <1>5, <2>1, <3>1 DEF BlockSize
    <3>3. data' = [k \in 1..BlockSize |-> data'[k]]
      BY <1>6 DEF BlockSize
    <3>4. PICK bytes : bytes = data'
      OBVIOUS
    <3>6. /\ bytes = [k \in 1..BlockSize |-> bytes[k]]
          /\ \A k \in 1..BlockSize : bytes[k] = Padding(message)[BlockSize * (b - 1) + k]
      BY <3>2, <3>3, <3>4
    <3>5. bytes = Block(message, b)
      BY <3>6 DEF Block
    <3> QED
      BY <3>1, <3>4, <3>5
  <2>4. /\ transformed' = [b \in 1..(c + 1) |-> Block(message, b)]
        /\ Len(transformed') = c + 1 /\ transformed'[c + 1] = data'
    BY <1>2, <2>2, <2>3, BlocksAppend
  <2>5. c + 1 <= w /\ 64 * (c + 1) + 0 = e + 1 /\ e + 1 <= N
    <3>2. 64 * c + d = e /\ e < N /\ N <= 64 * w
      BY <1>2, <1>4
    <3>1. 64 * (c + 1) = e + 1 /\ e + 1 <= N /\ e + 1 <= 64 * w
      BY <2>1, <3>2
    <3> QED
      BY <3>1
  <2>6. Caller' = "update" /\ Count' = c + 1 /\ Blocks(message)' = w /\ Len(message)' = N
    BY <1>1, <1>3, <2>2, <2>4 DEF Caller, Count
  <2>7. StageIs'
    BY <1>3, <2>2, <2>4, <2>6 DEF StageIs
  <2>8. bitlen' = 8 * (i' - datalen')
    BY <1>2, <1>3, <2>1, <2>2
  <2>9. BlocksSoFar'
    <3>1. Count' \in 0..Blocks(message)'
      BY <2>5, <2>6
    <3>2. transformed' = [b \in 1..Count' |-> Block(message', b)]
      BY <1>3, <2>4, <2>6
    <3> QED
      BY <1>6, <3>1, <3>2 DEF BlocksSoFar, BlockSize
  <2>10. Counted'
    BY <1>3, <2>2, <2>5, <2>6, <2>8 DEF Counted, BlockSize
  <2>11. Remaining'
    <3>1. Buffered(0)'
      BY DEF Buffered
    <3> QED
      BY <1>3, <2>2, <2>5, <2>6, <3>1 DEF Remaining, BlockSize
  <2> QED
    BY <2>7, <2>9, <2>10, <2>11 DEF PaddedSoFar
<1>8. CASE ~BlockFull
  <2>1. d + 1 \in 0..63
    BY <1>1, <1>8 DEF BlockFull, BlockSize
  <2>2. /\ transformed' = transformed /\ stage' = stage /\ after' = after
        /\ bitlen' = bitlen /\ datalen' = d + 1
    BY <1>1, <1>8 DEF Update
  <2>3. /\ Caller' = "update" /\ Count' = c /\ Blocks(message)' = w /\ Len(message)' = N
        /\ Padding(message)' = P /\ stage' # "transform"
    BY <1>0, <1>1, <1>2, <1>3, <2>2 DEF Caller, Count
  <2>4. StageIs'
    BY <1>3, <2>2, <2>3 DEF StageIs
  <2>5. bitlen' = 8 * (i' - datalen') /\ 64 * c + (d + 1) = e + 1 /\ e + 1 <= N
    <3>1. 64 * c + d = e /\ e < N
      BY <1>2
    <3>3. (e + 1) - (d + 1) = e - d
      OBVIOUS
    <3>2. 64 * c + (d + 1) = e + 1 /\ e + 1 <= N
      BY <3>1
    <3> QED
      BY <1>2, <1>3, <2>2, <3>2, <3>3
  <2>6. Buffered(datalen)'
    BY <1>5, <2>2, <2>3 DEF Buffered, BlockSize
  <2>7. transformed' = [b \in 1..Count' |-> Block(message', b)]
    BY <1>2, <1>3, <2>2, <2>3
  <2>8. BlocksSoFar'
    BY <1>2, <1>6, <2>3, <2>7 DEF BlocksSoFar, BlockSize
  <2>9. Counted'
    BY <1>3, <2>1, <2>2, <2>3, <2>5 DEF Counted, BlockSize
  <2>10. Remaining'
    BY <1>3, <2>2, <2>3, <2>5, <2>6 DEF Remaining, BlockSize
  <2> QED
    BY <2>4, <2>8, <2>9, <2>10 DEF PaddedSoFar
<1> QED
  BY <1>7, <1>8

LEMMA UpdateEndKeeps ==
  ASSUME StageIs, PaddedSoFar, UpdateEnd
  PROVE  StageIs' /\ PaddedSoFar'
<1>1. /\ stage = "update" /\ i = Len(message) /\ stage' = "final"
      /\ UNCHANGED <<message, i, data, datalen, bitlen, transformed>>
  BY DEF UpdateEnd
<1>2. Caller = "update" /\ Caller' = "final" /\ Count' = Count /\ Buffered(datalen)' = Buffered(datalen)
  BY <1>1 DEF Caller, Count, Buffered
<1>3. StageIs'
  BY <1>1 DEF StageIs
<1>4. BlocksSoFar'
  BY <1>1, <1>2 DEF PaddedSoFar, BlocksSoFar
<1>5. Counted'
  BY <1>1, <1>2 DEF PaddedSoFar, Counted
<1>6. Remaining'
  <2>1. BlockSize * Count + datalen = i /\ Buffered(datalen)
    BY <1>2 DEF PaddedSoFar, Remaining
  <2> QED
    BY <1>1, <1>2, <2>1 DEF Remaining
<1> QED
  BY <1>3, <1>4, <1>5, <1>6 DEF PaddedSoFar

(* What is written behind the message is padding.                           *)
LEMMA PaddedToIs ==
  ASSUME StageIs, PaddedSoFar, stage = "final", NEW end \in {56, 64},
         end = IF FitsLength THEN Room ELSE BlockSize
  PROVE  /\ PaddedTo(end) = [k \in 1..64 |-> PaddedTo(end)[k]]
         /\ \A k \in 1..end : PaddedTo(end)[k] = Padding(message)[64 * Count + k]
<1>0. PICK P : P = Padding(message)
  OBVIOUS
<1>1. PICK N \in Nat, c \in Nat, d \in 0..63, z \in Nat :
        N = Len(message) /\ c = Count /\ d = datalen /\ z = Zeros(N)
  <2>1. Zeros(Len(message)) \in Nat
    BY NumbersAre DEF Zeros, Room, BlockSize
  <2> QED
    BY <2>1, NumbersAre
<1>2. Caller = "final" /\ i = N /\ 64 * c + d = N /\ \A k \in 1..d : data[k] = P[64 * c + k]
  <2>1. Caller = "final"
    BY DEF Caller
  <2>2. i = Len(message)
    BY <2>1 DEF PaddedSoFar, Counted
  <2>3. 64 * Count + datalen = i /\ Buffered(datalen)
    BY <2>1 DEF PaddedSoFar, Remaining, BlockSize
  <2> QED
    BY <1>0, <1>1, <2>1, <2>2, <2>3 DEF Buffered, BlockSize
<1>3. z = IF d < 56 THEN 55 - d ELSE 119 - d
  <2>1. Len(message) = BlockSize * c + d /\ message \in Message
    BY <1>1, <1>2 DEF BlockSize, StageIs
  <2>2. d \in 0..(BlockSize - 1)
    BY DEF BlockSize
  <2>3. /\ d < Room => Zeros(Len(message)) = 55 - d
        /\ d >= Room => Zeros(Len(message)) = 119 - d
    BY <2>1, <2>2, BlocksAre
  <2> QED
    BY <1>1, <2>3 DEF Room
<1>4. end = (IF d < 56 THEN 56 ELSE 64) /\ d < end /\ end <= 64
  BY <1>1 DEF FitsLength, Room, BlockSize
<1>5. /\ P[N + 1] = 128
      /\ \A k \in (N + 2)..(N + 1 + z) : P[k] = 0
  <2>1. message \in Message
    BY DEF StageIs
  <2>2. PaddedAs(P, message, N, z)
    BY <1>0, <1>1, <2>1, PaddingIs
  <2> QED
    BY <2>2 DEF PaddedAs, Pad
<1>6. ASSUME NEW k \in 1..end
      PROVE  PaddedTo(end)[k] = P[64 * c + k]
  <2>1. k \in 1..64
    BY <1>4
  <2>2. PaddedTo(end)[k] = CASE k <= d                 -> data[k]
                             [] k = d + 1              -> 128
                             [] d + 1 < k /\ k <= end  -> 0
                             [] OTHER                  -> data[k]
    BY <1>1, <2>1 DEF PaddedTo, BlockSize, Pad
  <2>3. CASE k <= d
    <3>1. k \in 1..d /\ k # d + 1 /\ ~(d + 1 < k)
      BY <2>3
    <3> QED
      BY <1>2, <2>2, <2>3, <3>1
  <2>4. CASE k = d + 1
    <3>1. ~(k <= d) /\ ~(d + 1 < k)
      BY <2>4
    <3>2. 64 * c + k = N + 1
      <4>1. 64 * c + d = N
        BY <1>2
      <4> QED
        BY <2>4, <4>1
    <3>3. PaddedTo(end)[k] = 128
      BY <2>2, <2>4, <3>1
    <3> QED
      BY <1>5, <3>2, <3>3
  <2>5. CASE d + 1 < k
    <3>1. ~(k <= d) /\ k # d + 1 /\ k <= end
      BY <2>5
    <3>2. 64 * c + k \in (N + 2)..(N + 1 + z)
      <4>1. 64 * c + d = N
        BY <1>2
      <4>2. k <= d + 1 + z
        BY <1>3, <1>4, <3>1
      <4>3. PICK a \in Nat : a = 64 * c
        OBVIOUS
      <4>4. a + d = N
        BY <4>1, <4>3
      <4>5. a + k \in (N + 2)..(N + 1 + z)
        BY <2>5, <4>2, <4>4
      <4> QED
        BY <4>3, <4>5
    <3>3. PaddedTo(end)[k] = 0
      BY <2>2, <2>5, <3>1
    <3> QED
      BY <1>5, <3>2, <3>3
  <2> QED
    BY <2>3, <2>4, <2>5
<1>7. PaddedTo(end) = [k \in 1..64 |-> PaddedTo(end)[k]]
  BY DEF PaddedTo, BlockSize
<1> QED
  BY <1>0, <1>1, <1>6, <1>7

LEMMA PadOneBlockKeeps ==
  ASSUME StageIs, PaddedSoFar, PadOneBlock
  PROVE  StageIs' /\ PaddedSoFar'
<1>1. /\ stage = "final" /\ FitsLength /\ data' = PaddedTo(Room) /\ stage' = "length"
      /\ UNCHANGED <<message, i, datalen, bitlen, transformed>>
  BY DEF PadOneBlock
<1>2. Caller = "final" /\ Caller' = "length" /\ Count' = Count
  BY <1>1 DEF Caller, Count
<1>3. /\ data' = [k \in 1..64 |-> data'[k]]
      /\ \A k \in 1..Room : data'[k] = Padding(message)[64 * Count + k]
  <2>1. /\ PaddedTo(Room) = [k \in 1..64 |-> PaddedTo(Room)[k]]
        /\ \A k \in 1..Room : PaddedTo(Room)[k] = Padding(message)[64 * Count + k]
    <3>1. PICK end \in {56, 64} : end = Room /\ end = IF FitsLength THEN Room ELSE BlockSize
      BY <1>1 DEF Room
    <3>2. /\ PaddedTo(end) = [k \in 1..64 |-> PaddedTo(end)[k]]
          /\ \A k \in 1..end : PaddedTo(end)[k] = Padding(message)[64 * Count + k]
      BY <1>1, <3>1, PaddedToIs
    <3> QED
      BY <3>1, <3>2
  <2>2. PICK bytes : bytes = PaddedTo(Room)
    OBVIOUS
  <2>3. data' = bytes
    BY <1>1, <2>2
  <2> QED
    BY <2>1, <2>2, <2>3
<1>4. StageIs'
  BY <1>1 DEF StageIs
<1>5. BlocksSoFar'
  BY <1>1, <1>2, <1>3 DEF PaddedSoFar, BlocksSoFar, BlockSize
<1>6. Counted'
  BY <1>1, <1>2 DEF PaddedSoFar, Counted
<1>7. Remaining'
  <2>1. Buffered(Room)'
    BY <1>1, <1>2, <1>3 DEF Buffered, BlockSize
  <2>2. 64 * (Count + 1) = Len(Padding(message))
    <3>1. PICK c \in Nat, d \in 0..(BlockSize - 1) : c = Count /\ d = datalen
      BY NumbersAre DEF BlockSize
    <3>2. Len(message) = BlockSize * c + d
      BY <1>2, <3>1 DEF PaddedSoFar, Counted, Remaining
    <3>3. Blocks(message) = c + 1 /\ Len(Padding(message)) = BlockSize * Blocks(message)
      BY <1>1, <3>1, <3>2, BlocksAre DEF StageIs, FitsLength
    <3> QED
      BY <3>1, <3>3 DEF BlockSize
  <2> QED
    BY <1>1, <1>2, <2>1, <2>2 DEF Remaining, BlockSize
<1> QED
  BY <1>4, <1>5, <1>6, <1>7 DEF PaddedSoFar

LEMMA PadTwoBlocksKeeps ==
  ASSUME StageIs, PaddedSoFar, PadTwoBlocks
  PROVE  StageIs' /\ PaddedSoFar'
<1>1. /\ stage = "final" /\ ~FitsLength /\ data' = PaddedTo(BlockSize) /\ stage' = "transform"
      /\ after' = "clear" /\ transformed' = Append(transformed, data')
      /\ UNCHANGED <<message, i, datalen, bitlen>>
  BY DEF PadTwoBlocks, Transform
<1>2. Caller = "final" /\ Caller' = "clear"
  BY <1>1 DEF Caller
<1>3. PICK c \in Nat, b \in Nat, d \in 0..(BlockSize - 1) : c = Count /\ d = datalen /\ b = c + 1 /\ b - 1 = c
  <2>1. PICK c \in Nat, d \in 0..(BlockSize - 1) : c = Count /\ d = datalen
    BY NumbersAre DEF BlockSize
  <2>2. c + 1 \in Nat /\ (c + 1) - 1 = c
    OBVIOUS
  <2> QED
    BY <2>1, <2>2
<1>4. Len(message) = BlockSize * c + d /\ d >= Room /\ i = Len(message)
  BY <1>1, <1>2, <1>3 DEF PaddedSoFar, Counted, Remaining, FitsLength, Room, BlockSize
<1>5. data' = Block(message, b)
  <2>1. \A k \in 1..BlockSize : PaddedTo(BlockSize)[k] = Padding(message)[BlockSize * (b - 1) + k]
    <3>1. PICK end \in {56, 64} : end = BlockSize /\ end = IF FitsLength THEN Room ELSE BlockSize
      BY <1>1 DEF BlockSize
    <3>2. \A k \in 1..end : PaddedTo(end)[k] = Padding(message)[64 * Count + k]
      BY <1>1, <3>1, PaddedToIs
    <3> QED
      BY <1>3, <3>1, <3>2 DEF BlockSize
  <2>2. PaddedTo(BlockSize) = [k \in 1..BlockSize |-> PaddedTo(BlockSize)[k]]
    BY DEF PaddedTo
  <2>3. PICK bytes : bytes = PaddedTo(BlockSize)
    OBVIOUS
  <2>4. bytes = Block(message, b)
    <3>1. /\ bytes = [k \in 1..BlockSize |-> bytes[k]]
          /\ \A k \in 1..BlockSize : bytes[k] = Padding(message)[BlockSize * (b - 1) + k]
      BY <2>1, <2>2, <2>3
    <3> QED
      BY <3>1 DEF Block
  <2> QED
    BY <1>1, <2>3, <2>4
<1>6. /\ transformed' = [k \in 1..b |-> Block(message, k)]
      /\ Len(transformed') = b /\ transformed'[b] = data'
  <2>1. transformed = [k \in 1..c |-> Block(message, k)]
    BY <1>3, NumbersAre
  <2> QED
    BY <1>1, <1>3, <1>5, <2>1, BlocksAppend
<1>7. Count' = b /\ b \in 1..Blocks(message)
  <2>1. Blocks(message) = c + 2
    BY <1>3, <1>4, BlocksAre DEF StageIs
  <2> QED
    BY <1>3, <1>6, <2>1 DEF Count
<1>8. StageIs'
  BY <1>1, <1>6, <1>7 DEF StageIs
<1>9. BlocksSoFar'
  <2>1. data' = [k \in 1..BlockSize |-> data'[k]]
    BY <1>5 DEF Block
  <2>2. Count' \in 0..Blocks(message)'
    BY <1>1, <1>7
  <2>3. transformed' = [k \in 1..Count' |-> Block(message', k)]
    BY <1>1, <1>6, <1>7
  <2> QED
    BY <2>1, <2>2, <2>3 DEF BlocksSoFar
<1>10. Counted'
  BY <1>1, <1>2 DEF PaddedSoFar, Counted
<1>11. Remaining'
  <2>1. datalen' >= Room /\ BlockSize * (Count' - 1) + datalen' = i'
    BY <1>1, <1>3, <1>4, <1>7
  <2> QED
    BY <1>2, <2>1 DEF Remaining
<1> QED
  BY <1>8, <1>9, <1>10, <1>11 DEF PaddedSoFar

LEMMA ClearBlockKeeps ==
  ASSUME StageIs, PaddedSoFar, ClearBlock
  PROVE  StageIs' /\ PaddedSoFar'
<1>1. /\ stage = "clear" /\ data' = Cleared /\ stage' = "length"
      /\ UNCHANGED <<message, i, datalen, bitlen, transformed>>
  BY DEF ClearBlock
<1>2. Caller = "clear" /\ Caller' = "length" /\ Count' = Count
  BY <1>1 DEF Caller, Count
<1>3. PICK b \in Nat, N \in Nat, d \in 0..63 : b = Count /\ d = datalen /\ N = Len(message)
  BY NumbersAre
<1>4. d >= 56 /\ 64 * (b - 1) + d = N
  BY <1>2, <1>3 DEF PaddedSoFar, Counted, Remaining, Room, BlockSize
<1>5. PICK c \in Nat : c = b - 1 /\ b = c + 1
  BY <1>4
<1>6. Zeros(Len(message)) = 119 - d /\ Blocks(message) = c + 2
  <2>1. d \in 0..(BlockSize - 1) /\ Len(message) = BlockSize * c + d /\ d >= Room /\ message \in Message
    BY <1>3, <1>4, <1>5 DEF BlockSize, Room, StageIs
  <2> QED
    BY <2>1, BlocksAre
<1>7. \A k \in 1..56 : Padding(message)[64 * Count + k] = 0
  <2> SUFFICES ASSUME NEW k \in 1..56 PROVE Padding(message)[64 * Count + k] = 0
    OBVIOUS
  <2>1. PICK z \in Nat : z = Zeros(Len(message)) /\ z = 119 - d
    BY <1>6
  <2>2. PaddedAs(Padding(message), message, N, z)
    BY <1>3, <2>1, PaddingIs DEF StageIs
  <2>3. PICK a \in Nat : a = 64 * c
    OBVIOUS
  <2>4. a + d = N /\ 64 * Count = a + 64
    BY <1>3, <1>4, <1>5, <2>3
  <2>5. PICK p \in Nat : p = a + 64 + k
    OBVIOUS
  <2>6. p \in (N + 2)..(N + 1 + z)
    BY <2>1, <2>4, <2>5
  <2>7. Padding(message)[p] = 0
    BY <2>2, <2>6 DEF PaddedAs
  <2> QED
    BY <2>4, <2>5, <2>7
<1>8. data' = [k \in 1..64 |-> data'[k]] /\ \A k \in 1..56 : data'[k] = 0
  BY <1>1 DEF Cleared, BlockSize, Room
<1>9. StageIs'
  BY <1>1 DEF StageIs
<1>10. BlocksSoFar'
  BY <1>1, <1>2, <1>8 DEF PaddedSoFar, BlocksSoFar, BlockSize
<1>11. Counted'
  BY <1>1, <1>2 DEF PaddedSoFar, Counted
<1>12. Remaining'
  <2>1. Buffered(Room)'
    BY <1>1, <1>2, <1>7, <1>8 DEF Buffered, BlockSize, Room
  <2>2. 64 * (Count + 1) = Len(Padding(message))
    <3>1. Len(Padding(message)) = 64 * (c + 2)
      BY <1>6, NumbersAre
    <3>2. Count + 1 = c + 2
      BY <1>3, <1>5
    <3> QED
      BY <3>1, <3>2
  <2> QED
    BY <1>1, <1>2, <2>1, <2>2 DEF Remaining, BlockSize
<1> QED
  BY <1>9, <1>10, <1>11, <1>12 DEF PaddedSoFar

LEMMA AppendLengthKeeps ==
  ASSUME StageIs, PaddedSoFar, AppendLength
  PROVE  StageIs' /\ PaddedSoFar'
<1>1. /\ stage = "length" /\ bitlen' = bitlen + 8 * datalen /\ stage' = "transform"
      /\ data' = [k \in 1..64 |-> IF k <= 56 THEN data[k] ELSE ByteOf(bitlen', 64 - k)]
      /\ after' = "digest" /\ transformed' = Append(transformed, data')
      /\ UNCHANGED <<message, i, datalen>>
  BY DEF AppendLength, Transform, BlockSize, Room
<1>2. Caller = "length" /\ Caller' = "digest"
  BY <1>1 DEF Caller
<1>3. PICK c \in Nat, b \in Nat, N \in Nat, d \in 0..63 :
        c = Count /\ d = datalen /\ b = c + 1 /\ b - 1 = c /\ N = Len(message)
  <2>1. PICK c \in Nat, d \in 0..63, N \in Nat : c = Count /\ d = datalen /\ N = Len(message)
    BY NumbersAre
  <2>2. c + 1 \in Nat /\ (c + 1) - 1 = c
    OBVIOUS
  <2> QED
    BY <2>1, <2>2
<1>4. /\ i = N /\ bitlen = 8 * (N - d) /\ 64 * b = Len(Padding(message))
      /\ \A k \in 1..56 : data[k] = Padding(message)[64 * c + k]
  BY <1>2, <1>3 DEF PaddedSoFar, Counted, Remaining, Buffered, Room, BlockSize
<1>5. bitlen' = 8 * N
  BY <1>1, <1>3, <1>4
<1>6. ASSUME NEW k \in 1..64
      PROVE  data'[k] = Padding(message)[64 * c + k]
  <2>1. CASE k <= 56
    <3>1. k \in 1..56
      BY <2>1
    <3>2. data'[k] = data[k]
      BY <1>1, <2>1
    <3> QED
      BY <1>4, <3>1, <3>2
  <2>2. CASE ~(k <= 56)
    <3>1. PICK j \in 1..8 : j = k - 56 /\ 64 - k = 8 - j
      BY <2>2
    <3>2. data'[k] = ByteOf(8 * N, 8 - j)
      BY <1>1, <1>5, <2>2, <3>1
    <3>3. PICK z \in Nat : z = Zeros(N)
      BY DEF Zeros, Room, BlockSize
    <3>4. PaddedAs(Padding(message), message, N, z)
      BY <1>3, <3>3, PaddingIs DEF StageIs
    <3>5. Padding(message)[N + 1 + z + j] = ByteOf(8 * N, 8 - j) /\ 64 * b = N + 1 + z + 8
      BY <1>4, <3>4 DEF PaddedAs
    <3>6. N + 1 + z + j = 64 * c + k
      <4>1. PICK e \in Nat : e = N + 1 + z
        OBVIOUS
      <4>2. 64 * b = e + 8
        BY <3>5, <4>1
      <4>3. e + j = 64 * c + k
        BY <1>3, <3>1, <4>2
      <4> QED
        BY <4>1, <4>3
    <3> QED
      BY <3>2, <3>5, <3>6
  <2> QED
    BY <2>1, <2>2
<1>7. data' = Block(message, b)
  <2>1. PICK bytes : bytes = data'
    OBVIOUS
  <2>2. /\ bytes = [k \in 1..BlockSize |-> bytes[k]]
        /\ \A k \in 1..BlockSize : bytes[k] = Padding(message)[BlockSize * (b - 1) + k]
    BY <1>1, <1>3, <1>6, <2>1 DEF BlockSize
  <2>3. bytes = Block(message, b)
    BY <2>2 DEF Block
  <2> QED
    BY <2>1, <2>3
<1>8. /\ transformed' = [k \in 1..b |-> Block(message, k)]
      /\ Len(transformed') = b /\ transformed'[b] = data'
  <2>1. transformed = [k \in 1..c |-> Block(message, k)]
    BY <1>3, NumbersAre
  <2> QED
    <3>1. transformed' = Append(transformed, Block(message, c + 1)) /\ data' = Block(message, c + 1)
      BY <1>1, <1>3, <1>7
    <3>2. /\ transformed' = [k \in 1..(c + 1) |-> Block(message, k)]
          /\ Len(transformed') = c + 1 /\ transformed'[c + 1] = data'
      BY <2>1, <3>1, BlocksAppend
    <3> QED
      BY <1>3, <3>2
<1>9. Count' = b /\ b = Blocks(message) /\ b > 0
  <2>1. 64 * b = 64 * Blocks(message) /\ Blocks(message) \in Nat
    BY <1>4, NumbersAre
  <2> QED
    BY <1>3, <1>8, <2>1 DEF Count
<1>10. StageIs'
  BY <1>1, <1>8, <1>9 DEF StageIs
<1>11. BlocksSoFar'
  <2>1. data' = [k \in 1..BlockSize |-> data'[k]]
    BY <1>7 DEF Block
  <2>2. Count' \in 0..Blocks(message)'
    BY <1>1, <1>3, <1>9
  <2>3. transformed' = [k \in 1..Count' |-> Block(message', k)]
    BY <1>1, <1>8, <1>9
  <2> QED
    BY <2>1, <2>2, <2>3 DEF BlocksSoFar
<1>12. Counted'
  BY <1>1, <1>2 DEF PaddedSoFar, Counted
<1>13. Remaining'
  BY <1>1, <1>2, <1>9 DEF Remaining
<1> QED
  BY <1>10, <1>11, <1>12, <1>13 DEF PaddedSoFar

LEMMA DigestKeeps ==
  ASSUME StageIs, PaddedSoFar, Digest
  PROVE  StageIs' /\ PaddedSoFar'
<1>1. /\ stage = "digest" /\ stage' = "done"
      /\ UNCHANGED <<message, i, data, datalen, bitlen, transformed>>
  BY DEF Digest
<1>2. Caller = "digest" /\ Caller' = "done" /\ Count' = Count
  BY <1>1 DEF Caller, Count
<1>3. StageIs'
  BY <1>1 DEF StageIs
<1>4. BlocksSoFar'
  BY <1>1, <1>2 DEF PaddedSoFar, BlocksSoFar
<1>5. Counted'
  BY <1>1, <1>2 DEF PaddedSoFar, Counted
<1>6. Remaining'
  BY <1>1, <1>2 DEF PaddedSoFar, Remaining
<1> QED
  BY <1>3, <1>4, <1>5, <1>6 DEF PaddedSoFar

(* In a transform: its block, the state before it, and what is to come of   *)
(* them.                                                                    *)
LEMMA Compressing ==
  ASSUME StageIs, PaddedSoFar, ChainedSoFar, stage = "transform"
  PROVE  /\ Count \in 1..Blocks(message)
         /\ data \in BlockOfBytes
         /\ state \in EightWords
         /\ Schedules(WordsOf, data, 63)
         /\ TakesRounds(RoundsOf, state, WordsOf)
         /\ AddEach(RoundsOf[64], state) = Chain(message)[Count]
<1>1. PICK m \in Message : m = message
  BY DEF StageIs
<1>2. PICK w \in Nat, b \in Nat : w = Blocks(m) /\ b = Count /\ b > 0 /\ b <= w
  BY <1>1, NumbersAre DEF StageIs
<1>3. PICK block : block = Block(m, b) /\ block \in BlockOfBytes
  BY <1>2, BlockIs DEF BlockOfBytes
<1>4. data = block
  <2>1. transformed = [k \in 1..b |-> Block(m, k)]
    BY <1>1, <1>2, NumbersAre
  <2>2. transformed[b] = Block(m, b)
    BY <1>2, <2>1
  <2> QED
    BY <1>2, <1>3, <2>2 DEF StageIs
<1>5. PICK s \in EightWords : s = state /\ s = Chain(m)[b - 1] /\ Chain(m)[b] = Compression(s, block)
  <2>1. b - 1 \in 0..w /\ b \in 1..w
    BY <1>2
  <2>2. Chain(m)[b - 1] \in EightWords /\ Chain(m)[b] = Compression(Chain(m)[b - 1], block)
    BY <1>2, <1>3, <2>1, ChainIs
  <2>3. state = Chain(m)[b - 1]
    BY <1>1, <1>2 DEF ChainedSoFar
  <2> QED
    BY <2>2, <2>3
<1>6. PICK v : v = WordsOf /\ v = Schedule(block)
  BY <1>1, <1>2, <1>3 DEF WordsOf
<1>7. Schedules(v, block, 63)
  BY <1>3, <1>6, ScheduleIs
<1>8. PICK r : r = RoundsOf /\ r = Rounds(s, v)
  BY <1>5, <1>6 DEF RoundsOf
<1>9. TakesRounds(r, s, v)
  BY <1>7, <1>8, RoundsAre DEF Schedules
<1>10. AddEach(r[64], s) = Chain(m)[b]
  BY <1>5, <1>6, <1>8 DEF Compression
<1> QED
  BY <1>1, <1>2, <1>3, <1>4, <1>5, <1>6, <1>7, <1>8, <1>9, <1>10

(* The two vectors of the state, and the state of the two vectors.          *)
LEMMA HalvesAre ==
  ASSUME NEW s \in EightWords
  PROVE  /\ <<Quad(s, 0), Quad(s, 1)>> = Halves(s)
         /\ Halves(s)[1] \o Halves(s)[2] = s
<1>1. /\ s \in [1..8 -> Word] /\ \A j \in 1..8 : s[j] \in Word
  BY DEF EightWords
<1>2. s \in Seq(Word) /\ Len(s) = 8
  <2>1. [1..8 -> Word] \in {[1..l -> Word] : l \in Nat}
    OBVIOUS
  <2>2. [1..8 -> Word] \subseteq Seq(Word)
    BY <2>1, SeqDef
  <2> QED
    BY <1>1, <2>2
<1>3. PICK p, q : p = Quad(s, 0) /\ q = Quad(s, 1)
  OBVIOUS
<1>4. p = SubSeq(s, 1, 4) /\ q = SubSeq(s, 5, 8)
  BY <1>3 DEF Quad
<1>5. /\ p \in Seq(Word) /\ Len(p) = 4 /\ p[1] = s[1] /\ p[2] = s[2] /\ p[3] = s[3] /\ p[4] = s[4]
      /\ q \in Seq(Word) /\ Len(q) = 4 /\ q[1] = s[5] /\ q[2] = s[6] /\ q[3] = s[7] /\ q[4] = s[8]
  <2>1. (\A j \in 1..4 : s[j] \in Word) /\ (\A j \in 5..8 : s[j] \in Word)
    BY <1>1
  <2>2. /\ p \in Seq(Word) /\ Len(p) = 4 - 1 + 1
        /\ \A j \in 1..(4 - 1 + 1) : p[j] = s[1 + j - 1]
    <3>1. /\ SubSeq(s, 1, 4) \in Seq(Word)
          /\ Len(SubSeq(s, 1, 4)) = IF 1 <= 4 THEN 4 - 1 + 1 ELSE 0
          /\ \A j \in 1..(4 - 1 + 1) : SubSeq(s, 1, 4)[j] = s[1 + j - 1]
      BY <2>1, SubSeqProperties
    <3> QED
      BY <1>4, <3>1
  <2>3. /\ q \in Seq(Word) /\ Len(q) = 8 - 5 + 1
        /\ \A j \in 1..(8 - 5 + 1) : q[j] = s[5 + j - 1]
    <3>1. /\ SubSeq(s, 5, 8) \in Seq(Word)
          /\ Len(SubSeq(s, 5, 8)) = IF 5 <= 8 THEN 8 - 5 + 1 ELSE 0
          /\ \A j \in 1..(8 - 5 + 1) : SubSeq(s, 5, 8)[j] = s[5 + j - 1]
      BY <2>1, SubSeqProperties
    <3> QED
      BY <1>4, <3>1
  <2>4. p[1] = s[1] /\ p[2] = s[2] /\ p[3] = s[3] /\ p[4] = s[4]
    BY <2>2
  <2>5. q[1] = s[5] /\ q[2] = s[6] /\ q[3] = s[7] /\ q[4] = s[8]
    BY <2>3
  <2> QED
    BY <2>2, <2>3, <2>4, <2>5
<1>6. p = <<s[1], s[2], s[3], s[4]>> /\ q = <<s[5], s[6], s[7], s[8]>>
  BY <1>5
<1>7. PICK t : t = p \o q
  OBVIOUS
<1>8. t \in Seq(Word) /\ Len(t) = 8
  <2>1. p \o q \in Seq(Word) /\ Len(p \o q) = Len(p) + Len(q)
    BY <1>5, ConcatProperties
  <2> QED
    BY <1>5, <1>7, <2>1
<1>9. \A j \in 1..8 : t[j] = IF j <= 4 THEN p[j] ELSE q[j - 4]
  <2>1. \A j \in 1..(Len(p) + Len(q)) : (p \o q)[j] = IF j <= Len(p) THEN p[j] ELSE q[j - Len(p)]
    BY <1>5, ConcatProperties
  <2>2. Len(p) = 4 /\ Len(q) = 4 /\ Len(p) + Len(q) = 8
    BY <1>5
  <2> QED
    BY <1>7, <2>1, <2>2
<1>10. \A j \in 1..8 : t[j] = s[j]
  <2>1. /\ t[1] = p[1] /\ t[2] = p[2] /\ t[3] = p[3] /\ t[4] = p[4]
        /\ t[5] = q[5 - 4] /\ t[6] = q[6 - 4] /\ t[7] = q[7 - 4] /\ t[8] = q[8 - 4]
    BY <1>9
  <2> QED
    BY <1>5, <2>1
<1>11. t = s
  BY <1>2, <1>8, <1>10, SeqEqual
<1> QED
  BY <1>3, <1>6, <1>7, <1>11 DEF Halves

LEMMA FourRounds ==
  ASSUME StageIs, PaddedSoFar, ChainedSoFar, stage = "transform",
         n \in 0..15, n > 0 => cur = Halves(RoundsOf[4 * n]),
         NEW old, old = IF n = 0 THEN <<Quad(state, 0), Quad(state, 1)>> ELSE cur,
         NEW x, x = Vector(WordsOf, n)
  PROVE  Hashed(old, AddEach(x, Quad(K, n))) = Halves(RoundsOf[4 * (n + 1)])
<1>0. PICK q \in 0..15 : q = n
  OBVIOUS
<1>1. PICK w, r, s : w = WordsOf /\ r = RoundsOf /\ s = state /\ q = n
  BY <1>0
<1>2. /\ s \in EightWords /\ w \in [0..63 -> Word] /\ TakesRounds(r, s, w)
  BY <1>1, Compressing DEF Schedules
<1>3. old = Halves(r[4 * q])
  <2>1. CASE n = 0
    <3>1. r[0] = s /\ 4 * q = 0
      BY <1>1, <1>2, <2>1 DEF TakesRounds
    <3>2. <<Quad(s, 0), Quad(s, 1)>> = Halves(s)
      BY <1>2, HalvesAre
    <3>3. old = <<Quad(s, 0), Quad(s, 1)>>
      BY <1>1, <2>1
    <3> QED
      BY <3>1, <3>2, <3>3
  <2>2. CASE n # 0
    <3>1. n > 0
      BY <1>1, <2>2
    <3> QED
      BY <1>1, <2>2, <3>1
  <2> QED
    BY <2>1, <2>2
<1>4. PICK v : v = AddEach(x, Quad(K, q))
  OBVIOUS
<1>5. x = <<w[4 * q], w[4 * q + 1], w[4 * q + 2], w[4 * q + 3]>>
  BY <1>1 DEF Vector
<1>6. ASSUME NEW j \in 1..4
      PROVE  v[j] = Add(w[4 * q + j - 1], K[4 * q + j])
  <2>1. Len(x) = 4
    BY <1>5
  <2>2. v[j] = Add(x[j], Quad(K, q)[j])
    BY <1>4, <2>1 DEF AddEach
  <2>3. x[j] = w[4 * q + j - 1]
    <3>1. j = 1 \/ j = 2 \/ j = 3 \/ j = 4
      OBVIOUS
    <3>2. /\ 4 * q + 1 - 1 = 4 * q /\ 4 * q + 2 - 1 = 4 * q + 1
          /\ 4 * q + 3 - 1 = 4 * q + 2 /\ 4 * q + 4 - 1 = 4 * q + 3
      OBVIOUS
    <3> QED
      BY <1>5, <3>1, <3>2
  <2>4. Quad(K, q)[j] = K[4 * q + j]
    <3>1. 4 * q + 4 <= Len(K) /\ q \in Nat /\ K \in Seq(Word)
      BY ConstantsSeq
    <3> QED
      BY <3>1, QuadIs
  <2> QED
    BY <2>2, <2>3, <2>4
<1>7. Hashed(old, v) = Halves(r[4 * q + 4])
  <2>1. \A j \in 1..4 : v[j] = Add(w[4 * q + j - 1], K[4 * q + j])
    BY <1>6
  <2> QED
    BY <1>2, <1>3, <2>1, HashedIs
<1>8. 4 * (q + 1) = 4 * q + 4
  OBVIOUS
<1> QED
  BY <1>1, <1>4, <1>7, <1>8

(* What the loops of the transform leave alone.                             *)
LEMMA InContextKeeps ==
  ASSUME StageIs, PaddedSoFar, ChainedSoFar, HashedSoFar, InContext,
         UNCHANGED <<method, hashes>>
  PROVE  /\ StageIs' /\ PaddedSoFar' /\ ChainedSoFar' /\ HashedSoFar'
         /\ WordsOf' = WordsOf /\ RoundsOf' = RoundsOf
<1>1. UNCHANGED <<message, i, data, datalen, bitlen, state, transformed, stage, after, hash, hashes>>
  BY DEF InContext, ctxVars
<1>2. Count' = Count /\ Caller' = Caller /\ \A l : Buffered(l)' = Buffered(l)
  BY <1>1 DEF Count, Caller, Buffered
<1>3. StageIs'
  BY <1>1, <1>2 DEF StageIs
<1>4. PaddedSoFar'
  <2>1. BlocksSoFar'
    BY <1>1, <1>2 DEF PaddedSoFar, BlocksSoFar
  <2>2. Counted'
    BY <1>1, <1>2 DEF PaddedSoFar, Counted
  <2>3. Remaining'
    BY <1>1, <1>2 DEF PaddedSoFar, Remaining, Buffered
  <2> QED
    BY <2>1, <2>2, <2>3 DEF PaddedSoFar
<1>5. ChainedSoFar'
  BY <1>1, <1>2 DEF ChainedSoFar
<1>6. HashedSoFar'
  BY <1>1 DEF HashedSoFar
<1>7. WordsOf' = WordsOf
  BY <1>1, <1>2 DEF WordsOf
<1>8. RoundsOf' = RoundsOf
  BY <1>1, <1>7 DEF RoundsOf
<1> QED
  BY <1>3, <1>4, <1>5, <1>6, <1>7, <1>8

LEMMA NeonScheduleKeeps ==
  ASSUME Inv, NeonSchedule, UNCHANGED method, WordsOf' = WordsOf, RoundsOf' = RoundsOf
  PROVE  CompressedSoFar'
<1>1. /\ stage = "transform" /\ method = "neon" /\ Len(sched) < 16 /\ n' = n /\ cur' = cur
      /\ stage' = "transform" /\ method' = "neon"
  BY DEF NeonSchedule, Transforming, InContext, ctxVars
<1>2. NeonSoFar
  BY <1>1 DEF Inv, CompressedSoFar, Transforming
<1>10. PICK l \in 0..15 : l = Len(sched)
  <2>1. PICK k \in 0..16 : k = Len(sched)
    BY <1>2 DEF NeonSoFar
  <2>2. Len(sched) < 16
    BY <1>1
  <2>3. k < 16
    BY <2>1, <2>2
  <2>4. k \in 0..15
    BY <2>3
  <2> QED
    BY <2>1, <2>4
<1>3. PICK w : l = Len(sched) /\ w = WordsOf
  BY <1>10
<1>4. n = 0
  BY <1>1, <1>2, <1>3 DEF NeonSoFar
<1>5. sched = [q \in 1..l |-> Vector(w, q - 1)]
  BY <1>2, <1>3 DEF NeonSoFar
<1>6. Schedules(w, data, 63)
  BY <1>1, <1>3, Compressing DEF Inv
<1>7. sched' = Append(sched, Vector(w, l))
  <2>1. CASE l < 4
    <3>1. LoadQuad(l) = Vector(w, l)
      BY <1>6, <2>1, FirstVectors
    <3> QED
      BY <1>3, <2>1, <3>1 DEF NeonSchedule
  <2>2. CASE ~(l < 4)
    <3>1. l - 3 \in 1..l /\ l - 2 \in 1..l /\ l - 1 \in 1..l /\ l \in 1..l /\ l \in 4..15
      BY <2>2
    <3>2. (l - 3) - 1 = l - 4 /\ (l - 2) - 1 = l - 3 /\ (l - 1) - 1 = l - 2
      OBVIOUS
    <3>3. /\ sched[l - 3] = Vector(w, l - 4) /\ sched[l - 2] = Vector(w, l - 3)
          /\ sched[l - 1] = Vector(w, l - 2) /\ sched[l] = Vector(w, l - 1)
      BY <1>5, <3>1, <3>2
    <3>4. vsha256su1q(vsha256su0q(sched[l - 3], sched[l - 2]), sched[l - 1], sched[l]) = Vector(w, l)
      BY <1>6, <3>1, <3>3, NextVector
    <3>5. sched' = Append(sched, vsha256su1q(vsha256su0q(sched[l - 3], sched[l - 2]),
                                             sched[l - 1], sched[l]))
      BY <1>3, <2>2 DEF NeonSchedule
    <3> QED
      BY <3>4, <3>5
  <2> QED
    BY <2>1, <2>2
<1>8. sched' = [q \in 1..(l + 1) |-> Vector(w, q - 1)] /\ Len(sched') = l + 1
  <2>1. PICK f : f = [q \in 1..(l + 1) |-> Vector(w, q - 1)]
    OBVIOUS
  <2>2. f[l + 1] = Vector(w, l) /\ sched = [q \in 1..l |-> f[q]] /\ f = [q \in 1..(l + 1) |-> f[q]]
    <3>1. l + 1 \in 1..(l + 1) /\ (l + 1) - 1 = l
      OBVIOUS
    <3>2. f[l + 1] = Vector(w, l)
      BY <2>1, <3>1
    <3>3. \A q \in 1..l : f[q] = Vector(w, q - 1)
      BY <2>1
    <3> QED
      BY <1>5, <2>1, <3>2, <3>3
  <2>3. Append(sched, f[l + 1]) = [q \in 1..(l + 1) |-> f[q]]
    BY <2>2, ListAppend
  <2>4. sched' = f
    BY <1>7, <2>2, <2>3
  <2> QED
    BY <2>1, <2>4
<1>9. NeonSoFar'
  BY <1>1, <1>3, <1>4, <1>8 DEF NeonSoFar
<1> QED
  BY <1>1, <1>9 DEF CompressedSoFar, Transforming

LEMMA NeonHashKeeps ==
  ASSUME Inv, NeonHash, UNCHANGED method, WordsOf' = WordsOf, RoundsOf' = RoundsOf
  PROVE  CompressedSoFar'
<1>1. /\ stage = "transform" /\ method = "neon" /\ Len(sched) = 16 /\ n < 16
      /\ n' = n + 1 /\ sched' = sched /\ stage' = "transform" /\ method' = "neon"
  BY DEF NeonHash, Transforming, InContext, ctxVars
<1>2. NeonSoFar
  BY <1>1 DEF Inv, CompressedSoFar, Transforming
<1>3. n \in 0..15 /\ (n > 0 => cur = Halves(RoundsOf[4 * n]))
  BY <1>1, <1>2 DEF NeonSoFar
<1>4. PICK old : old = IF n = 0 THEN <<Quad(state, 0), Quad(state, 1)>> ELSE cur
  OBVIOUS
<1>5. PICK x : x = sched[n + 1]
  OBVIOUS
<1>6. x = Vector(WordsOf, n)
  <2>1. PICK q \in 1..16 : q = n + 1 /\ q - 1 = n
    BY <1>3
  <2>2. sched = [k \in 1..16 |-> Vector(WordsOf, k - 1)]
    BY <1>1, <1>2 DEF NeonSoFar
  <2> QED
    BY <1>5, <2>1, <2>2
<1>7. cur' = Hashed(old, AddEach(x, Quad(K, n)))
  BY <1>4, <1>5 DEF NeonHash
<1>8. Hashed(old, AddEach(x, Quad(K, n))) = Halves(RoundsOf[4 * (n + 1)])
  BY <1>1, <1>3, <1>4, <1>6, FourRounds DEF Inv
<1>9. NeonSoFar'
  <2>1. n' \in 0..16
    BY <1>1, <1>3
  <2>2. cur' = Halves(RoundsOf'[4 * n'])
    BY <1>1, <1>7, <1>8
  <2>3. Len(sched)' \in 0..16 /\ sched' = [q \in 1..Len(sched') |-> Vector(WordsOf', q - 1)]
    BY <1>1, <1>2 DEF NeonSoFar
  <2> QED
    BY <1>1, <2>1, <2>2, <2>3 DEF NeonSoFar
<1> QED
  BY <1>1, <1>9 DEF CompressedSoFar, Transforming

LEMMA RolledHashKeeps ==
  ASSUME Inv, RolledHash, UNCHANGED method, WordsOf' = WordsOf, RoundsOf' = RoundsOf
  PROVE  CompressedSoFar'
<1>1. /\ stage = "transform" /\ method = "rolled" /\ n < 16
      /\ n' = n + 1 /\ stage' = "transform" /\ method' = "rolled"
  BY DEF RolledHash, Transforming, InContext, ctxVars
<1>2. RolledSoFar
  BY <1>1 DEF Inv, CompressedSoFar, Transforming
<1>3. n \in 0..15 /\ (n > 0 => cur = Halves(RoundsOf[4 * n]))
  BY <1>1, <1>2 DEF RolledSoFar
<1>4. PICK w : w = WordsOf
  OBVIOUS
<1>5. /\ sched = [q \in 1..(IF n < 4 THEN n ELSE 4) |-> sched[q]]
      /\ \A q \in 0..(n - 1) : q + 4 >= n => sched[(q % 4) + 1] = Vector(w, q)
  BY <1>2, <1>4 DEF RolledSoFar
<1>6. Schedules(w, data, 63)
  BY <1>1, <1>4, Compressing DEF Inv
<1>7. /\ sched' = [q \in 1..(IF n + 1 < 4 THEN n + 1 ELSE 4) |-> sched'[q]]
      /\ \A q \in 0..n : q + 4 >= n + 1 => sched'[(q % 4) + 1] = Vector(w, q)
  <2>1. CASE n < 4
    <3>1. sched' = Append(sched, Vector(w, n))
      <4>1. n \in 0..3
        BY <1>3, <2>1
      <4>2. LoadQuad(n) = Vector(w, n)
        BY <1>6, <4>1, FirstVectors
      <4> QED
        BY <2>1, <4>2 DEF RolledHash
    <3>2. PICK k \in 0..3 : k = n
      BY <1>3, <2>1
    <3>3. sched = [q \in 1..k |-> sched[q]]
      BY <1>5, <2>1, <3>2
    <3>4. \A q \in 1..k : sched[q] = Vector(w, q - 1)
      <4> SUFFICES ASSUME NEW q \in 1..k PROVE sched[q] = Vector(w, q - 1)
        OBVIOUS
      <4>1. q - 1 \in 0..(n - 1) /\ (q - 1) + 4 >= n /\ ((q - 1) % 4) + 1 = q
        BY <3>2
      <4>2. \A p \in 0..(n - 1) : p + 4 >= n => sched[(p % 4) + 1] = Vector(w, p)
        BY <1>5
      <4> QED
        BY <4>1, <4>2
    <3>5. PICK f : f = [q \in 1..(k + 1) |-> Vector(w, q - 1)]
      OBVIOUS
    <3>6. f[k + 1] = Vector(w, k) /\ sched = [q \in 1..k |-> f[q]] /\ f = [q \in 1..(k + 1) |-> f[q]]
      <4>1. k + 1 \in 1..(k + 1) /\ (k + 1) - 1 = k
        OBVIOUS
      <4>2. f[k + 1] = Vector(w, k)
        BY <3>5, <4>1
      <4>3. \A q \in 1..k : f[q] = Vector(w, q - 1)
        BY <3>5
      <4> QED
        BY <3>3, <3>4, <3>5, <4>2, <4>3
    <3>7. Append(sched, f[k + 1]) = [q \in 1..(k + 1) |-> f[q]]
      BY <3>6, ListAppend
    <3>8. sched' = f
      BY <3>1, <3>2, <3>6, <3>7
    <3>9. (IF n + 1 < 4 THEN n + 1 ELSE 4) = k + 1
      BY <3>2
    <3>10. ASSUME NEW q \in 0..n
           PROVE  sched'[(q % 4) + 1] = Vector(w, q)
      <4>1. q % 4 = q /\ q + 1 \in 1..(k + 1) /\ (q + 1) - 1 = q
        BY <3>2
      <4> QED
        BY <3>5, <3>8, <4>1
    <3> QED
      BY <3>6, <3>8, <3>9, <3>10
  <2>2. CASE ~(n < 4)
    <3>1. PICK k \in 4..15 : k = n
      BY <1>3, <2>2
    <3>2. sched = [q \in 1..4 |-> sched[q]]
      BY <1>5, <2>2
    <3>3. sched' = [sched EXCEPT ![(k % 4) + 1] = Rolled(sched)]
      BY <2>2, <3>1 DEF RolledHash
    <3>4. Rolled(sched) = Vector(w, k)
      <4>1. ASSUME NEW j \in 0..3
            PROVE  sched[((k + j) % 4) + 1] = Vector(w, k - 4 + j)
        <5>1. PICK q \in 0..(n - 1) : q = k - 4 + j /\ q + 4 >= n
          BY <3>1
        <5>2. q % 4 = (k + j) % 4
          BY <5>1
        <5> QED
          BY <1>5, <5>1, <5>2
      <4>2. PICK s0, s1, s2, s3 :
              /\ s0 = sched[((k + 0) % 4) + 1] /\ s1 = sched[((k + 1) % 4) + 1]
              /\ s2 = sched[((k + 2) % 4) + 1] /\ s3 = sched[((k + 3) % 4) + 1]
        OBVIOUS
      <4>3. /\ s0 = Vector(w, k - 4) /\ s1 = Vector(w, k - 3)
            /\ s2 = Vector(w, k - 2) /\ s3 = Vector(w, k - 1)
        <5>1. /\ k - 4 + 0 = k - 4 /\ k - 4 + 1 = k - 3 /\ k - 4 + 2 = k - 2 /\ k - 4 + 3 = k - 1
          OBVIOUS
        <5>2. /\ s0 = Vector(w, k - 4 + 0) /\ s1 = Vector(w, k - 4 + 1)
              /\ s2 = Vector(w, k - 4 + 2) /\ s3 = Vector(w, k - 4 + 3)
          BY <4>1, <4>2
        <5> QED
          BY <5>1, <5>2
      <4>4. Rolled(sched) = vsha256su1q(vsha256su0q(s0, s1), s2, s3)
        BY <3>1, <4>2 DEF Rolled
      <4> QED
        BY <1>6, <4>3, <4>4, NextVector
    <3>5. (k % 4) + 1 \in 1..4
      OBVIOUS
    <3>6. /\ sched' = [q \in 1..4 |-> sched'[q]]
          /\ sched'[(k % 4) + 1] = Vector(w, k)
          /\ \A q \in 1..4 : q # (k % 4) + 1 => sched'[q] = sched[q]
      BY <3>2, <3>3, <3>4, <3>5
    <3>7. ASSUME NEW q \in 0..n, q + 4 >= n + 1
          PROVE  sched'[(q % 4) + 1] = Vector(w, q)
      <4>1. CASE q = n
        BY <3>1, <3>6, <4>1
      <4>2. CASE q # n
        <5>1. q \in 0..(n - 1) /\ q + 4 >= n
          BY <3>1, <3>7, <4>2
        <5>2. (q % 4) + 1 \in 1..4 /\ q % 4 # k % 4
          BY <3>1, <3>7, <4>2
        <5>3. sched'[(q % 4) + 1] = sched[(q % 4) + 1]
          BY <3>6, <5>2
        <5> QED
          BY <1>5, <5>1, <5>3
      <4> QED
        BY <4>1, <4>2
    <3>8. (IF n + 1 < 4 THEN n + 1 ELSE 4) = 4
      BY <3>1
    <3> QED
      BY <3>6, <3>7, <3>8
  <2> QED
    BY <2>1, <2>2
<1>8. PICK old : old = IF n = 0 THEN <<Quad(state, 0), Quad(state, 1)>> ELSE cur
  OBVIOUS
<1>9. PICK x : x = sched'[(n % 4) + 1] /\ x = Vector(w, n)
  <2>1. n \in 0..n /\ n + 4 >= n + 1
    BY <1>3
  <2> QED
    BY <1>7, <2>1
<1>10. cur' = Hashed(old, AddEach(x, Quad(K, n)))
  BY <1>8, <1>9 DEF RolledHash
<1>11. Hashed(old, AddEach(x, Quad(K, n))) = Halves(RoundsOf[4 * (n + 1)])
  BY <1>1, <1>3, <1>4, <1>8, <1>9, FourRounds DEF Inv
<1>12. RolledSoFar'
  <2>1. n' \in 0..16 /\ n' - 1 = n
    BY <1>1, <1>3
  <2>2. cur' = Halves(RoundsOf'[4 * n'])
    BY <1>1, <1>10, <1>11
  <2>3. sched' = [q \in 1..(IF n' < 4 THEN n' ELSE 4) |-> sched'[q]]
    BY <1>1, <1>7
  <2>4. \A q \in 0..(n' - 1) : q + 4 >= n' => sched'[(q % 4) + 1] = Vector(WordsOf', q)
    BY <1>1, <1>4, <1>7, <2>1
  <2> QED
    BY <2>1, <2>2, <2>3, <2>4 DEF RolledSoFar
<1> QED
  BY <1>1, <1>12 DEF CompressedSoFar, Transforming

(* A transform that returns what the last round left has done its block.    *)
LEMMA ReturnKeeps ==
  ASSUME Inv, stage = "transform", Return(RoundsOf[64]), UNCHANGED <<method, hashes>>
  PROVE  Inv'
<1>1. /\ state' = AddEach(RoundsOf[64], state) /\ stage' = after
      /\ n' = 0 /\ sched' = << >> /\ cur' = << >>
      /\ UNCHANGED <<message, i, data, datalen, bitlen, transformed, after, hash>>
  BY DEF Return
<1>2. after \in {"update", "clear", "digest"}
  BY DEF Inv, StageIs
<1>3. Count' = Count /\ Caller' = Caller /\ Caller = after
  BY <1>1, <1>2 DEF Count, Caller
<1>4. StageIs'
  BY <1>1, <1>2 DEF Inv, StageIs
<1>5. PaddedSoFar'
  <2>1. BlocksSoFar'
    BY <1>1, <1>3 DEF Inv, PaddedSoFar, BlocksSoFar
  <2>2. Counted'
    BY <1>1, <1>3 DEF Inv, PaddedSoFar, Counted
  <2>3. Remaining'
    BY <1>1, <1>3 DEF Inv, PaddedSoFar, Remaining, Buffered
  <2> QED
    BY <2>1, <2>2, <2>3 DEF PaddedSoFar
<1>6. ChainedSoFar'
  <2>1. AddEach(RoundsOf[64], state) = Chain(message)[Count]
    BY Compressing DEF Inv
  <2>2. state' = Chain(message')[Count']
    BY <1>1, <1>3, <2>1
  <2>3. stage' # "transform"
    BY <1>1, <1>2
  <2> QED
    BY <2>2, <2>3 DEF ChainedSoFar
<1>7. CompressedSoFar'
  <2>1. stage' # "transform" /\ method' \in {"neon", "rolled", "scalar"}
    BY <1>1, <1>2 DEF Inv, CompressedSoFar
  <2> QED
    BY <1>1, <2>1 DEF CompressedSoFar, Transforming
<1>8. HashedSoFar'
  BY <1>1, <1>2 DEF Inv, HashedSoFar
<1> QED
  BY <1>4, <1>5, <1>6, <1>7, <1>8 DEF Inv

LEMMA NeonReturnKeeps ==
  ASSUME Inv, NeonReturn, UNCHANGED <<method, hashes>>
  PROVE  Inv'
<1>1. stage = "transform" /\ n = 16 /\ Return(cur[1] \o cur[2]) /\ method \in {"neon", "rolled"}
  BY DEF NeonReturn
<1>2. cur = Halves(RoundsOf[64])
  <2>1. 4 * n = 64 /\ n > 0
    BY <1>1
  <2>2. NeonSoFar \/ RolledSoFar
    BY <1>1 DEF Inv, CompressedSoFar, Transforming
  <2>3. cur = Halves(RoundsOf[4 * n])
    BY <2>1, <2>2 DEF NeonSoFar, RolledSoFar
  <2> QED
    BY <2>1, <2>3
<1>3. RoundsOf[64] \in EightWords
  BY <1>1, Compressing DEF Inv, TakesRounds
<1>4. cur[1] \o cur[2] = RoundsOf[64]
  BY <1>2, <1>3, HalvesAre
<1>5. Return(RoundsOf[64])
  BY <1>1, <1>4
<1> QED
  BY <1>1, <1>5, ReturnKeeps

LEMMA ScalarScheduleKeeps ==
  ASSUME Inv, ScalarSchedule, UNCHANGED method, WordsOf' = WordsOf, RoundsOf' = RoundsOf
  PROVE  CompressedSoFar'
<1>1. /\ stage = "transform" /\ method = "scalar" /\ Len(sched) < 64 /\ n' = n /\ cur' = cur
      /\ stage' = "transform" /\ method' = "scalar"
  BY DEF ScalarSchedule, Transforming, InContext, ctxVars
<1>2. ScalarSoFar
  BY <1>1 DEF Inv, CompressedSoFar, Transforming
<1>3. PICK l \in 0..63 : l = Len(sched)
  <2>1. PICK k \in 0..64 : k = Len(sched)
    BY <1>2 DEF ScalarSoFar
  <2>2. Len(sched) < 64
    BY <1>1
  <2>3. k < 64
    BY <2>1, <2>2
  <2>4. k \in 0..63
    BY <2>3
  <2> QED
    BY <2>1, <2>4
<1>4. PICK w : w = WordsOf
  OBVIOUS
<1>5. n = 0
  <2>1. n \in 0..64 /\ (n > 0 => Len(sched) = 64)
    BY <1>2 DEF ScalarSoFar
  <2>2. l # 64
    OBVIOUS
  <2>3. n > 0 => l = 64
    BY <1>3, <2>1
  <2> QED
    BY <2>1, <2>2, <2>3
<1>6. sched = [t \in 1..l |-> w[t - 1]]
  BY <1>2, <1>3, <1>4 DEF ScalarSoFar
<1>7. \A t \in 0..63 : w[t] = IF t < 16 THEN Loaded(data, t) ELSE Stretched(w, t)
  BY <1>1, <1>4, Compressing DEF Inv, Schedules
<1>8. sched' = Append(sched, w[l])
  <2>1. CASE l < 16
    <3>1. w[l] = BigEndian(data, 4 * l + 1)
      BY <1>7, <2>1 DEF Loaded
    <3> QED
      BY <1>3, <2>1, <3>1 DEF ScalarSchedule
  <2>2. CASE ~(l < 16)
    <3>1. l - 1 \in 1..l /\ l - 6 \in 1..l /\ l - 14 \in 1..l /\ l - 15 \in 1..l
      BY <2>2
    <3>2. (l - 1) - 1 = l - 2 /\ (l - 6) - 1 = l - 7 /\ (l - 14) - 1 = l - 15 /\ (l - 15) - 1 = l - 16
      OBVIOUS
    <3>3. /\ sched[l - 1] = w[l - 2] /\ sched[l - 6] = w[l - 7]
          /\ sched[l - 14] = w[l - 15] /\ sched[l - 15] = w[l - 16]
      BY <1>6, <3>1, <3>2
    <3>4. Add4(SIG1(sched[l - 1]), sched[l - 6], SIG0(sched[l - 14]), sched[l - 15]) = w[l]
      BY <1>7, <2>2, <3>3 DEF Stretched
    <3>5. sched' = Append(sched, Add4(SIG1(sched[l - 1]), sched[l - 6],
                                      SIG0(sched[l - 14]), sched[l - 15]))
      BY <1>3, <2>2 DEF ScalarSchedule
    <3> QED
      BY <3>4, <3>5
  <2> QED
    BY <2>1, <2>2
<1>9. sched' = [t \in 1..(l + 1) |-> w[t - 1]] /\ Len(sched') = l + 1
  <2>1. PICK f : f = [t \in 1..(l + 1) |-> w[t - 1]]
    OBVIOUS
  <2>2. f[l + 1] = w[l] /\ sched = [t \in 1..l |-> f[t]] /\ f = [t \in 1..(l + 1) |-> f[t]]
    <3>1. l + 1 \in 1..(l + 1) /\ (l + 1) - 1 = l
      OBVIOUS
    <3>2. f[l + 1] = w[l]
      BY <2>1, <3>1
    <3>3. \A t \in 1..l : f[t] = w[t - 1]
      BY <2>1
    <3> QED
      BY <1>6, <2>1, <3>2, <3>3
  <2>3. Append(sched, f[l + 1]) = [t \in 1..(l + 1) |-> f[t]]
    <3>1. sched = [b \in 1..l |-> f[b]]
      BY <2>2
    <3>2. Append(sched, f[l + 1]) = [b \in 1..(l + 1) |-> f[b]]
      BY <3>1, ListAppend
    <3> QED
      BY <3>2
  <2>4. sched' = f
    BY <1>8, <2>2, <2>3
  <2> QED
    BY <2>1, <2>4
<1>10. ScalarSoFar'
  <2>1. Len(sched') \in 0..64
    <3>1. PICK k \in 0..64 : k = l + 1
      OBVIOUS
    <3> QED
      BY <1>9, <3>1
  <2>2. sched' = [t \in 1..Len(sched') |-> WordsOf'[t - 1]]
    BY <1>4, <1>9
  <2>3. n' = 0 /\ n' \in 0..64
    BY <1>1, <1>5
  <2>4. ~(n' > 0)
    BY <2>3
  <2> QED
    BY <2>1, <2>2, <2>3, <2>4 DEF ScalarSoFar
<1> QED
  BY <1>1, <1>10 DEF CompressedSoFar, Transforming

LEMMA ScalarHashKeeps ==
  ASSUME Inv, ScalarHash, UNCHANGED method, WordsOf' = WordsOf, RoundsOf' = RoundsOf
  PROVE  CompressedSoFar'
<1>1. /\ stage = "transform" /\ method = "scalar" /\ Len(sched) = 64 /\ n < 64
      /\ n' = n + 1 /\ sched' = sched /\ stage' = "transform" /\ method' = "scalar"
  BY DEF ScalarHash, Transforming, InContext, ctxVars
<1>2. ScalarSoFar
  BY <1>1 DEF Inv, CompressedSoFar, Transforming
<1>3. n \in 0..63 /\ (n > 0 => cur = RoundsOf[n])
  BY <1>1, <1>2 DEF ScalarSoFar
<1>4. PICK k \in 0..63 : k = n
  BY <1>3
<1>5. PICK old : old = IF n = 0 THEN state ELSE cur
  OBVIOUS
<1>6. PICK w, r, s : w = WordsOf /\ r = RoundsOf /\ s = state
  OBVIOUS
<1>7. TakesRounds(r, s, w)
  BY <1>1, <1>6, Compressing DEF Inv
<1>8. old = r[k]
  <2>1. CASE n = 0
    BY <1>4, <1>5, <1>6, <1>7, <2>1 DEF TakesRounds
  <2>2. CASE n # 0
    BY <1>3, <1>4, <1>5, <1>6, <2>2
  <2> QED
    BY <2>1, <2>2
<1>9. sched[k + 1] = w[k]
  <2>1. sched = [t \in 1..64 |-> w[t - 1]]
    BY <1>1, <1>2, <1>6 DEF ScalarSoFar
  <2>2. k + 1 \in 1..64 /\ (k + 1) - 1 = k
    OBVIOUS
  <2> QED
    BY <2>1, <2>2
<1>10. cur' = ScalarRound(r[k], K[k + 1], w[k])
  BY <1>4, <1>5, <1>8, <1>9 DEF ScalarHash
<1>11. r[k + 1] = ScalarRound(r[k], K[k + 1], w[k])
  <2>1. PICK t \in 1..64 : t = k + 1 /\ t - 1 = k
    OBVIOUS
  <2> QED
    BY <1>7, <2>1 DEF TakesRounds
<1>12. ScalarSoFar'
  <2>1. n' \in 0..64 /\ n' = k + 1
    BY <1>1, <1>4
  <2>2. cur' = RoundsOf'[n']
    BY <1>6, <1>10, <1>11, <2>1
  <2>3. Len(sched') \in 0..64 /\ sched' = [t \in 1..Len(sched') |-> WordsOf'[t - 1]]
    BY <1>1, <1>2 DEF ScalarSoFar
  <2> QED
    BY <1>1, <2>1, <2>2, <2>3 DEF ScalarSoFar
<1> QED
  BY <1>1, <1>12 DEF CompressedSoFar, Transforming

LEMMA ScalarReturnKeeps ==
  ASSUME Inv, ScalarReturn, UNCHANGED <<method, hashes>>
  PROVE  Inv'
<1>1. stage = "transform" /\ n = 64 /\ Return(cur) /\ method = "scalar"
  BY DEF ScalarReturn, Transforming
<1>2. cur = RoundsOf[64]
  <2>1. ScalarSoFar
    BY <1>1 DEF Inv, CompressedSoFar, Transforming
  <2> QED
    BY <1>1, <2>1 DEF ScalarSoFar
<1> QED
  BY <1>1, <1>2, ReturnKeeps

(* Before its first step, a transform has done nothing.                     *)
LEMMA NoRounds ==
  ASSUME n' = 0, sched' = << >>
  PROVE  NeonSoFar' /\ RolledSoFar' /\ ScalarSoFar'
<1>1. Len(sched') = 0
  OBVIOUS
<1>2. NeonSoFar'
  BY <1>1 DEF NeonSoFar
<1>3. RolledSoFar'
  BY <1>1 DEF RolledSoFar
<1>4. ScalarSoFar'
  BY <1>1 DEF ScalarSoFar
<1> QED
  BY <1>2, <1>3, <1>4

(* The stages between the transforms: each leaves the buffer as the next    *)
(* one needs it, and starts a transform with the buffer or none.            *)
LEMMA AbsorbKeeps ==
  ASSUME StageIs, PaddedSoFar, Absorb
  PROVE  /\ StageIs' /\ PaddedSoFar'
         /\ stage # "transform" /\ UNCHANGED <<message, state>>
         /\ \/ stage' # "transform" /\ transformed' = transformed
            \/ stage' = "transform" /\ transformed' = Append(transformed, data')
         /\ stage' = "done" => stage = "digest" /\ hash' = DigestBytes(state)
<1>1. CASE Update
  <2>1. StageIs' /\ PaddedSoFar'
    BY <1>1, UpdateKeeps
  <2>2. CASE BlockFull
    <3>1. stage' = "transform" /\ transformed' = Append(transformed, data')
      BY <1>1, <2>2 DEF Update, Transform
    <3> QED
      BY <1>1, <2>1, <3>1 DEF Update
  <2>3. CASE ~BlockFull
    <3>1. stage' = stage /\ transformed' = transformed
      BY <1>1, <2>3 DEF Update
    <3> QED
      BY <1>1, <2>1, <3>1 DEF Update
  <2> QED
    BY <2>2, <2>3
<1>2. CASE UpdateEnd
  BY <1>2, UpdateEndKeeps DEF UpdateEnd
<1>3. CASE PadOneBlock
  BY <1>3, PadOneBlockKeeps DEF PadOneBlock
<1>4. CASE PadTwoBlocks
  <2>1. StageIs' /\ PaddedSoFar'
    BY <1>4, PadTwoBlocksKeeps
  <2>2. stage' = "transform" /\ transformed' = Append(transformed, data')
    BY <1>4 DEF PadTwoBlocks, Transform
  <2> QED
    BY <1>4, <2>1, <2>2 DEF PadTwoBlocks
<1>5. CASE ClearBlock
  BY <1>5, ClearBlockKeeps DEF ClearBlock
<1>6. CASE AppendLength
  <2>1. StageIs' /\ PaddedSoFar'
    BY <1>6, AppendLengthKeeps
  <2>2. stage' = "transform" /\ transformed' = Append(transformed, data')
    BY <1>6 DEF AppendLength, Transform
  <2> QED
    BY <1>6, <2>1, <2>2 DEF AppendLength
<1>7. CASE Digest
  BY <1>7, DigestKeeps DEF Digest
<1> QED
  BY <1>1, <1>2, <1>3, <1>4, <1>5, <1>6, <1>7 DEF Absorb

LEMMA HashKeeps ==
  ASSUME Inv, Hash, UNCHANGED <<method, hashes>>
  PROVE  Inv'
<1>1. /\ StageIs' /\ PaddedSoFar'
      /\ stage # "transform" /\ UNCHANGED <<message, state>>
      /\ \/ stage' # "transform" /\ transformed' = transformed
         \/ stage' = "transform" /\ transformed' = Append(transformed, data')
      /\ stage' = "done" => stage = "digest" /\ hash' = DigestBytes(state)
  BY AbsorbKeeps DEF Inv, Hash
<1>2. n' = n /\ sched' = sched /\ cur' = cur
  BY DEF Hash, runVars
<1>3. PICK c \in Nat : c = Count /\ transformed = [b \in 1..c |-> Block(message, b)]
  BY NumbersAre DEF Inv
<1>4. state = Chain(message)[c]
  BY <1>1, <1>3 DEF Inv, ChainedSoFar
<1>5. ChainedSoFar'
  <2>1. CASE stage' # "transform" /\ transformed' = transformed
    <3>1. Count' = c
      BY <1>3, <2>1 DEF Count
    <3> QED
      BY <1>1, <1>4, <2>1, <3>1 DEF ChainedSoFar
  <2>2. CASE stage' = "transform" /\ transformed' = Append(transformed, data')
    <3>1. PICK f : f = [b \in 1..(c + 1) |-> IF b = c + 1 THEN data' ELSE transformed[b]]
      OBVIOUS
    <3>2. f[c + 1] = data'
      <4>1. c + 1 \in 1..(c + 1)
        OBVIOUS
      <4> QED
        BY <3>1, <4>1
    <3>3. transformed = [b \in 1..c |-> f[b]]
      <4>1. \A b \in 1..c : f[b] = transformed[b]
        BY <3>1
      <4>2. transformed = [b \in 1..c |-> transformed[b]]
        BY <1>3
      <4> QED
        BY <4>1, <4>2
    <3>4. Append(transformed, data') = [b \in 1..(c + 1) |-> f[b]]
      BY <3>2, <3>3, ListAppend
    <3>5. transformed' = [b \in 1..(c + 1) |-> f[b]]
      BY <2>2, <3>4
    <3>6. Len([b \in 1..(c + 1) |-> f[b]]) = c + 1
      OBVIOUS
    <3>7. Count' = c + 1
      BY <3>5, <3>6 DEF Count
    <3>8. Count' - 1 = c
      BY <3>7
    <3> QED
      BY <1>1, <1>4, <2>2, <3>8 DEF ChainedSoFar
  <2> QED
    BY <1>1, <2>1, <2>2
<1>6. n' = 0 /\ sched' = << >> /\ cur' = << >> /\ method' \in {"neon", "rolled", "scalar"}
  BY <1>1, <1>2 DEF Inv, CompressedSoFar
<1>7. CompressedSoFar'
  BY <1>6, NoRounds DEF CompressedSoFar
<1>8. HashedSoFar'
  <2>1. stage' = "done" => hash' = SHA256(message')
    <3> SUFFICES ASSUME stage' = "done"
                 PROVE  hash' = SHA256(message')
      OBVIOUS
    <3>1. stage = "digest" /\ hash' = DigestBytes(state)
      BY <1>1
    <3>2. c = Blocks(message)
      BY <1>3, <3>1 DEF Inv, PaddedSoFar, Remaining, Caller
    <3> QED
      BY <1>1, <1>4, <3>1, <3>2 DEF SHA256
  <2>2. \A k \in 1..Len(hashes) : hashes[k] = SHA256(message)
    BY DEF Inv, HashedSoFar
  <2> QED
    BY <1>1, <2>1, <2>2 DEF HashedSoFar
<1> QED
  BY <1>1, <1>5, <1>7, <1>8 DEF Inv

(* A fresh context has the invariant: nothing taken, nothing transformed.   *)
LEMMA FreshContext ==
  ContextInit => StageIs /\ PaddedSoFar /\ ChainedSoFar /\ stage = "update"
<1> SUFFICES ASSUME ContextInit
             PROVE  StageIs /\ PaddedSoFar /\ ChainedSoFar /\ stage = "update"
  OBVIOUS
<1>1. /\ message \in Message /\ i = 0 /\ datalen = 0 /\ bitlen = 0 /\ state = InitialState
      /\ data = [k \in 1..BlockSize |-> Unset] /\ transformed = << >> /\ stage = "update"
  BY DEF ContextInit, Context
<1>2. Len(message) \in Nat /\ Blocks(message) \in Nat
  BY <1>1, MessageIs, WholeBlocks
<1>3. Count = 0 /\ Caller = "update"
  BY <1>1 DEF Count, Caller
<1>4. StageIs
  BY <1>1 DEF StageIs
<1>5. BlocksSoFar
  <2>1. data = [k \in 1..BlockSize |-> data[k]]
    BY <1>1
  <2>2. transformed = [b \in 1..0 |-> Block(message, b)]
    BY <1>1
  <2> QED
    BY <1>2, <1>3, <2>1, <2>2 DEF BlocksSoFar
<1>6. Counted
  <2>1. 0 \in 0..(BlockSize - 1) /\ 0 \in 0..Len(message) /\ 8 * (0 - 0) = 0
    BY <1>2 DEF BlockSize
  <2> QED
    BY <1>1, <1>3, <2>1 DEF Counted
<1>7. Remaining
  <2>1. BlockSize * 0 + 0 = 0
    BY DEF BlockSize
  <2>2. Buffered(0)
    BY DEF Buffered
  <2> QED
    BY <1>1, <1>3, <2>1, <2>2 DEF Remaining
<1>8. ChainedSoFar
  BY <1>1, <1>3, ChainIs DEF ChainedSoFar
<1> QED
  BY <1>1, <1>4, <1>5, <1>6, <1>7, <1>8 DEF PaddedSoFar

LEMMA InitInv == Init => Inv
<1> SUFFICES ASSUME Init
             PROVE  Inv
  OBVIOUS
<1>1. ContextInit /\ method = "neon" /\ n = 0 /\ sched = << >> /\ cur = << >> /\ hashes = << >>
  BY DEF Init
<1>2. StageIs /\ PaddedSoFar /\ ChainedSoFar /\ stage = "update"
  BY <1>1, FreshContext
<1>3. CompressedSoFar
  BY <1>1, <1>2 DEF CompressedSoFar, Transforming
<1>4. HashedSoFar
  BY <1>1, <1>2 DEF HashedSoFar
<1> QED
  BY <1>2, <1>3, <1>4 DEF Inv

(* The same data once more, from the beginning: one more hash, and a fresh  *)
(* context.                                                                 *)
LEMMA NextMethodKeeps ==
  ASSUME Inv, NextMethod
  PROVE  Inv'
<1>1. /\ stage = "done" /\ method \in {"neon", "rolled", "scalar"}
      /\ n = 0 /\ sched = << >> /\ cur = << >>
      /\ hash = SHA256(message) /\ message \in Message
      /\ \A k \in 1..Len(hashes) : hashes[k] = SHA256(message)
  BY DEF NextMethod, Inv, CompressedSoFar, HashedSoFar, StageIs
<1>2. /\ message' = message /\ hashes' = Append(hashes, hash)
      /\ method' \in {"rolled", "scalar"}
      /\ n' = 0 /\ sched' = << >> /\ cur' = << >>
  BY <1>1 DEF NextMethod, ContextReset, runVars
<1>3. ContextInit'
  BY <1>1 DEF NextMethod, ContextReset, ContextInit
<1>4. (StageIs /\ PaddedSoFar /\ ChainedSoFar /\ stage = "update")'
  BY <1>3, FreshContext, PTL
<1>5. CompressedSoFar'
  BY <1>2, <1>4 DEF CompressedSoFar, Transforming
<1>6. HashedSoFar'
  BY <1>1, <1>2, <1>4 DEF HashedSoFar
<1> QED
  BY <1>4, <1>5, <1>6 DEF Inv

(* Every hash made is the SHA-256 of the message, and on the way there the  *)
(* context, the schedule and the rounds are those of FIPS 180-4: for every  *)
(* message, by each of the three compression functions.                     *)
THEOREM HashInvariance == Spec => []Inv
<1>1. ASSUME Inv, [Next]_vars
      PROVE  Inv'
  <2>1. ASSUME Compress, UNCHANGED <<method, hashes>>
        PROVE  Inv'
    <3>1. ASSUME InContext, CompressedSoFar'
          PROVE  Inv'
      BY <2>1, <3>1, InContextKeeps, <1>1 DEF Inv
    <3>2. ASSUME InContext
          PROVE  WordsOf' = WordsOf /\ RoundsOf' = RoundsOf
      BY <2>1, <3>2, InContextKeeps, <1>1 DEF Inv
    <3>3. CASE NeonSchedule
      <4>1. InContext
        BY <3>3 DEF NeonSchedule
      <4>2. CompressedSoFar'
        BY <1>1, <2>1, <3>2, <3>3, <4>1, NeonScheduleKeeps
      <4> QED
        BY <3>1, <4>1, <4>2
    <3>4. CASE NeonHash
      <4>1. InContext
        BY <3>4 DEF NeonHash
      <4>2. CompressedSoFar'
        BY <1>1, <2>1, <3>2, <3>4, <4>1, NeonHashKeeps
      <4> QED
        BY <3>1, <4>1, <4>2
    <3>5. CASE RolledHash
      <4>1. InContext
        BY <3>5 DEF RolledHash
      <4>2. CompressedSoFar'
        BY <1>1, <2>1, <3>2, <3>5, <4>1, RolledHashKeeps
      <4> QED
        BY <3>1, <4>1, <4>2
    <3>6. CASE NeonReturn
      BY <1>1, <2>1, <3>6, NeonReturnKeeps
    <3>7. CASE ScalarSchedule
      <4>1. InContext
        BY <3>7 DEF ScalarSchedule
      <4>2. CompressedSoFar'
        BY <1>1, <2>1, <3>2, <3>7, <4>1, ScalarScheduleKeeps
      <4> QED
        BY <3>1, <4>1, <4>2
    <3>8. CASE ScalarHash
      <4>1. InContext
        BY <3>8 DEF ScalarHash
      <4>2. CompressedSoFar'
        BY <1>1, <2>1, <3>2, <3>8, <4>1, ScalarHashKeeps
      <4> QED
        BY <3>1, <4>1, <4>2
    <3>9. CASE ScalarReturn
      BY <1>1, <2>1, <3>9, ScalarReturnKeeps
    <3> QED
      BY <2>1, <3>3, <3>4, <3>5, <3>6, <3>7, <3>8, <3>9 DEF Compress
  <2>2. ASSUME Hash, UNCHANGED <<method, hashes>>
        PROVE  Inv'
    BY <1>1, <2>2, HashKeeps
  <2>3. CASE NextMethod
    BY <1>1, <2>3, NextMethodKeeps
  <2>4. CASE UNCHANGED vars
    <3>1. InContext /\ UNCHANGED <<method, hashes, n, sched, cur>>
      BY <2>4 DEF vars, InContext, runVars
    <3>2. /\ StageIs' /\ PaddedSoFar' /\ ChainedSoFar' /\ HashedSoFar'
          /\ WordsOf' = WordsOf /\ RoundsOf' = RoundsOf /\ stage' = stage
      BY <1>1, <3>1, InContextKeeps DEF Inv, InContext, ctxVars
    <3>3. CompressedSoFar'
      <4>1. NeonSoFar => NeonSoFar'
        BY <3>1, <3>2 DEF NeonSoFar
      <4>2. RolledSoFar => RolledSoFar'
        BY <3>1, <3>2 DEF RolledSoFar
      <4>3. ScalarSoFar => ScalarSoFar'
        BY <3>1, <3>2 DEF ScalarSoFar
      <4> QED
        BY <1>1, <3>1, <3>2, <4>1, <4>2, <4>3 DEF Inv, CompressedSoFar, Transforming
    <3> QED
      BY <3>2, <3>3 DEF Inv
  <2> QED
    BY <1>1, <2>1, <2>2, <2>3, <2>4 DEF Next
<1> QED
  BY <1>1, InitInv, PTL DEF Spec
-----------------------------------------------------------------------------
(* What is hashed is the padded message *)

(* A part of a sequence by its elements.                                    *)
LEMMA PartIs ==
  ASSUME NEW S, NEW u, NEW a \in Nat, NEW l \in Nat,
         \A k \in 1..l : u[a + k] \in S
  PROVE  SubSeq(u, a + 1, a + l) = [k \in 1..l |-> u[a + k]]
<1>1. PICK p \in Int, q \in Int : p = a + 1 /\ q = a + l
  OBVIOUS
<1>2. ASSUME NEW k \in p..q
      PROVE  u[k] \in S
  <2>1. PICK j \in 1..l : a + j = k
    <3>1. k - a \in 1..l /\ a + (k - a) = k
      BY <1>1
    <3> QED
      BY <3>1
  <2> QED
    BY <2>1
<1>3. q - p + 1 = l /\ (IF p <= q THEN q - p + 1 ELSE 0) = l
  BY <1>1
<1>4. PICK t : t = SubSeq(u, p, q)
  OBVIOUS
<1>5. /\ t \in Seq(S) /\ Len(t) = l
      /\ \A k \in 1..l : t[k] = u[p + k - 1]
  BY <1>2, <1>3, <1>4, SubSeqProperties
<1>6. \A k \in 1..l : p + k - 1 = a + k
  BY <1>1
<1>7. t = [k \in 1..l |-> t[k]]
  BY <1>5
<1>8. t = [k \in 1..l |-> u[a + k]]
  BY <1>5, <1>6, <1>7
<1> QED
  BY <1>1, <1>4, <1>8

(* One after the other, the blocks are the padded message.                  *)
LEMMA BlocksAreThePadding ==
  ASSUME NEW m \in Message, NEW N \in Nat, N <= Blocks(m),
         NEW parts, parts = [b \in 1..N |-> Block(m, b)]
  PROVE  FlattenSeq(parts) = SubSeq(Padding(m), 1, 64 * N)
<1>1. PICK W \in Nat, L \in Nat : W = Blocks(m) /\ L = Len(Padding(m)) /\ L = 64 * W /\ N <= W
  BY WholeBlocks DEF BlockSize
<1>2. PICK text \in Seq(ByteValue) : text = Padding(m) /\ Len(text) = L
  BY <1>1, PaddingIs DEF PaddedAs
<1>3. ASSUME NEW b \in 1..N, NEW a \in Nat, a = 64 * (b - 1)
      PROVE  /\ parts[b] = SubSeq(text, a + 1, a + 64) /\ a + 64 <= L
             /\ SubSeq(text, 1, a) \o SubSeq(text, a + 1, a + 64) = SubSeq(text, 1, a + 64)
  <2>1. a + 64 <= L
    BY <1>1, <1>3
  <2>2. parts[b] = [k \in 1..64 |-> text[a + k]]
    BY <1>2, <1>3 DEF Block, BlockSize
  <2>3. \A k \in 1..64 : text[a + k] \in ByteValue
    <3> SUFFICES ASSUME NEW k \in 1..64 PROVE text[a + k] \in ByteValue
      OBVIOUS
    <3>1. PICK j \in 1..L : j = a + k
      BY <2>1
    <3> QED
      BY <1>2, <3>1, ElementOfSeq
  <2>4. SubSeq(text, a + 1, a + 64) = [k \in 1..64 |-> text[a + k]]
    <3>1. PICK l \in Nat : l = 64
      OBVIOUS
    <3>2. SubSeq(text, a + 1, a + l) = [k \in 1..l |-> text[a + k]]
      BY <2>3, <3>1, PartIs
    <3> QED
      BY <3>1, <3>2
  <2>5. SubSeq(text, 1, a) \o SubSeq(text, a + 1, a + 64) = SubSeq(text, 1, a + 64)
    <3>1. PICK e \in Nat : e = a + 64 /\ a <= e /\ e <= L
      BY <2>1
    <3>2. 1 \in 1..(Len(text) + 1) /\ a \in (1 - 1)..Len(text) /\ e \in a..Len(text)
      BY <1>2, <3>1
    <3>3. SubSeq(text, 1, a) \o SubSeq(text, a + 1, e) = SubSeq(text, 1, e)
      BY <3>2, ConcatAdjacentSubSeq
    <3> QED
      BY <3>1, <3>3
  <2> QED
    BY <2>1, <2>2, <2>4, <2>5
<1>4. CASE N = 0
  <2>1. Len(parts) = 0 /\ parts = << >>
    BY <1>4
  <2>2. SubSeq(text, 1, 0) = << >>
    BY SubSeqEmpty
  <2>3. 64 * N = 0
    BY <1>4
  <2> QED
    BY <1>2, <2>1, <2>2, <2>3 DEF FlattenSeq
<1>5. CASE N # 0
  <2> DEFINE body(f) == [j \in 1..N |-> IF j = 1 THEN parts[j] ELSE f[j - 1] \o parts[j]]
             upTo == [j \in 1..N |-> SubSeq(text, 1, 64 * j)]
             flat == CHOOSE f : f = body(f)
  <2>1. \A j \in 1..N : upTo[j] = SubSeq(text, 1, 64 * j)
    OBVIOUS
  <2>2. ASSUME NEW j \in 1..N
        PROVE  upTo[j] = IF j = 1 THEN parts[j] ELSE upTo[j - 1] \o parts[j]
    <3>1. PICK a \in Nat : a = 64 * (j - 1) /\ a + 64 = 64 * j
      OBVIOUS
    <3>2. /\ parts[j] = SubSeq(text, a + 1, a + 64)
          /\ SubSeq(text, 1, a) \o SubSeq(text, a + 1, a + 64) = SubSeq(text, 1, a + 64)
      BY <1>3, <3>1
    <3>3. upTo[j] = SubSeq(text, 1, a + 64)
      BY <2>1, <3>1
    <3> HIDE DEF upTo
    <3>4. CASE j = 1
      <4>1. a = 0 /\ a + 1 = 1
        BY <3>1, <3>4
      <4> QED
        BY <3>2, <3>3, <3>4, <4>1
    <3>5. CASE j # 1
      <4>1. PICK k \in 1..N : k = j - 1 /\ 64 * k = a
        BY <3>1, <3>5
      <4>2. upTo[k] = SubSeq(text, 1, a)
        BY <2>1, <4>1
      <4> QED
        BY <3>2, <3>3, <3>5, <4>1, <4>2
    <3> QED
      BY <3>4, <3>5
  <2>3. upTo = body(upTo)
    <3>1. upTo = [j \in 1..N |-> upTo[j]]
      OBVIOUS
    <3> HIDE DEF upTo
    <3> QED
      BY <2>2, <3>1
  <2>4. flat = body(flat)
    <3> HIDE DEF body, upTo
    <3> QED
      BY <2>3
  <2>5. FlattenSeq(parts) = flat[N]
    <3>1. Len(parts) = N
      OBVIOUS
    <3>2. Len(parts) # 0
      BY <1>5, <3>1
    <3> QED
      BY <3>1, <3>2 DEF FlattenSeq
  <2> HIDE DEF flat, upTo
  <2>6. \A j \in 1..N : flat[j] = IF j = 1 THEN parts[j] ELSE flat[j - 1] \o parts[j]
    BY <2>4
  <2> HIDE DEF body
  <2> DEFINE T == {j \in 0..N : j > 0 => flat[j] = upTo[j]}
  <2>7. 0 \in T
    OBVIOUS
  <2>8. ASSUME NEW j \in 0..(N - 1), j \in T
        PROVE  j + 1 \in T
    <3>1. PICK k \in 1..N : k = j + 1 /\ k - 1 = j
      OBVIOUS
    <3>2. flat[k] = upTo[k]
      <4>1. CASE k = 1
        <5>1. flat[k] = parts[k]
          BY <2>6, <4>1
        <5>2. upTo[k] = parts[k]
          BY <2>2, <4>1
        <5> QED
          BY <5>1, <5>2
      <4>2. CASE k # 1
        <5>1. flat[j] = upTo[j]
          BY <2>8, <3>1, <4>2
        <5>2. flat[k] = flat[j] \o parts[k]
          BY <2>6, <3>1, <4>2
        <5>3. upTo[k] = upTo[j] \o parts[k]
          BY <2>2, <3>1, <4>2
        <5> QED
          BY <5>1, <5>2, <5>3
      <4> QED
        BY <4>1, <4>2
    <3> QED
      BY <3>1, <3>2
  <2>9. flat[N] = upTo[N]
    <3>1. 0..N \subseteq T
      <4> HIDE DEF T
      <4> QED
        BY <2>7, <2>8, InductiveInterval
    <3> QED
      BY <1>5, <3>1
  <2> QED
    BY <1>2, <1>5, <2>1, <2>5, <2>9
<1> QED
  BY <1>4, <1>5

LEMMA InvHashesPadding == Inv => HashesPadding
<1> SUFFICES ASSUME Inv
             PROVE  HashesPadding
  OBVIOUS
<1>1. PICK m \in Message : m = message
  BY DEF Inv, StageIs
<1>2. PICK text \in Seq(ByteValue) : text = Padding(m)
  BY PaddingIs DEF PaddedAs
<1>3. PICK l \in Nat, L \in Nat : l = Len(m) /\ L = Len(text) /\ l <= L /\ \A k \in 1..l : text[k] = m[k]
  <2>1. Len(m) \in Nat /\ Len(text) \in Nat /\ Len(m) <= Len(text)
    BY <1>2, MessageIs, WholeBlocks
  <2>2. \A k \in 1..Len(m) : text[k] = m[k]
    BY <1>2, PaddingIs DEF PaddedAs
  <2> QED
    BY <2>1, <2>2
<1>4. PICK c \in Nat, d \in 0..63, e \in Nat, w \in Nat :
        /\ c = Count /\ d = datalen /\ e = i /\ w = Blocks(m)
        /\ c <= w /\ e <= l /\ L = 64 * w
  BY <1>1, <1>2, <1>3, NumbersAre DEF Inv
<1>5. FlattenSeq(transformed) = SubSeq(text, 1, 64 * c)
  BY <1>1, <1>2, <1>4, NumbersAre, BlocksAreThePadding DEF Inv
<1>6. CASE stage = "update"
  <2>1. 64 * c + d = e /\ bitlen = 8 * (i - datalen) /\ \A k \in 1..d : data[k] = text[64 * c + k]
    BY <1>1, <1>2, <1>4, <1>6 DEF Inv, PaddedSoFar, Counted, Remaining, Buffered, Caller, BlockSize
  <2>2. PICK a \in Nat : a = 64 * c /\ a + d = e /\ e <= L
    BY <1>3, <1>4, <2>1
  <2>3. \A k \in 1..d : text[a + k] \in ByteValue /\ data[k] = text[a + k]
    <3> SUFFICES ASSUME NEW k \in 1..d PROVE text[a + k] \in ByteValue /\ data[k] = text[a + k]
      OBVIOUS
    <3>1. PICK j \in 1..L : j = a + k
      BY <2>2
    <3>2. text[j] \in ByteValue
      BY <1>3, <3>1, ElementOfSeq
    <3> QED
      BY <2>1, <2>2, <3>1, <3>2
  <2>4. SubSeq(data, 1, d) = [k \in 1..d |-> data[k]]
    <3>1. PICK z \in Nat : z = 0 /\ z + 1 = 1 /\ z + d = d /\ \A k \in 1..d : z + k = k
      OBVIOUS
    <3>2. \A k \in 1..d : data[z + k] \in ByteValue
      BY <2>3, <3>1
    <3>3. SubSeq(data, z + 1, z + d) = [k \in 1..d |-> data[z + k]]
      BY <3>2, PartIs
    <3> QED
      BY <3>1, <3>3
  <2>5. SubSeq(text, a + 1, a + d) = [k \in 1..d |-> text[a + k]]
    <3>1. \A k \in 1..d : text[a + k] \in ByteValue
      BY <2>3
    <3> QED
      BY <3>1, PartIs
  <2>6. SubSeq(data, 1, d) = SubSeq(text, a + 1, e)
    BY <2>2, <2>3, <2>4, <2>5
  <2>7. SubSeq(text, 1, a) \o SubSeq(text, a + 1, e) = SubSeq(text, 1, e)
    <3>1. 1 \in 1..(Len(text) + 1) /\ a \in (1 - 1)..Len(text) /\ e \in a..Len(text)
      BY <1>3, <2>2
    <3> QED
      BY <3>1, ConcatAdjacentSubSeq
  <2>8. SubSeq(text, 1, e) = SubSeq(m, 1, e)
    <3>1. PICK z \in Nat : z = 0 /\ z + 1 = 1 /\ z + e = e /\ \A k \in 1..e : z + k = k
      OBVIOUS
    <3>2. \A k \in 1..e : text[k] = m[k] /\ text[k] \in ByteValue
      <4> SUFFICES ASSUME NEW k \in 1..e PROVE text[k] = m[k] /\ text[k] \in ByteValue
        OBVIOUS
      <4>1. k \in 1..l /\ k \in 1..L
        BY <1>3, <1>4
      <4> QED
        BY <1>3, <4>1, ElementOfSeq
    <3>3. SubSeq(text, z + 1, z + e) = [k \in 1..e |-> text[z + k]]
      BY <3>1, <3>2, PartIs
    <3>4. SubSeq(m, z + 1, z + e) = [k \in 1..e |-> m[z + k]]
      BY <3>1, <3>2, PartIs
    <3> QED
      BY <3>1, <3>2, <3>3, <3>4
  <2> QED
    BY <1>1, <1>4, <1>5, <1>6, <2>1, <2>2, <2>6, <2>7, <2>8 DEF HashesPadding
<1>7. CASE stage = "done"
  <2>1. c = w
    BY <1>1, <1>4, <1>7 DEF Inv, PaddedSoFar, Remaining, Caller
  <2>2. 64 * c = L
    BY <1>4, <2>1
  <2>3. SubSeq(text, 1, L) = text
    BY <1>3, SubSeqFull
  <2> QED
    BY <1>1, <1>2, <1>5, <1>7, <2>2, <2>3 DEF HashesPadding
<1> QED
  BY <1>6, <1>7 DEF HashesPadding

(* For every message of bytes: what goes through the compression function,  *)
(* block by block, is the message and the padding of FIPS 180-4, nothing of *)
(* the context's bytes; before the padding, blocks and buffer hold what has *)
(* been taken, and bitlen its whole blocks.                                 *)
THEOREM HashesThePadding == Spec => []HashesPadding
BY HashInvariance, InvHashesPadding, PTL

(* The vector code, unrolled or rolled up, and the plain code agree on      *)
(* every message.                                                           *)
THEOREM MethodsAgree == Spec => []HashesAgree
<1>1. Inv => HashesAgree
  BY DEF Inv, HashedSoFar, HashesAgree
<1> QED
  BY <1>1, HashInvariance, PTL

(* And what they agree on is SHA-256: each of the three computes the chain  *)
(* of compressions of FIPS 180-4 over the padded message.                   *)
THEOREM ComputesSHA256 == Spec => [](stage = "done" => hash = SHA256(message))
<1>1. Inv => (stage = "done" => hash = SHA256(message))
  BY DEF Inv, HashedSoFar
<1> QED
  BY <1>1, HashInvariance, PTL
=============================================================================

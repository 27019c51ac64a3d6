-------------------------- MODULE RobinHoodProofs --------------------------
(***************************************************************************)
(* Proofs about RobinHoodMap, for every set of keys, hash function, size   *)
(* of info bytes and load factor: the table stays sound (MapInvariance),   *)
(* so that searches come to the right slot and iterations to every key,    *)
(* and it implements a map (TableIsMap).  After the arithmetic come the    *)
(* searches, then each operation on a table, then the steps of a call, and *)
(* last what the table stands for.                                         *)
(***************************************************************************)
EXTENDS RobinHoodInvariant, Induction

-----------------------------------------------------------------------------
(* Powers of two and quotients *)

(* Power is the function that its definition says.                          *)
LEMMA PowerIs ==
  /\ Power[0] = 1
  /\ \A n \in Nat : Power[n + 1] = 2 * Power[n]
  /\ \A n \in Nat : Power[n] \in Nat /\ Power[n] > 0
<1> DEFINE body(f) == [n \in Nat |-> IF n = 0 THEN 1 ELSE 2 * f[n - 1]]
<1>1. PICK V, step : /\ V = Nat \ {0}
                     /\ step = [x \in Nat \X V |-> 2 * x[2]]
  OBVIOUS
<1>2. PICK f : IteratesOn(f, V, 1, step)
  <2>1. \A N \in Nat : IsStep(step, N, V)
    BY <1>1 DEF IsStep
  <2>2. 1 \in V
    BY <1>1
  <2> QED
    BY <2>1, <2>2, NaturalRecursion
<1>3. /\ f \in [Nat -> Nat \ {0}] /\ f[0] = 1
      /\ \A n \in Nat : f[n + 1] = 2 * f[n]
  <2>1. /\ f \in [Nat -> V] /\ f[0] = 1
        /\ \A n \in Nat : f[n + 1] = step[<<n + 1, f[n]>>]
    BY <1>2 DEF IteratesOn
  <2>2. ASSUME NEW n \in Nat PROVE f[n + 1] = 2 * f[n]
    <3>1. <<n + 1, f[n]>> \in Nat \X V
      BY <2>1
    <3> QED
      BY <1>1, <2>1, <3>1
  <2> QED
    BY <1>1, <2>1, <2>2
<1>4. f = body(f)
  <2>1. ASSUME NEW n \in Nat PROVE f[n] = IF n = 0 THEN 1 ELSE 2 * f[n - 1]
    <3>1. CASE n = 0
      BY <1>3, <3>1
    <3>2. CASE n # 0
      <4>1. n - 1 \in Nat /\ (n - 1) + 1 = n
        BY <3>2
      <4> QED
        BY <1>3, <3>2, <4>1
    <3> QED
      BY <3>1, <3>2
  <2> QED
    BY <1>3, <2>1
<1>5. Power = body(Power)
  <2>1. Power = CHOOSE g : g = body(g)
    BY DEF Power
  <2> HIDE DEF body
  <2> QED
    BY <1>4, <2>1
<1>6. \A n \in Nat : Power[n] = IF n = 0 THEN 1 ELSE 2 * Power[n - 1]
  BY <1>5
<1>7. Power[0] = 1 /\ \A n \in Nat : Power[n + 1] = 2 * Power[n]
  BY <1>6
<1> DEFINE T == {n \in Nat : Power[n] \in Nat /\ Power[n] > 0}
<1>8. Nat \subseteq T
  <2>1. 0 \in T /\ \A n \in Nat : n \in T => n + 1 \in T
    BY <1>7
  <2> HIDE DEF T
  <2> QED
    BY <2>1, InductiveSet
<1> QED
  BY <1>7, <1>8

LEMMA PowerSum ==
  ASSUME NEW a \in Nat, NEW b \in Nat
  PROVE  Power[a + b] = Power[a] * Power[b]
<1> DEFINE T == {n \in Nat : Power[a + n] = Power[a] * Power[n]}
<1>1. 0 \in T
  BY PowerIs
<1>2. ASSUME NEW n \in Nat, n \in T
      PROVE  n + 1 \in T
  <2>1. Power[n + 1] = 2 * Power[n] /\ Power[a + n + 1] = 2 * Power[a + n]
    BY PowerIs
  <2>2. Power[a] \in Nat /\ Power[n] \in Nat
    BY PowerIs
  <2>3. 2 * (Power[a] * Power[n]) = Power[a] * (2 * Power[n])
    BY <2>2
  <2>4. a + (n + 1) = a + n + 1
    OBVIOUS
  <2> QED
    BY <1>2, <2>1, <2>3, <2>4
<1>3. Nat \subseteq T
  <2> HIDE DEF T
  <2> QED
    BY <1>1, <1>2, InductiveSet
<1> QED
  BY <1>3

LEMMA PowerLarge ==
  ASSUME NEW n \in Nat
  PROVE  Power[n] > n
<1> DEFINE T == {k \in Nat : Power[k] > k}
<1>1. 0 \in T /\ \A k \in Nat : k \in T => k + 1 \in T
  BY PowerIs
<1>2. Nat \subseteq T
  <2> HIDE DEF T
  <2> QED
    BY <1>1, InductiveSet
<1> QED
  BY <1>2

LEMMA QuotientBelow ==
  ASSUME NEW a \in Nat, NEW d \in Nat, NEW e \in Nat, d > 0, a < e * d
  PROVE  a \div d \in Nat /\ a \div d < e
<1>1. PICK q \in Nat : q = a \div d /\ a >= d * q
  BY Quotient
<1>2. SUFFICES ASSUME q >= e PROVE FALSE
  BY <1>1
<1>3. PICK z \in Nat : q = e + z
  <2>1. q - e \in Nat /\ q = e + (q - e)
    BY <1>2
  <2> QED
    BY <2>1
<1>4. d * q = e * d + d * z /\ d * z \in Nat /\ e * d \in Nat
  BY <1>3
<1> QED
  BY <1>1, <1>4

-----------------------------------------------------------------------------
(* The shape of a table *)

(* The limits of a table with n buckets.                                    *)
LEMMA Load ==
  ASSUME NEW n \in Nat
  PROVE  /\ calcMaxNumElementsAllowed(n) \in Nat
         /\ calcMaxNumElementsAllowed(n) <= n
         /\ n \in {0, 1} => calcMaxNumElementsAllowed(n) = 0
         /\ calcNumElementsWithBuffer(n) \in Nat
         /\ calcNumElementsWithBuffer(n) >= n
         /\ \/ calcNumElementsWithBuffer(n) = n + calcMaxNumElementsAllowed(n)
            \/ calcNumElementsWithBuffer(n) = n + (InfoByte - 1)
<1>1. PICK l : l = MaxLoadFactor100 /\ l \in 11..99 /\ InfoByte \in Nat \ {0}
  <2>1. InitialInfoInc \in Nat /\ InitialInfoInc > 0
    BY PowerIs, RobinHoodAssumption DEF InitialInfoInc
  <2> QED
    BY <2>1, RobinHoodAssumption
<1>2. n * l \in Nat /\ n * l <= n * 99
  BY <1>1
<1>3. PICK a \in Nat : a = (n * l) \div 100 /\ 100 * a <= n * l /\ n * l < 100 * a + 100
  BY <1>2
<1>4. a <= n /\ (n \in {0, 1} => a = 0)
  BY <1>1, <1>2, <1>3
<1>5. calcMaxNumElementsAllowed(n) = a
  BY <1>1, <1>3 DEF calcMaxNumElementsAllowed
<1> QED
  BY <1>1, <1>4, <1>5 DEF calcNumElementsWithBuffer

LEMMA LoadGrows ==
  ASSUME NEW m \in Nat, NEW n \in Nat, m <= n
  PROVE  calcMaxNumElementsAllowed(m) <= calcMaxNumElementsAllowed(n)
<1>1. PICK l \in Nat : l = MaxLoadFactor100
  BY RobinHoodAssumption
<1>2. PICK z \in Nat : n = m + z
  <2>1. n - m \in Nat /\ n = m + (n - m)
    OBVIOUS
  <2> QED
    BY <2>1
<1>3. m * l \in Nat /\ n * l \in Nat /\ m * l <= n * l
  <2>1. n * l = m * l + z * l /\ z * l \in Nat /\ m * l \in Nat
    BY <1>2
  <2> QED
    BY <2>1
<1>4. PICK x, y : x = m * l /\ y = n * l
  OBVIOUS
<1>5. x \div 100 <= y \div 100
  BY <1>3, <1>4
<1> QED
  BY <1>1, <1>4, <1>5 DEF calcMaxNumElementsAllowed

LEMMA Geometry ==
  ASSUME NEW t, Shaped(t)
  PROVE  /\ t.mMask + 1 \in Nat \ {0}
         /\ Slots(t) \in Nat /\ Slots(t) >= t.mMask + 1
         /\ Used(t) \subseteq 0..(Slots(t) - 1) /\ IsFiniteSet(Used(t))
         /\ t.mMask = 0 => Slots(t) = 1 /\ Used(t) = {}
         /\ \A i \in DOMAIN t.mInfo : t.mInfo[i] \in 0..(InfoByte - 1)
         /\ InfoByte \in Nat
<1>1. t.mMask \in Nat /\ t.mInfo \in [DOMAIN t.mInfo -> 0..(InfoByte - 1)]
  BY DEF Shaped, Fields
<1>2. /\ Slots(t) \in Nat /\ Slots(t) >= t.mMask + 1
      /\ t.mMask = 0 => Slots(t) = 1
  <2>1. PICK n \in Nat : n = t.mMask + 1
    BY <1>1
  <2>2. Slots(t) = calcNumElementsWithBuffer(n)
    BY <2>1 DEF Slots
  <2>3. calcNumElementsWithBuffer(n) \in Nat /\ calcNumElementsWithBuffer(n) >= n
    BY Load
  <2>4. ASSUME n = 1 PROVE calcNumElementsWithBuffer(n) = 1
    <3>1. calcMaxNumElementsAllowed(n) = 0
      BY <2>4, Load
    <3>2. InfoByte > 0
      <4>1. InitialInfoInc \in Nat /\ InitialInfoInc > 0
        BY PowerIs, RobinHoodAssumption DEF InitialInfoInc
      <4> QED
        BY <4>1, RobinHoodAssumption
    <3> QED
      BY <2>4, <3>1, <3>2 DEF calcNumElementsWithBuffer
  <2> QED
    BY <1>1, <2>1, <2>2, <2>3, <2>4
<1>3. t.mMask = 0 => Used(t) = {}
  BY <1>2 DEF Used, Shaped, Sized
<1>4. Used(t) \subseteq 0..(Slots(t) - 1)
  BY DEF Used
<1>5. IsFiniteSet(0..(Slots(t) - 1))
  <2>1. 0 \in Int /\ Slots(t) - 1 \in Int
    BY <1>2
  <2> QED
    BY <2>1, FS_Interval
<1>6. IsFiniteSet(Used(t))
  BY <1>4, <1>5, FS_Subset
<1> QED
  BY <1>1, <1>2, <1>3, <1>4, <1>6, RobinHoodAssumption

(* The info of a search: between one and two steps' worth at home, and one  *)
(* more with each step.                                                     *)
LEMMA Steps ==
  ASSUME NEW t, Shaped(t), NEW key \in Key
  PROVE  /\ Home(t, key) \in 0..t.mMask
         /\ t.mInfoInc \in Nat /\ t.mInfoInc >= 2
         /\ HomeInfo(t, key) \in Nat
         /\ t.mInfoInc <= HomeInfo(t, key) /\ HomeInfo(t, key) < 2 * t.mInfoInc
         /\ \A d \in Nat : /\ Info(t, key, d) \in Nat
                           /\ Info(t, key, d + 1) = Info(t, key, d) + t.mInfoInc
                           /\ Info(t, key, d) >= d + 2
                           /\ Info(t, key, d) >= t.mInfoInc
                           /\ d >= 1 => Info(t, key, d) >= 2 * t.mInfoInc
         /\ Info(t, key, 0) = HomeInfo(t, key)
<1>1. /\ t.mMask \in Nat /\ t.mHashMultiplier \in 0..(Multipliers - 1)
      /\ t.mInfoHashShift \in Nat /\ t.mInfoHashShift < InitialInfoNumBits
      /\ t.mInfoInc = Power[InitialInfoNumBits - t.mInfoHashShift]
      /\ InitialInfoNumBits \in Nat
  BY RobinHoodAssumption DEF Shaped, Fields, Scaled
<1>2. PICK hash \in Nat : hash = Hash[t.mHashMultiplier][key]
  BY <1>1, RobinHoodAssumption
<1>3. PICK inc, p, all : /\ inc = t.mInfoInc /\ p = Power[t.mInfoHashShift]
                         /\ all = InitialInfoInc
  OBVIOUS
<1>4. /\ inc \in Nat /\ inc >= 2 /\ p \in Nat /\ p > 0
      /\ all \in Nat /\ all > 0 /\ all = inc * p
  <2>1. PICK b \in Nat : InitialInfoNumBits - t.mInfoHashShift = b + 1
    <3>1. InitialInfoNumBits - t.mInfoHashShift - 1 \in Nat
      BY <1>1
    <3> QED
      BY <1>1, <3>1
  <2>2. inc = 2 * Power[b] /\ Power[b] \in Nat /\ Power[b] > 0
    BY <1>1, <1>3, <2>1, PowerIs
  <2>3. p \in Nat /\ p > 0 /\ all \in Nat /\ all > 0
    BY <1>1, <1>3, PowerIs DEF InitialInfoInc
  <2>4. b + 1 + t.mInfoHashShift = InitialInfoNumBits /\ b + 1 \in Nat
    BY <1>1, <2>1
  <2>5. Power[b + 1 + t.mInfoHashShift] = Power[b + 1] * Power[t.mInfoHashShift]
    BY <1>1, <2>4, PowerSum
  <2>6. inc = Power[b + 1] /\ all = Power[b + 1 + t.mInfoHashShift]
    BY <1>1, <1>3, <2>1, <2>4 DEF InitialInfoInc
  <2>7. all = inc * p
    BY <1>3, <2>5, <2>6
  <2>8. inc \in Nat /\ inc >= 2
    BY <2>2
  <2> QED
    BY <2>3, <2>7, <2>8
<1>5. Home(t, key) \in 0..t.mMask
  <2>1. PICK q \in Nat : q = hash \div all
    BY <1>4, Quotient
  <2>2. PICK n \in Nat : n = t.mMask + 1 /\ n > 0
    BY <1>1
  <2>3. q % n \in Nat /\ q % n < n
    BY <2>2, Quotient
  <2> QED
    BY <1>1, <1>2, <1>3, <2>1, <2>2, <2>3 DEF Home
<1>6. PICK bits \in Nat : bits = (hash % all) \div p /\ bits < inc
  <2>1. PICK r \in Nat : r = hash % all /\ r < all
    BY <1>4, Quotient
  <2> QED
    BY <1>4, <2>1, QuotientBelow
<1>7. HomeInfo(t, key) = inc + bits
  BY <1>2, <1>3, <1>6 DEF HomeInfo
<1>8. ASSUME NEW d \in Nat
      PROVE  /\ Info(t, key, d) \in Nat
             /\ Info(t, key, d + 1) = Info(t, key, d) + inc
             /\ Info(t, key, d) >= d + 2
             /\ Info(t, key, d) >= inc
             /\ d >= 1 => Info(t, key, d) >= 2 * inc
  <2>1. /\ Info(t, key, d) = inc + bits + d * inc
        /\ Info(t, key, d + 1) = inc + bits + (d + 1) * inc
    BY <1>3, <1>7 DEF Info
  <2>2. d * inc \in Nat /\ (d + 1) * inc = d * inc + inc
    BY <1>4
  <2>3. d * inc >= d
    <3>1. PICK z \in Nat : inc = 1 + z
      <4>1. inc - 1 \in Nat /\ inc = 1 + (inc - 1)
        BY <1>4
      <4> QED
        BY <4>1
    <3>2. d * inc = d + d * z /\ d * z \in Nat
      BY <3>1
    <3> QED
      BY <3>2
  <2>4. d >= 1 => d * inc >= inc
    <3>1. ASSUME d >= 1 PROVE d * inc >= inc
      <4>1. PICK z \in Nat : d = 1 + z
        <5>1. d - 1 \in Nat /\ d = 1 + (d - 1)
          BY <3>1
        <5> QED
          BY <5>1
      <4>2. d * inc = inc + z * inc /\ z * inc \in Nat
        BY <1>4, <4>1
      <4> QED
        BY <1>4, <4>2
    <3> QED
      BY <3>1
  <2>5. PICK x \in Nat : x = d * inc
    BY <2>2
  <2> QED
    BY <1>4, <1>6, <2>1, <2>2, <2>3, <2>4, <2>5
<1>9. Info(t, key, 0) = HomeInfo(t, key)
  BY <1>3, <1>4, <1>7 DEF Info
<1> QED
  BY <1>3, <1>4, <1>5, <1>6, <1>7, <1>8, <1>9

-----------------------------------------------------------------------------
(* Searching *)

(* The first of some numbers.                                               *)
LEMMA FirstOf ==
  ASSUME NEW lo \in Nat, NEW hi \in Nat, NEW S, NEW x \in lo..hi, x \in S
  PROVE  \E i \in lo..hi : i \in S /\ (\A j \in lo..(i - 1) : j \notin S) /\ i <= x
<1> DEFINE T == {i \in lo..hi : i \in S}
<1>1. T \subseteq Nat /\ x \in T
  OBVIOUS
<1>2. PICK i \in T : \A y \in T : i <= y
  <2> HIDE DEF T
  <2>1. T # {}
    BY <1>1
  <2> QED
    BY <1>1, <2>1, LeastNatural
<1>3. \A j \in lo..(i - 1) : j \notin S
  <2> SUFFICES ASSUME NEW j \in lo..(i - 1), j \in S PROVE FALSE
    OBVIOUS
  <2>1. j \in T
    BY <1>2
  <2> QED
    BY <1>2, <2>1
<1> QED
  BY <1>1, <1>2, <1>3

(* Where info ends: at the sentinel, or at once without memory.             *)
EndStep(t, key) == IF t.mMask = 0 THEN 0 ELSE Slots(t) - Home(t, key)

LEMMA SearchEnds ==
  ASSUME NEW t, Shaped(t), NEW key \in Key
  PROVE  /\ EndStep(t, key) \in Nat
         /\ LastStep(t, key) \in Nat /\ EndStep(t, key) + 2 <= LastStep(t, key)
         /\ \A d \in 0..LastStep(t, key) : Met(t, key, d) \in 0..(InfoByte - 1)
         /\ \A d \in EndStep(t, key)..LastStep(t, key) :
              Met(t, key, d) < 2 /\ Info(t, key, d) > Met(t, key, d)
         /\ t.mMask # 0 => EndStep(t, key) >= 1
         /\ Home(t, key) + EndStep(t, key) <= Slots(t)
<1>1. PICK h, l, n, mask, info : /\ h = Home(t, key) /\ l = LastStep(t, key)
                                 /\ n = Slots(t) /\ mask = t.mMask
                                 /\ info = t.mInfo
  OBVIOUS
<1>2. /\ mask \in Nat /\ h \in 0..mask /\ n \in Nat /\ n >= mask + 1
      /\ \A i \in DOMAIN info : info[i] \in 0..(InfoByte - 1)
  <2>1. mask \in Nat
    BY <1>1 DEF Shaped, Fields
  <2>2. h \in 0..mask
    BY <1>1, Steps
  <2> QED
    BY <1>1, <2>1, <2>2, Geometry
<1>3. PICK e : e = EndStep(t, key) /\ e = IF mask = 0 THEN 0 ELSE n - h
  BY <1>1 DEF EndStep
<1>4. PICK top \in Nat : /\ DOMAIN info = 0..top
                         /\ h + e + 7 = top
                         /\ \A i \in (h + e)..top : info[i] \in {0, 1}
  <2>1. CASE mask = 0
    <3>1. DOMAIN info = 0..7 /\ \A i \in 0..7 : info[i] = 0
      BY <1>1, <2>1 DEF Shaped, Sized
    <3>2. h = 0 /\ e = 0
      BY <1>2, <1>3, <2>1
    <3> QED
      BY <3>1, <3>2
  <2>2. CASE mask # 0
    <3>1. /\ DOMAIN info = 0..(n + 7) /\ info[n] = 1
          /\ \A i \in (n + 1)..(n + 7) : info[i] = 0
      BY <1>1, <2>2 DEF Shaped, Sized
    <3>2. h + e = n /\ n + 7 \in Nat
      BY <1>2, <1>3, <2>2
    <3>3. \A i \in n..(n + 7) : i = n \/ i \in (n + 1)..(n + 7)
      BY <1>2
    <3> QED
      BY <3>1, <3>2, <3>3
  <2> QED
    BY <2>1, <2>2
<1>5. l = top - h
  <2>1. Cardinality(0..top) = top + 1
    BY FS_Interval
  <2>2. l = Cardinality(DOMAIN info) - 1 - h
    BY <1>1 DEF LastStep
  <2> QED
    BY <1>2, <1>4, <2>1, <2>2
<1>6. \A d \in 0..l : h + d \in 0..top /\ Met(t, key, d) = info[h + d]
  BY <1>1, <1>2, <1>4, <1>5 DEF Met
<1>7. e \in Nat /\ l \in Nat /\ e + 2 <= l /\ (mask # 0 => e >= 1) /\ h + e <= n
  BY <1>2, <1>3, <1>4, <1>5
<1>8. \A d \in 0..l : Met(t, key, d) \in 0..(InfoByte - 1)
  BY <1>2, <1>4, <1>6
<1>9. ASSUME NEW d \in e..l
      PROVE  Met(t, key, d) < 2 /\ Info(t, key, d) > Met(t, key, d)
  <2>1. d \in 0..l /\ d \in Nat /\ h + d \in (h + e)..top
    BY <1>2, <1>5, <1>7
  <2>2. Met(t, key, d) \in {0, 1}
    BY <1>4, <1>6, <2>1
  <2>3. Info(t, key, d) \in Nat /\ Info(t, key, d) >= d + 2
    BY <2>1, Steps
  <2> QED
    BY <2>1, <2>2, <2>3
<1> QED
  BY <1>1, <1>3, <1>7, <1>8, <1>9

(* The first node that is nearer to its home than key would be: before it   *)
(* all slots are used.                                                      *)
LEMMA PassedIs ==
  ASSUME NEW t, Shaped(t), NEW key \in Key
  PROVE  LET d == Passed(t, key) IN
         /\ d \in 0..EndStep(t, key) /\ d \in 0..LastStep(t, key)
         /\ Info(t, key, d) > Met(t, key, d)
         /\ \A e \in 0..(d - 1) :
              /\ Info(t, key, e) <= Met(t, key, e)
              /\ Home(t, key) + e \in Used(t)
<1>1. PICK l, last : l = LastStep(t, key) /\ last = EndStep(t, key)
  OBVIOUS
<1>2. /\ last \in Nat /\ l \in Nat /\ last + 2 <= l
      /\ Info(t, key, last) > Met(t, key, last)
      /\ Home(t, key) + last <= Slots(t)
      /\ \A e \in 0..l : Met(t, key, e) \in 0..(InfoByte - 1)
  BY <1>1, SearchEnds
<1>3. PICK S : S = {e \in 0..l : Info(t, key, e) > Met(t, key, e)}
  OBVIOUS
<1>4. PICK i \in 0..l : i \in S /\ (\A j \in 0..(i - 1) : j \notin S) /\ i <= last
  <2>1. last \in 0..l /\ last \in S
    BY <1>2, <1>3
  <2> QED
    BY <1>2, <2>1, FirstOf
<1>5. PICK d : d = Passed(t, key)
  OBVIOUS
<1>6. /\ d \in 0..l /\ Info(t, key, d) > Met(t, key, d)
      /\ \A j \in 0..(d - 1) : ~(Info(t, key, j) > Met(t, key, j))
  <2>1. /\ Info(t, key, i) > Met(t, key, i)
        /\ \A j \in 0..(i - 1) : ~(Info(t, key, j) > Met(t, key, j))
    BY <1>2, <1>3, <1>4
  <2> QED
    BY <1>1, <1>4, <1>5, <2>1 DEF Passed, First
<1>7. d <= last
  BY <1>2, <1>6
<1>8. ASSUME NEW e \in 0..(d - 1)
      PROVE  /\ Info(t, key, e) <= Met(t, key, e)
             /\ Home(t, key) + e \in Used(t)
  <2>1. e \in Nat /\ e \in 0..l /\ e < last
    BY <1>2, <1>6, <1>7
  <2>2. /\ Info(t, key, e) \in Nat /\ Info(t, key, e) >= e + 2
        /\ Home(t, key) \in Nat
    <3>1. Home(t, key) \in 0..t.mMask
      BY Steps
    <3> QED
      BY <2>1, <3>1, Steps
  <2>3. Met(t, key, e) \in Nat /\ Info(t, key, e) <= Met(t, key, e)
    <3>1. InfoByte \in Nat /\ Met(t, key, e) \in 0..(InfoByte - 1)
      BY <1>2, <2>1, RobinHoodAssumption
    <3> QED
      BY <1>6, <2>2, <3>1
  <2>4. Met(t, key, e) # 0
    BY <2>1, <2>2, <2>3
  <2>5. Home(t, key) + e \in 0..(Slots(t) - 1)
    BY <1>2, <2>1, <2>2, Geometry
  <2> QED
    BY <2>3, <2>4, <2>5 DEF Used, Met
<1> QED
  BY <1>1, <1>2, <1>5, <1>6, <1>7, <1>8

(* A search comes to the slot of its key: what it meets on its way is at    *)
(* least as far from home.                                                  *)
LEMMA Behind ==
  ASSUME NEW t, Shaped(t), Honest(t), Ordered(t), NEW i \in Used(t),
         NEW key, key = KeyAt(t, i)
  PROVE  /\ key \in Key /\ i - Home(t, key) \in Nat
         /\ \A d \in 0..(i - Home(t, key)) : Info(t, key, d) <= Met(t, key, d)
         /\ Info(t, key, i - Home(t, key)) = Met(t, key, i - Home(t, key))
<1>1. PICK h, far, inc, info : /\ h = Home(t, key) /\ far = i - h
                               /\ inc = t.mInfoInc /\ info = t.mInfo
  OBVIOUS
<1>2. key \in Key
  BY DEF Honest, KeyAt, Pair
<1>3. /\ h \in Nat /\ far \in Nat /\ i \in 0..(Slots(t) - 1) /\ h + far = i
      /\ info[i] = Info(t, key, far)
  <2>1. h \in 0..t.mMask
    BY <1>1, <1>2, Steps
  <2>2. i \in 0..(Slots(t) - 1) /\ Slots(t) \in Nat
    BY Geometry DEF Used
  <2>3. i >= h /\ info[i] = Info(t, key, far)
    BY <1>1 DEF Honest
  <2> QED
    BY <1>1, <2>1, <2>2, <2>3
<1>4. /\ inc \in Nat
      /\ \A d \in Nat : /\ Info(t, key, d) \in Nat
                        /\ Info(t, key, d + 1) = Info(t, key, d) + inc
                        /\ d >= 1 => Info(t, key, d) >= 2 * inc
  BY <1>1, <1>2, Steps
<1>5. Slots(t) \in Nat /\ InfoByte \in Nat
  BY Geometry
<1>6. \A j \in 0..i : info[j] \in Nat
  <2>1. \A j \in 0..i : j \in DOMAIN info
    <3>1. t.mMask # 0
      BY Geometry
    <3>2. DOMAIN info = 0..(Slots(t) + 7)
      BY <1>1, <3>1 DEF Shaped, Sized
    <3> QED
      BY <1>3, <1>5, <3>2
  <2>2. \A j \in DOMAIN info : info[j] \in 0..(InfoByte - 1)
    BY <1>1, Geometry
  <2> QED
    BY <1>5, <2>1, <2>2
<1> DEFINE T == {e \in 0..far : Info(t, key, far - e) <= info[i - e]}
<1>7. 0 \in T
  BY <1>3, <1>4
<1>8. ASSUME NEW e \in 0..(far - 1), e \in T
      PROVE  e + 1 \in T
  <2>1. PICK j, d : j = i - e /\ d = far - e - 1
    OBVIOUS
  <2>2. /\ j \in 1..(Slots(t) - 1) /\ j \in 0..i /\ j - 1 \in 0..i
        /\ d \in Nat /\ far - e = d + 1 /\ j - 1 = i - (e + 1) /\ d = far - (e + 1)
        /\ e + 1 \in 0..far
    BY <1>3, <1>5, <2>1
  <2>3. Info(t, key, d + 1) <= info[j]
    BY <1>8, <2>1, <2>2
  <2>4. info[j] >= 2 * inc
    <3>1. Info(t, key, d + 1) >= 2 * inc /\ Info(t, key, d + 1) \in Nat
      <4>1. d + 1 \in Nat /\ d + 1 >= 1
        BY <2>2
      <4> QED
        BY <1>4, <4>1
    <3>2. info[j] \in Nat
      BY <1>6, <2>2
    <3> QED
      BY <1>4, <2>3, <3>1, <3>2
  <2>5. info[j - 1] >= info[j] - inc
    BY <1>1, <2>2, <2>4 DEF Ordered
  <2>6. Info(t, key, d) <= info[j - 1]
    <3>1. Info(t, key, d + 1) = Info(t, key, d) + inc /\ Info(t, key, d) \in Nat
      BY <1>4, <2>2
    <3>2. info[j] \in Nat /\ info[j - 1] \in Nat
      BY <1>6, <2>2
    <3> QED
      BY <1>4, <2>3, <2>5, <3>1, <3>2
  <2> QED
    BY <2>2, <2>6
<1>9. 0..far \subseteq T
  <2> HIDE DEF T
  <2> QED
    BY <1>3, <1>7, <1>8, InductiveInterval
<1>10. ASSUME NEW d \in 0..far
       PROVE  Info(t, key, d) <= Met(t, key, d)
  <2>1. far - d \in 0..far /\ far - (far - d) = d /\ i - (far - d) = h + d
    BY <1>3
  <2>2. far - d \in T
    BY <1>9, <2>1
  <2>3. Info(t, key, far - (far - d)) <= info[i - (far - d)]
    BY <2>2
  <2>4. Met(t, key, d) = info[h + d]
    BY <1>1 DEF Met
  <2> QED
    BY <2>1, <2>3, <2>4
<1>11. Info(t, key, far) = Met(t, key, far)
  BY <1>1, <1>3 DEF Met
<1> QED
  BY <1>1, <1>2, <1>3, <1>10, <1>11

(* A match is a used slot with the key.                                     *)
LEMMA MatchIs ==
  ASSUME NEW t, Shaped(t), NEW key \in Key, NEW d \in Nat, Matches(t, key, d)
  PROVE  Home(t, key) + d \in Used(t) /\ KeyAt(t, Home(t, key) + d) = key
<1>1. /\ Info(t, key, d) = t.mInfo[Home(t, key) + d]
      /\ Home(t, key) + d < Slots(t)
      /\ t.mKeyVals[Home(t, key) + d].first = key
  BY DEF Matches, Met, HasKey
<1>2. Info(t, key, d) \in Nat /\ Info(t, key, d) >= d + 2 /\ Home(t, key) \in Nat
  <2>1. Home(t, key) \in 0..t.mMask
    BY Steps
  <2> QED
    BY <2>1, Steps
<1>3. Home(t, key) + d \in 0..(Slots(t) - 1)
  <2>1. Slots(t) \in Nat
    BY Geometry
  <2> QED
    BY <1>1, <1>2, <2>1
<1> QED
  BY <1>1, <1>2, <1>3 DEF Used, KeyAt

(* The node of a key matches, before the search would stop.                 *)
LEMMA NodeMatches ==
  ASSUME NEW t, Shaped(t), Honest(t), Ordered(t), NEW i \in Used(t),
         NEW key, key = KeyAt(t, i)
  PROVE  /\ key \in Key /\ i - Home(t, key) \in 0..(Passed(t, key) - 1)
         /\ Matches(t, key, i - Home(t, key))
         /\ \A d \in 0..(i - Home(t, key)) : ~(Info(t, key, d) > Met(t, key, d))
         /\ Home(t, key) + (i - Home(t, key)) = i
<1>1. PICK h, far : h = Home(t, key) /\ far = i - h
  OBVIOUS
<1>2. /\ key \in Key /\ far \in Nat
      /\ \A d \in 0..far : Info(t, key, d) <= Met(t, key, d)
      /\ Info(t, key, far) = Met(t, key, far)
  BY <1>1, Behind
<1>3. i \in 0..(Slots(t) - 1) /\ Slots(t) \in Nat /\ h \in Nat /\ h + far = i
  <2>1. h \in 0..t.mMask /\ t.mMask + 1 \in Nat
    BY <1>1, <1>2, Steps, Geometry
  <2>2. i \in 0..(Slots(t) - 1) /\ Slots(t) \in Nat
    BY Geometry
  <2> QED
    BY <1>1, <2>1, <2>2
<1>4. far \in 0..LastStep(t, key) /\ LastStep(t, key) \in Nat
  <2>1. EndStep(t, key) \in Nat /\ EndStep(t, key) + 2 <= LastStep(t, key) /\ LastStep(t, key) \in Nat
    BY <1>2, SearchEnds
  <2>2. far <= EndStep(t, key)
    <3>1. t.mMask # 0
      BY Geometry
    <3> QED
      BY <1>1, <1>2, <1>3, <3>1 DEF EndStep
  <2> QED
    BY <1>2, <2>1, <2>2
<1>5. \A d \in 0..far : ~(Info(t, key, d) > Met(t, key, d))
  <2>1. ASSUME NEW d \in 0..far PROVE Info(t, key, d) \in Nat /\ Met(t, key, d) \in Nat
    <3>1. d \in Nat /\ d \in 0..LastStep(t, key)
      BY <1>2, <1>4
    <3>2. Met(t, key, d) \in 0..(InfoByte - 1) /\ InfoByte \in Nat
      BY <1>2, <3>1, SearchEnds, Geometry
    <3> QED
      BY <1>2, <3>1, <3>2, Steps
  <2> QED
    BY <1>2, <2>1
<1>6. far < Passed(t, key) /\ Passed(t, key) \in Nat
  <2>1. PICK p : p = Passed(t, key)
    OBVIOUS
  <2>2. p \in 0..LastStep(t, key) /\ Info(t, key, p) > Met(t, key, p)
    BY <1>2, <2>1, PassedIs
  <2>3. LastStep(t, key) \in Nat
    BY <1>2, SearchEnds
  <2> QED
    BY <1>2, <1>5, <2>1, <2>2, <2>3
<1>7. Matches(t, key, far)
  <2>1. t.mKeyVals[i] \in Pair /\ i < Slots(t)
    BY <1>3 DEF Honest
  <2>2. HasKey(t, i, key)
    BY <2>1, RobinHoodAssumption DEF HasKey, KeyAt
  <2> QED
    BY <1>1, <1>2, <1>3, <2>2 DEF Matches
<1> QED
  BY <1>1, <1>2, <1>3, <1>5, <1>6, <1>7

(* What a search returns, whether it looks at one slot or at two before it  *)
(* asks whether to go on.                                                   *)
Returns(t, key, idx) ==
    IF key \in Keys(t) THEN idx \in Used(t) /\ KeyAt(t, idx) = key ELSE idx = End(t)

LEMMA FindsIt ==
  ASSUME NEW t, Shaped(t), Honest(t), Ordered(t), NEW key \in Key,
         NEW unrolled \in {1, 2}
  PROVE  Returns(t, key, SearchIdx(t, key, unrolled))
<1> DEFINE stops(d) == d % unrolled = 0 /\ Info(t, key, d) > Met(t, key, d)
           S == {d \in 1..LastStep(t, key) : stops(d)}
           first == First(1, LastStep(t, key), stops)
           seen == 0..(first - 1)
<1>1. PICK l, last : l = LastStep(t, key) /\ last = EndStep(t, key)
  OBVIOUS
<1>2. /\ last \in Nat /\ l \in Nat /\ last + 2 <= l
      /\ \A d \in last..l : Info(t, key, d) > Met(t, key, d)
  BY <1>1, SearchEnds
<1>3. PICK x \in 1..l : x \in S
  <2>1. PICK x \in {last + 1, last + 2} : x % unrolled = 0
    BY <1>2
  <2>2. x \in 1..l /\ x \in last..l
    BY <1>2
  <2> QED
    BY <1>1, <1>2, <2>1, <2>2
<1>4. /\ first \in 1..l /\ stops(first)
      /\ \A j \in 1..(first - 1) : ~stops(j)
  <2>1. PICK i \in 1..l : i \in S /\ (\A j \in 1..(i - 1) : j \notin S)
    <3> HIDE DEF S
    <3>1. 1 \in Nat /\ l \in Nat
      BY <1>2
    <3> QED
      BY <1>3, <3>1, FirstOf
  <2>2. stops(i) /\ \A j \in 1..(i - 1) : ~stops(j)
    BY <1>1, <1>2, <2>1
  <2> HIDE DEF stops
  <2> QED
    BY <1>1, <2>1, <2>2 DEF First
<1> HIDE DEF first, S
<1>5. \A d \in seen : d \in Nat
  BY <1>4
<1>6. PICK idx : idx = SearchIdx(t, key, unrolled)
  OBVIOUS
<1>7. idx = IF \E d \in seen : Matches(t, key, d)
            THEN Home(t, key) + (CHOOSE d \in seen : Matches(t, key, d))
            ELSE End(t)
  BY <1>6 DEF SearchIdx, first
<1> HIDE DEF seen
<1>8. CASE \E d \in seen : Matches(t, key, d)
  <2>1. PICK d \in seen : d = (CHOOSE e \in seen : Matches(t, key, e)) /\ Matches(t, key, d)
    BY <1>8
  <2>2. idx = Home(t, key) + d
    BY <1>7, <1>8, <2>1
  <2>3. idx \in Used(t) /\ KeyAt(t, idx) = key
    BY <1>5, <2>1, <2>2, MatchIs
  <2> QED
    BY <1>6, <2>3 DEF Returns, Keys, Nodes, KeyAt
<1>9. CASE ~\E d \in seen : Matches(t, key, d)
  <2>1. ASSUME key \in Keys(t) PROVE FALSE
    <3>1. PICK i \in Used(t) : key = KeyAt(t, i)
      BY <2>1 DEF Keys, Nodes, KeyAt
    <3>2. PICK far : far = i - Home(t, key)
      OBVIOUS
    <3>3. /\ far \in Nat /\ Matches(t, key, far)
          /\ \A d \in 0..far : ~(Info(t, key, d) > Met(t, key, d))
      <4>1. i - Home(t, key) \in 0..(Passed(t, key) - 1)
        BY <3>1, NodeMatches
      <4> QED
        BY <3>1, <3>2, <4>1, NodeMatches
    <3>4. ~(first \in 0..far)
      BY <1>4, <3>3
    <3>5. far \in seen
      BY <1>2, <1>4, <3>3, <3>4 DEF seen
    <3> QED
      BY <1>9, <3>3, <3>5
  <2> QED
    BY <1>6, <1>7, <1>9, <2>1 DEF Returns
<1> QED
  BY <1>8, <1>9

-----------------------------------------------------------------------------
(* Inserting *)

(* The search of an insertion, in two loops, ends where insert_move's does. *)
LEMMA DiffersIs ==
  ASSUME NEW t, Shaped(t), Ordered(t), NEW key \in Key
  PROVE  /\ Differs(t, key) = Passed(t, key)
         /\ Candidates(t, key) = {d \in 0..(Passed(t, key) - 1) : Matches(t, key, d)}
<1>1. PICK l, last, h, inc, passed :
          /\ l = LastStep(t, key) /\ last = EndStep(t, key)
          /\ h = Home(t, key) /\ inc = t.mInfoInc /\ passed = Passed(t, key)
  OBVIOUS
<1>2. PICK mine, met : /\ mine = [d \in 0..l |-> Info(t, key, d)]
                       /\ met = [d \in 0..l |-> Met(t, key, d)]
  OBVIOUS
<1>3. /\ l \in Nat /\ last \in Nat /\ last <= l /\ h \in Nat /\ inc \in Nat /\ inc >= 2
      /\ h + last <= Slots(t) /\ Slots(t) \in Nat /\ InfoByte \in Nat
      /\ passed \in 0..last
  <2>1. h \in 0..t.mMask /\ t.mMask + 1 \in Nat
    BY <1>1, Steps, Geometry
  <2>2. /\ l \in Nat /\ last \in Nat /\ last + 2 <= l
        /\ h + last <= Slots(t) /\ passed \in 0..last
    BY <1>1, SearchEnds, PassedIs
  <2> QED
    BY <1>1, <2>1, <2>2, Steps, Geometry
<1>4. ASSUME NEW d \in 0..l
      PROVE  /\ mine[d] = Info(t, key, d) /\ met[d] = Met(t, key, d)
             /\ mine[d] \in Nat /\ met[d] \in Nat
             /\ mine[d] >= 2 /\ (d >= 1 => mine[d] >= 2 * inc)
             /\ d >= 1 => mine[d] = mine[d - 1] + inc
  <2>1. /\ mine[d] = Info(t, key, d) /\ met[d] = Met(t, key, d)
        /\ d \in Nat
    BY <1>2, <1>3
  <2>2. met[d] \in Nat
    <3>1. Met(t, key, d) \in 0..(InfoByte - 1)
      BY <1>1, SearchEnds
    <3> QED
      BY <1>3, <2>1, <3>1
  <2>3. /\ mine[d] \in Nat /\ mine[d] >= d + 2 /\ (d >= 1 => mine[d] >= 2 * inc)
    BY <1>1, <2>1, Steps
  <2>4. ASSUME d >= 1 PROVE mine[d] = mine[d - 1] + inc
    <3>1. d - 1 \in 0..l /\ d - 1 \in Nat /\ (d - 1) + 1 = d
      BY <1>3, <2>4
    <3>2. Info(t, key, (d - 1) + 1) = Info(t, key, d - 1) + inc
      BY <1>1, <3>1, Steps
    <3>3. mine[d - 1] = Info(t, key, d - 1)
      BY <1>2, <3>1
    <3> QED
      BY <2>1, <3>1, <3>2, <3>3
  <2> QED
    BY <1>3, <2>1, <2>2, <2>3, <2>4
<1>5. /\ mine[passed] > met[passed] /\ passed \in 0..l
      /\ \A e \in 0..(passed - 1) : mine[e] <= met[e]
  <2>1. /\ Info(t, key, passed) > Met(t, key, passed)
        /\ \A e \in 0..(passed - 1) : Info(t, key, e) <= Met(t, key, e)
    BY <1>1, PassedIs
  <2>2. passed \in 0..l /\ \A e \in 0..(passed - 1) : e \in 0..l
    BY <1>3
  <2> QED
    BY <1>4, <2>1, <2>2
<1>6. PICK less : less = NotLess(t, key)
  OBVIOUS
<1>7. /\ less \in 0..passed /\ mine[less] >= met[less]
      /\ \A j \in 0..(less - 1) : ~(mine[j] >= met[j])
  <2>1. PICK S : S = {d \in 0..l : mine[d] >= met[d]}
    OBVIOUS
  <2>2. PICK i \in 0..l : i \in S /\ (\A j \in 0..(i - 1) : j \notin S) /\ i <= passed
    <3>1. passed \in S
      BY <1>4, <1>5, <2>1
    <3>2. l \in Nat /\ 0 \in Nat /\ passed \in 0..l
      BY <1>3, <1>5
    <3> QED
      BY <3>1, <3>2, FirstOf
  <2>3. \A j \in 0..(i - 1) : j \in 0..l
    BY <1>3, <2>2
  <2>4. /\ Info(t, key, i) >= Met(t, key, i)
        /\ \A j \in 0..(i - 1) : ~(Info(t, key, j) >= Met(t, key, j))
    BY <1>4, <2>1, <2>2, <2>3
  <2>5. /\ less \in 0..l /\ Info(t, key, less) >= Met(t, key, less)
        /\ \A j \in 0..(less - 1) : ~(Info(t, key, j) >= Met(t, key, j))
    BY <1>1, <1>6, <2>2, <2>4 DEF NotLess, First
  <2>6. \A j \in 0..(less - 1) : j \in 0..l
    BY <1>3, <2>5
  <2>7. less <= passed
    BY <1>3, <1>4, <1>5, <2>2, <2>4, <2>5
  <2> QED
    BY <1>3, <1>4, <2>5, <2>6, <2>7
<1>8. PICK diff : diff = Differs(t, key)
  OBVIOUS
<1>9. /\ diff \in less..passed /\ mine[diff] # met[diff]
      /\ \A j \in less..(diff - 1) : mine[j] = met[j]
  <2>1. PICK S : S = {d \in 0..l : mine[d] # met[d]}
    OBVIOUS
  <2>2. PICK i \in less..l : i \in S /\ (\A j \in less..(i - 1) : j \notin S) /\ i <= passed
    <3>1. passed \in S /\ passed \in less..l /\ less \in Nat
      BY <1>3, <1>4, <1>5, <1>7, <2>1
    <3>2. l \in Nat
      BY <1>3
    <3> QED
      BY <3>1, <3>2, FirstOf
  <2>3. i \in 0..l /\ \A j \in less..(i - 1) : j \in 0..l
    BY <1>3, <1>7, <2>2
  <2>4. /\ Info(t, key, i) # Met(t, key, i)
        /\ \A j \in less..(i - 1) : ~(Info(t, key, j) # Met(t, key, j))
    BY <1>4, <2>1, <2>2, <2>3
  <2>5. /\ diff \in less..l /\ Info(t, key, diff) # Met(t, key, diff)
        /\ \A j \in less..(diff - 1) : ~(Info(t, key, j) # Met(t, key, j))
    BY <1>1, <1>6, <1>8, <2>2, <2>4 DEF Differs, First
  <2>6. diff \in 0..l /\ \A j \in less..(diff - 1) : j \in 0..l
    BY <1>3, <1>7, <2>5
  <2>7. diff <= passed
    BY <1>3, <1>7, <2>2, <2>4, <2>5
  <2> QED
    BY <1>3, <1>4, <1>7, <2>5, <2>6, <2>7
<1>10. diff \in 0..l /\ diff \in Nat /\ passed \in Nat
  BY <1>3, <1>7, <1>9
<1>11. mine[diff] > met[diff]
  <2> SUFFICES ASSUME mine[diff] < met[diff] PROVE FALSE
    BY <1>4, <1>9, <1>10
  <2>1. diff # less
    BY <1>4, <1>7, <1>10
  <2>2. /\ diff >= 1 /\ diff - 1 \in less..(diff - 1) /\ diff - 1 \in 0..l
    BY <1>3, <1>7, <1>9, <2>1
  <2>3. mine[diff - 1] = met[diff - 1]
    BY <1>9, <2>2
  <2>4. mine[diff] = mine[diff - 1] + inc /\ mine[diff] >= 2 * inc
    BY <1>4, <1>10, <2>2
  <2>5. t.mMask # 0 /\ h + diff \in 1..(Slots(t) - 1)
    <3>1. diff # last
      <4>1. last \in last..l
        BY <1>3
      <4>2. Info(t, key, last) > Met(t, key, last)
        BY <1>1, <4>1, SearchEnds
      <4>3. last \in 0..l
        BY <1>3
      <4> QED
        BY <1>4, <4>2, <4>3
    <3>2. diff < last
      BY <1>3, <1>9, <1>10, <3>1
    <3>3. t.mMask # 0
      BY <1>1, <1>10, <3>2 DEF EndStep
    <3> QED
      BY <1>3, <1>10, <2>2, <3>2, <3>3
  <2>6. /\ met[diff] = t.mInfo[h + diff]
        /\ met[diff - 1] = t.mInfo[(h + diff) - 1]
    <3>1. h + (diff - 1) = (h + diff) - 1
      BY <1>3, <1>10
    <3> QED
      BY <1>1, <1>4, <1>10, <2>2, <3>1 DEF Met
  <2>7. met[diff] >= 2 * inc
    BY <1>3, <1>4, <1>10, <2>4
  <2>8. met[diff - 1] >= met[diff] - inc
    BY <1>1, <2>5, <2>6, <2>7 DEF Ordered
  <2> QED
    BY <1>3, <1>4, <1>10, <2>2, <2>3, <2>4, <2>8
<1>12. diff = passed
  <2>1. ASSUME diff # passed PROVE FALSE
    <3>1. diff \in 0..(passed - 1)
      BY <1>9, <1>10, <2>1
    <3>2. mine[diff] <= met[diff]
      BY <1>5, <3>1
    <3> QED
      BY <1>4, <1>10, <1>11, <3>2
  <2> QED
    BY <2>1
<1>13. ASSUME NEW d \in 0..(passed - 1), Matches(t, key, d)
       PROVE  d \in less..(diff - 1)
  <2>1. d \in 0..l
    BY <1>3, <1>5, <1>10
  <2>2. mine[d] = met[d]
    BY <1>4, <1>13, <2>1 DEF Matches
  <2>3. ~(d \in 0..(less - 1))
    BY <1>4, <1>7, <2>1, <2>2
  <2> QED
    BY <1>7, <1>10, <1>12, <2>3
<1>14. less..(diff - 1) \subseteq 0..(passed - 1)
  BY <1>7, <1>10, <1>12
<1>15. Candidates(t, key) = {d \in less..(diff - 1) : Matches(t, key, d)}
  BY <1>6, <1>8 DEF Candidates
<1>16. Candidates(t, key) = {d \in 0..(passed - 1) : Matches(t, key, d)}
  BY <1>13, <1>14, <1>15
<1> QED
  BY <1>1, <1>8, <1>12, <1>16

(* The slots an insertion looks at hold its key exactly if the table does.  *)
LEMMA CandidatesRight ==
  ASSUME NEW t, Shaped(t), Honest(t), Ordered(t), NEW key \in Key
  PROVE  /\ Candidates(t, key) = {} => key \notin Keys(t)
         /\ \A d \in Candidates(t, key) :
              Home(t, key) + d \in Used(t) /\ KeyAt(t, Home(t, key) + d) = key
<1>1. Candidates(t, key) = {d \in 0..(Passed(t, key) - 1) : Matches(t, key, d)}
  BY DiffersIs
<1>2. ASSUME key \in Keys(t) PROVE Candidates(t, key) # {}
  <2>1. PICK i \in Used(t) : key = KeyAt(t, i)
    BY <1>2 DEF Keys, Nodes, KeyAt
  <2>2. /\ i - Home(t, key) \in 0..(Passed(t, key) - 1)
        /\ Matches(t, key, i - Home(t, key))
    BY <2>1, NodeMatches
  <2> QED
    BY <1>1, <2>2
<1>3. ASSUME NEW d \in Candidates(t, key)
      PROVE  Home(t, key) + d \in Used(t) /\ KeyAt(t, Home(t, key) + d) = key
  <2>1. Matches(t, key, d) /\ d \in Nat
    BY <1>1
  <2> QED
    BY <2>1, MatchIs
<1> QED
  BY <1>2, <1>3

(* The slot that PutAt frees for a node at p.                               *)
FreeFrom(t, p) == First(p, Slots(t) + 7, LAMBDA i : t.mInfo[i] = 0)

(* While the load is below its limit there is a free slot at or after the   *)
(* place of a new node: the spare slots at the end are enough.              *)
LEMMA FreeSlot ==
  ASSUME NEW t, Shaped(t), Honest(t), t.mMask # 0,
         t.mNumElements = Cardinality(Used(t)),
         t.mNumElements < calcMaxNumElementsAllowed(t.mMask + 1),
         NEW key \in Key, NEW p, p = Home(t, key) + Passed(t, key)
  PROVE  /\ p \in Nat
         /\ \E f \in p..(Slots(t) - 1) :
              /\ t.mInfo[f] = 0
              /\ \A j \in p..(f - 1) : t.mInfo[j] # 0
              /\ f = FreeFrom(t, p)
<1>1. PICK h, n, slots, info : /\ h = Home(t, key) /\ n = t.mMask + 1
                               /\ slots = Slots(t) /\ info = t.mInfo
  OBVIOUS
<1>2. PICK d : d = Passed(t, key) /\ p = h + d
  BY <1>1
<1>3. /\ n \in Nat \ {0} /\ h \in 0..(n - 1) /\ slots \in Nat /\ slots >= n
      /\ d \in Nat /\ p \in Nat /\ p <= slots /\ InfoByte \in Nat
      /\ \A e \in 0..(d - 1) : h + e \in Used(t)
  <2>1. h \in 0..t.mMask /\ t.mMask + 1 \in Nat \ {0} /\ t.mMask \in Nat
    BY <1>1, Steps, Geometry DEF Shaped, Fields
  <2>2. d \in 0..EndStep(t, key) /\ EndStep(t, key) \in Nat
        /\ h + EndStep(t, key) <= slots
        /\ \A e \in 0..(d - 1) : h + e \in Used(t)
    BY <1>1, <1>2, PassedIs, SearchEnds
  <2>3. slots \in Nat /\ slots >= n /\ InfoByte \in Nat
    BY <1>1, Geometry
  <2> QED
    BY <1>1, <1>2, <2>1, <2>2, <2>3
<1>4. \E x \in p..(slots - 1) : info[x] = 0
  <2> SUFFICES ASSUME \A x \in p..(slots - 1) : info[x] # 0
               PROVE  FALSE
    OBVIOUS
  <2>1. ASSUME NEW j \in h..(slots - 1) PROVE j \in Used(t)
    <3>1. CASE j < p
      <4>1. j - h \in 0..(d - 1) /\ h + (j - h) = j
        BY <1>2, <1>3, <3>1
      <4> QED
        BY <1>3, <4>1
    <3>2. CASE j >= p
      <4>1. j \in p..(slots - 1) /\ j \in 0..(slots - 1)
        BY <1>3, <3>2
      <4> QED
        BY <1>1, <4>1 DEF Used
    <3> QED
      BY <1>3, <3>1, <3>2
  <2>2. PICK load : load = calcMaxNumElementsAllowed(n)
    OBVIOUS
  <2>3. /\ load \in Nat
        /\ slots = n + load \/ slots = n + (InfoByte - 1)
    BY <1>1, <1>3, <2>2, Load DEF Slots
  <2>4. CASE slots = n + load
    <3>1. h..(slots - 1) \subseteq Used(t) /\ IsFiniteSet(Used(t))
      BY <2>1, Geometry
    <3>2. Cardinality(h..(slots - 1)) = slots - 1 - h + 1
      <4>1. h \in Int /\ slots - 1 \in Int /\ h <= slots - 1
        BY <1>3
      <4> QED
        BY <4>1, FS_Interval
    <3>3. Cardinality(h..(slots - 1)) <= Cardinality(Used(t))
      BY <3>1, FS_Subset
    <3>4. t.mNumElements < load /\ t.mNumElements \in Nat
      BY <1>1, <2>2 DEF Shaped, Fields
    <3> QED
      BY <1>3, <2>3, <2>4, <3>2, <3>3, <3>4
  <2>5. CASE slots = n + (InfoByte - 1)
    <3>1. PICK i : i = slots - 1
      OBVIOUS
    <3>2. i \in Used(t) /\ i \in Nat
      BY <1>3, <2>1, <3>1
    <3>3. PICK k, g : k = KeyAt(t, i) /\ g = Home(t, k)
      OBVIOUS
    <3>4. k \in Key /\ i >= g /\ info[i] = Info(t, k, i - g)
      BY <1>1, <3>2, <3>3 DEF Honest, KeyAt, Pair
    <3>5. g \in 0..(n - 1)
      <4>1. g \in 0..t.mMask /\ t.mMask \in Nat
        BY <3>3, <3>4, Steps DEF Shaped, Fields
      <4> QED
        BY <1>1, <4>1
    <3>6. i - g \in Nat /\ i - g >= InfoByte - 1
      BY <1>3, <2>5, <3>1, <3>2, <3>4, <3>5
    <3>7. Info(t, k, i - g) \in Nat /\ Info(t, k, i - g) >= (i - g) + 2
      BY <3>4, <3>6, Steps
    <3>8. info[i] \in 0..(InfoByte - 1)
      <4>1. i \in DOMAIN info
        <5>1. DOMAIN info = 0..(slots + 7)
          BY <1>1 DEF Shaped, Sized
        <5> QED
          BY <1>3, <3>1, <3>2, <5>1
      <4> QED
        BY <1>1, <4>1, Geometry
    <3> QED
      BY <1>3, <3>4, <3>6, <3>7, <3>8
  <2> QED
    BY <2>3, <2>4, <2>5
<1>5. PICK S : S = {x \in p..(slots + 7) : info[x] = 0}
  OBVIOUS
<1>6. PICK x \in p..(slots - 1) : info[x] = 0
  BY <1>4
<1>7. PICK f \in p..(slots + 7) :
        f \in S /\ (\A j \in p..(f - 1) : j \notin S) /\ f <= x
  <2>1. x \in p..(slots + 7) /\ x \in S
    BY <1>3, <1>5, <1>6
  <2>2. p \in Nat /\ slots + 7 \in Nat
    BY <1>3
  <2>3. PICK hi : hi = slots + 7
    OBVIOUS
  <2>4. hi \in Nat /\ x \in p..hi
    BY <2>1, <2>2, <2>3
  <2>5. \E f \in p..hi : f \in S /\ (\A j \in p..(f - 1) : j \notin S) /\ f <= x
    BY <2>1, <2>2, <2>4, FirstOf
  <2> QED
    BY <2>3, <2>5
<1>8. /\ f \in p..(slots - 1) /\ info[f] = 0
      /\ \A j \in p..(f - 1) : info[j] # 0
  <2>1. \A j \in p..(f - 1) : j \in p..(slots + 7)
    BY <1>3, <1>7
  <2> QED
    BY <1>3, <1>5, <1>6, <1>7, <2>1
<1>9. f = FreeFrom(t, p)
  <2>1. PICK g : g = FreeFrom(t, p)
    OBVIOUS
  <2>2. g \in p..(slots + 7) /\ info[g] = 0 /\ \A j \in p..(g - 1) : ~(info[j] = 0)
    BY <1>1, <1>7, <1>8, <2>1 DEF FreeFrom, First
  <2>3. g = f
    BY <1>3, <1>7, <1>8, <2>2
  <2> QED
    BY <2>1, <2>3
<1>10. /\ f \in p..(Slots(t) - 1) /\ t.mInfo[f] = 0
       /\ \A j \in p..(f - 1) : t.mInfo[j] # 0
  BY <1>1, <1>8
<1> QED
  BY <1>3, <1>9, <1>10

(* What PutAt does: node comes to slot p, and the nodes from there up to    *)
(* the free slot f move by one.                                             *)
Same(t, v) ==
    /\ v.mHashMultiplier = t.mHashMultiplier /\ v.mMask = t.mMask
    /\ v.mInfoInc = t.mInfoInc /\ v.mInfoHashShift = t.mInfoHashShift

PutKeyVals(t, node, p, f) ==
    [i \in DOMAIN t.mKeyVals |-> IF i = p THEN node
                                 ELSE IF i \in (p + 1)..f THEN t.mKeyVals[i - 1]
                                 ELSE t.mKeyVals[i]]
PutInfo(t, info, p, f) ==
    [i \in DOMAIN t.mInfo |-> IF i = p THEN info
                              ELSE IF i \in (p + 1)..f THEN t.mInfo[i - 1] + t.mInfoInc
                              ELSE t.mInfo[i]]

Put(t, v, node, info, p, f) ==
    /\ v = [mHashMultiplier |-> t.mHashMultiplier,
            mKeyVals |-> PutKeyVals(t, node, p, f), mInfo |-> PutInfo(t, info, p, f),
            mNumElements |-> t.mNumElements + 1, mMask |-> t.mMask,
            mMaxNumElementsAllowed |-> v.mMaxNumElementsAllowed,
            mInfoInc |-> t.mInfoInc, mInfoHashShift |-> t.mInfoHashShift]
    /\ v.mMaxNumElementsAllowed \in {0, t.mMaxNumElementsAllowed}
    /\ v.mMaxNumElementsAllowed # 0 =>
         /\ ~Full(t, info)
         /\ \A i \in (p + 1)..f : ~Full(t, t.mInfo[i - 1] + t.mInfoInc)

LEMMA ModSmall ==
  ASSUME NEW a \in Nat, NEW n \in Nat, a < n
  PROVE  a % n = a
OBVIOUS

LEMMA PutIs ==
  ASSUME NEW t, Shaped(t), Room(t), t.mMask # 0, NEW node \in Pair,
         NEW d, NEW p \in Nat, p = Home(t, node.first) + d,
         NEW info \in 0..(InfoByte - 1), info = Info(t, node.first, d),
         NEW f \in p..(Slots(t) - 1),
         f = FreeFrom(t, p),
         \A j \in p..(f - 1) : t.mInfo[j] # 0
  PROVE  Put(t, PutAt(t, node, d), node, info, p, f)
<1>1. PICK hash, keyVals, bytes, num, mask, max, inc, shift :
        t = [mHashMultiplier |-> hash, mKeyVals |-> keyVals, mInfo |-> bytes,
             mNumElements |-> num, mMask |-> mask,
             mMaxNumElementsAllowed |-> max,
             mInfoInc |-> inc, mInfoHashShift |-> shift]
  BY DEF Shaped, Fields
<1>2. PICK slots : slots = Slots(t)
  OBVIOUS
<1>3. /\ slots \in Nat /\ InfoByte \in Nat /\ f \in Nat /\ p <= f /\ f < slots
      /\ inc \in Nat /\ DOMAIN bytes = 0..(slots + 7)
      /\ DOMAIN keyVals = 0..(slots - 1)
      /\ \A i \in 0..(slots + 7) : bytes[i] \in 0..(InfoByte - 1)
  <2>1. slots \in Nat /\ InfoByte \in Nat
    BY <1>2, Geometry
  <2>2. DOMAIN t.mInfo = 0..(Slots(t) + 7) /\ DOMAIN t.mKeyVals = 0..(Slots(t) - 1)
    BY DEF Shaped, Sized
  <2>3. t.mInfo = bytes /\ t.mKeyVals = keyVals /\ t.mInfoInc = inc
    BY <1>1
  <2>4. \A i \in DOMAIN t.mInfo : t.mInfo[i] \in 0..(InfoByte - 1)
    BY Geometry
  <2>5. t.mInfoInc \in Nat
    BY DEF Shaped, Fields
  <2>6. f \in Nat /\ p <= f /\ f < slots /\ inc \in Nat
    BY <1>2, <2>1, <2>3, <2>5
  <2>7. DOMAIN bytes = 0..(slots + 7) /\ DOMAIN keyVals = 0..(slots - 1)
    BY <1>2, <2>2, <2>3
  <2>8. \A i \in 0..(slots + 7) : bytes[i] \in 0..(InfoByte - 1)
    BY <2>3, <2>4, <2>7
  <2> QED
    BY <2>1, <2>6, <2>7, <2>8
<1> DEFINE moved == (p + 1)..f
<1>4. ASSUME NEW i \in moved
      PROVE  /\ i - 1 \in p..(f - 1) /\ bytes[i - 1] \in Nat
             /\ (bytes[i - 1] + inc) % InfoByte = bytes[i - 1] + inc
  <2>1. i - 1 \in p..(f - 1) /\ i - 1 \in 0..(slots + 7) /\ i - 1 \in 0..(slots - 1)
    <3>1. slots \in Nat /\ f \in Nat /\ p <= f /\ f < slots
      BY <1>3
    <3>2. i \in Nat /\ p + 1 <= i /\ i <= f
      BY <3>1
    <3>3. PICK j \in Nat : i = j + 1
      <4>1. i - 1 \in Nat /\ i = (i - 1) + 1
        BY <3>2
      <4> QED
        BY <4>1
    <3> HIDE DEF moved
    <3>4. i - 1 = j /\ p <= j /\ j <= f - 1
      BY <3>1, <3>2, <3>3
    <3> QED
      BY <3>1, <3>4
  <2>2. bytes[i - 1] # 0 /\ i - 1 \in Used(t)
    BY <1>1, <1>2, <2>1 DEF Used
  <2>3. PICK a, n : a = bytes[i - 1] /\ n = InfoByte
    OBVIOUS
  <2>4. a \in 0..(n - 1) /\ inc \in Nat /\ n \in Nat
    BY <1>3, <2>1, <2>3
  <2>5. a + inc <= n - 1
    <3>1. ~Full(t, t.mInfo[i - 1])
      BY <2>2 DEF Room
    <3>2. t.mInfo[i - 1] = a /\ t.mInfoInc = inc
      BY <1>1, <2>3
    <3>3. ~(a + inc > n - 1)
      BY <2>3, <3>1, <3>2 DEF Full
    <3> QED
      BY <2>4, <3>3
  <2>6. a + inc \in Nat /\ a + inc < n
    BY <2>4, <2>5
  <2>7. PICK sum : sum = a + inc
    OBVIOUS
  <2>8. sum % n = sum
    BY <2>4, <2>6, <2>7, ModSmall
  <2> QED
    BY <2>1, <2>3, <2>4, <2>7, <2>8
<1>5. PICK kv, by : /\ kv = [i \in DOMAIN keyVals |-> IF i \in moved THEN keyVals[i - 1] ELSE keyVals[i]]
                    /\ by = [i \in DOMAIN bytes |-> IF i \in moved THEN (bytes[i - 1] + inc) % InfoByte ELSE bytes[i]]
  OBVIOUS
<1>6. PICK b : b = IF Full(t, info) THEN [t EXCEPT !.mMaxNumElementsAllowed = 0] ELSE t
  OBVIOUS
<1>7. PICK m0 : m0 = IF Full(t, info) THEN 0 ELSE max
  OBVIOUS
<1>8. b = [mHashMultiplier |-> hash, mKeyVals |-> keyVals, mInfo |-> bytes,
           mNumElements |-> num, mMask |-> mask,
           mMaxNumElementsAllowed |-> m0,
           mInfoInc |-> inc, mInfoHashShift |-> shift]
  BY <1>1, <1>6, <1>7
<1>9. PICK m1 : m1 = IF \E i \in moved : Full(b, (bytes[i - 1] + inc) % InfoByte) THEN 0 ELSE m0
  OBVIOUS
<1>10. shiftUp(b, f, p) =
          [mHashMultiplier |-> hash, mKeyVals |-> kv, mInfo |-> by,
           mNumElements |-> num, mMask |-> mask,
           mMaxNumElementsAllowed |-> m1,
           mInfoInc |-> inc, mInfoHashShift |-> shift]
  <2>1. /\ b.mKeyVals = keyVals /\ b.mInfo = bytes /\ b.mInfoInc = inc
        /\ b.mMaxNumElementsAllowed = m0
    BY <1>8
  <2>2. shiftUp(b, f, p) = [b EXCEPT !.mKeyVals = kv, !.mInfo = by, !.mMaxNumElementsAllowed = m1]
    BY <1>5, <1>9, <2>1 DEF shiftUp
  <2> QED
    BY <1>8, <2>2
<1>11. PICK kv2, by2 : /\ kv2 = [kv EXCEPT ![p] = node]
                       /\ by2 = [by EXCEPT ![p] = info]
  OBVIOUS
<1>12. PICK v : v = PutAt(t, node, d)
  OBVIOUS
<1>13. v = [mHashMultiplier |-> hash, mKeyVals |-> kv2, mInfo |-> by2,
           mNumElements |-> num + 1, mMask |-> mask,
           mMaxNumElementsAllowed |-> m1,
           mInfoInc |-> inc, mInfoHashShift |-> shift]
  <2>1. info % InfoByte = info
    BY <1>3, ModSmall
  <2>2. PICK w : w = shiftUp(b, f, p)
    OBVIOUS
  <2>3. v = [w EXCEPT !.mKeyVals[p] = node, !.mInfo[p] = info, !.mNumElements = @ + 1]
    BY <1>6, <1>12, <2>1, <2>2 DEF PutAt, FreeFrom
  <2>4. w.mKeyVals = kv /\ w.mInfo = by /\ w.mNumElements = num
    BY <1>10, <2>2
  <2>5. v = [w EXCEPT !.mKeyVals = kv2, !.mInfo = by2, !.mNumElements = num + 1]
    BY <1>11, <2>3, <2>4
  <2>6. w = [mHashMultiplier |-> hash, mKeyVals |-> kv, mInfo |-> by,
             mNumElements |-> num, mMask |-> mask,
             mMaxNumElementsAllowed |-> m1,
             mInfoInc |-> inc, mInfoHashShift |-> shift]
    BY <1>10, <2>2
  <2> QED
    BY <2>5, <2>6
<1>14. kv2 = PutKeyVals(t, node, p, f)
  <2>1. t.mKeyVals = keyVals
    BY <1>1
  <2> QED
    BY <1>3, <1>5, <1>11, <2>1 DEF PutKeyVals
<1>15. by2 = PutInfo(t, info, p, f)
  <2>1. t.mInfo = bytes /\ t.mInfoInc = inc
    BY <1>1
  <2> QED
    BY <1>3, <1>4, <1>5, <1>11, <2>1 DEF PutInfo
<1>16. m1 # 0 => ~Full(t, info) /\ m1 = max
  BY <1>7, <1>9
<1>17. m1 # 0 => \A i \in moved : ~Full(t, t.mInfo[i - 1] + t.mInfoInc)
  <2>1. \A x : Full(b, x) <=> Full(t, x)
    BY <1>1, <1>8 DEF Full
  <2>2. t.mInfo = bytes /\ t.mInfoInc = inc
    BY <1>1
  <2> QED
    BY <1>4, <1>9, <2>1, <2>2
<1>18. /\ t.mHashMultiplier = hash /\ t.mNumElements = num /\ t.mMask = mask
       /\ t.mInfoInc = inc /\ t.mInfoHashShift = shift
       /\ t.mMaxNumElementsAllowed = max
  BY <1>1
<1>19. v.mMaxNumElementsAllowed = m1 /\ m1 \in {0, max}
  BY <1>7, <1>9, <1>13
<1> QED
  BY <1>12, <1>13, <1>14, <1>15, <1>16, <1>17, <1>18, <1>19 DEF Put

(* Where a new node of a key goes.                                          *)
Spot(t, key, info, p, f) ==
    /\ p \in Nat /\ f \in p..(Slots(t) - 1) /\ info \in 0..(InfoByte - 1)
    /\ Home(t, key) <= p /\ info = Info(t, key, p - Home(t, key))
    /\ t.mInfo[f] = 0 /\ \A j \in p..(f - 1) : t.mInfo[j] # 0
    /\ info > t.mInfo[p]
    /\ p > Home(t, key) => t.mInfo[p - 1] >= info - t.mInfoInc

(* A step is at most half of what an info byte holds.                       *)
LEMMA IncSmall ==
  ASSUME NEW t, Shaped(t)
  PROVE  2 * t.mInfoInc <= InfoByte
<1>1. /\ t.mInfoHashShift \in Nat /\ t.mInfoHashShift < InitialInfoNumBits
      /\ t.mInfoInc = Power[InitialInfoNumBits - t.mInfoHashShift]
      /\ InitialInfoNumBits \in Nat
  BY RobinHoodAssumption DEF Shaped, Fields, Scaled
<1>2. PICK b, c : b = InitialInfoNumBits - t.mInfoHashShift /\ c = t.mInfoHashShift
  OBVIOUS
<1>3. b \in Nat /\ c \in Nat /\ b + c = InitialInfoNumBits
  BY <1>1, <1>2
<1>4. Power[b + c] = Power[b] * Power[c]
  BY <1>3, PowerSum
<1>5. /\ Power[b] \in Nat /\ Power[c] \in Nat /\ Power[c] > 0
  BY <1>3, PowerIs
<1>6. PICK x, y : x = Power[b] /\ y = Power[c]
  OBVIOUS
<1>7. x * y >= x
  <2>1. PICK z \in Nat : y = 1 + z
    <3>1. y - 1 \in Nat /\ y = 1 + (y - 1)
      BY <1>5, <1>6
    <3> QED
      BY <3>1
  <2>2. x * y = x + x * z /\ x * z \in Nat
    BY <1>5, <1>6, <2>1
  <2> QED
    BY <1>5, <1>6, <2>2
<1>8. PICK all : all = x * y
  OBVIOUS
<1>9. InitialInfoInc = all /\ all >= x /\ all \in Nat
  BY <1>3, <1>4, <1>5, <1>6, <1>7, <1>8 DEF InitialInfoInc
<1>10. 2 * InitialInfoInc <= InfoByte /\ InfoByte \in Nat
  BY RobinHoodAssumption
<1>11. t.mInfoInc = x /\ x \in Nat
  BY <1>1, <1>2, <1>5, <1>6
<1> QED
  BY <1>9, <1>10, <1>11

LEMMA PutSpot ==
  ASSUME NEW t, Sound(t), Room(t), t.mMask # 0,
         t.mNumElements < calcMaxNumElementsAllowed(t.mMask + 1),
         NEW node \in Pair
  PROVE  \E info, p, f :
           /\ Spot(t, node.first, info, p, f)
           /\ Put(t, PutAt(t, node, Passed(t, node.first)), node, info, p, f)
<1>1. PICK key, h, d, p : /\ key = node.first /\ h = Home(t, key)
                          /\ d = Passed(t, key) /\ p = h + d
  OBVIOUS
<1>2. PICK info : info = Info(t, key, d)
  OBVIOUS
<1>3. /\ Shaped(t) /\ Honest(t) /\ t.mNumElements = Cardinality(Used(t))
      /\ key \in Key
  BY <1>1 DEF Sound, Pair
<1>4. p \in Nat /\ \E f \in p..(Slots(t) - 1) :
              /\ t.mInfo[f] = 0
              /\ \A j \in p..(f - 1) : t.mInfo[j] # 0
              /\ f = FreeFrom(t, p)
  BY <1>1, <1>3, FreeSlot
<1>5. PICK f \in p..(Slots(t) - 1) :
              /\ t.mInfo[f] = 0
              /\ \A j \in p..(f - 1) : t.mInfo[j] # 0
              /\ f = FreeFrom(t, p)
  BY <1>4
<1>6. /\ d \in 0..LastStep(t, key) /\ LastStep(t, key) \in Nat
      /\ info > t.mInfo[p]
      /\ \A e \in 0..(d - 1) : /\ Info(t, key, e) <= t.mInfo[h + e]
                              /\ h + e \in Used(t)
  BY <1>1, <1>2, <1>3, PassedIs, SearchEnds DEF Met
<1>7. /\ h \in Nat /\ d \in Nat /\ p = h + d
      /\ InfoByte \in Nat /\ t.mInfoInc \in Nat
      /\ info \in Nat
  <2>1. h \in 0..t.mMask
    BY <1>1, <1>3, Steps
  <2>2. d \in Nat
    BY <1>6
  <2>3. InfoByte \in Nat
    BY <1>3, Geometry
  <2> QED
    BY <1>1, <1>2, <1>3, <2>1, <2>2, <2>3, Steps
<1>8. ASSUME d > 0
      PROVE  /\ t.mInfo[p - 1] \in Nat /\ info <= t.mInfo[p - 1] + t.mInfoInc
             /\ p - 1 \in Used(t)
  <2>1. PICK e \in Nat : d = e + 1
    <3>1. d - 1 \in Nat /\ d = (d - 1) + 1
      BY <1>7, <1>8
    <3> QED
      BY <3>1
  <2>2. h + e = p - 1 /\ e \in 0..(d - 1)
    BY <1>7, <2>1
  <2>3. Info(t, key, e) <= t.mInfo[p - 1] /\ p - 1 \in Used(t)
    BY <1>6, <2>2
  <2>4. Info(t, key, e) \in Nat /\ info = Info(t, key, e) + t.mInfoInc
    BY <1>2, <1>3, <2>1, Steps
  <2>5. t.mInfo[p - 1] \in 0..(InfoByte - 1)
    <3>1. Met(t, key, e) \in 0..(InfoByte - 1)
      <4>1. e \in 0..LastStep(t, key)
        BY <1>6, <1>7, <2>1
      <4> QED
        BY <1>3, <4>1, SearchEnds
    <3> QED
      BY <1>1, <2>2, <3>1 DEF Met
  <2>6. t.mInfo[p - 1] \in Nat
    BY <1>7, <2>5
  <2> QED
    BY <1>7, <2>3, <2>4, <2>6
<1>9. info < InfoByte
  <2>1. CASE d = 0
    <3>1. info < 2 * t.mInfoInc
      BY <1>2, <1>3, <2>1, Steps
    <3>2. 2 * t.mInfoInc <= InfoByte
      BY <1>3, IncSmall
    <3> QED
      BY <1>7, <3>1, <3>2
  <2>2. CASE d > 0
    <3>1. ~Full(t, t.mInfo[p - 1])
      BY <1>8, <2>2 DEF Room
    <3>2. ~(t.mInfo[p - 1] + t.mInfoInc > InfoByte - 1)
      BY <3>1 DEF Full
    <3> QED
      BY <1>7, <1>8, <2>2, <3>2
  <2> QED
    BY <1>7, <2>1, <2>2
<1>10. info \in 0..(InfoByte - 1)
  BY <1>7, <1>9
<1>11. Put(t, PutAt(t, node, d), node, info, p, f)
  <2>1. info = Info(t, node.first, d) /\ p = Home(t, node.first) + d
    BY <1>1, <1>2
  <2> QED
    BY <1>3, <1>4, <1>5, <1>10, <2>1, PutIs
<1>12. Spot(t, key, info, p, f)
  <2>1. h <= p /\ p - h = d /\ (p > h => d > 0)
    BY <1>7
  <2>2. p > h => t.mInfo[p - 1] >= info - t.mInfoInc
    BY <1>7, <1>8, <2>1
  <2> QED
    BY <1>1, <1>2, <1>4, <1>5, <1>6, <1>10, <2>1, <2>2 DEF Spot
<1> QED
  BY <1>1, <1>11, <1>12

(* Tables of the same size, hash and scale have the same homes and infos.   *)
LEMMA SameIs ==
  ASSUME NEW t, NEW v, Same(t, v)
  PROVE  /\ Slots(v) = Slots(t)
         /\ \A key : Home(v, key) = Home(t, key)
         /\ \A key, d : Info(v, key, d) = Info(t, key, d)
         /\ \A x : Full(v, x) <=> Full(t, x)
         /\ Scaled(t) => Scaled(v)
BY DEF Same, Slots, Home, Info, HomeInfo, Full, Scaled

(* The members of the table that comes about.                               *)
LEMMA PutMembers ==
  ASSUME NEW t, NEW v, NEW node, NEW info, NEW p, NEW f,
         Put(t, v, node, info, p, f)
  PROVE  /\ Same(t, v)
         /\ v.mKeyVals = PutKeyVals(t, node, p, f)
         /\ v.mInfo = PutInfo(t, info, p, f)
         /\ v.mNumElements = t.mNumElements + 1
         /\ v = [mHashMultiplier |-> v.mHashMultiplier, mKeyVals |-> v.mKeyVals,
                 mInfo |-> v.mInfo, mNumElements |-> v.mNumElements,
                 mMask |-> v.mMask,
                 mMaxNumElementsAllowed |-> v.mMaxNumElementsAllowed,
                 mInfoInc |-> v.mInfoInc, mInfoHashShift |-> v.mInfoHashShift]
<1>1. PICK hash, keyVals, bytes, num, mask, max, inc, shift :
        /\ hash = t.mHashMultiplier /\ keyVals = PutKeyVals(t, node, p, f)
        /\ bytes = PutInfo(t, info, p, f) /\ num = t.mNumElements + 1
        /\ mask = t.mMask /\ max = v.mMaxNumElementsAllowed
        /\ inc = t.mInfoInc /\ shift = t.mInfoHashShift
  OBVIOUS
<1>2. v = [mHashMultiplier |-> hash, mKeyVals |-> keyVals, mInfo |-> bytes,
           mNumElements |-> num, mMask |-> mask,
           mMaxNumElementsAllowed |-> max,
           mInfoInc |-> inc, mInfoHashShift |-> shift]
  BY <1>1 DEF Put
<1>3. /\ v.mHashMultiplier = hash /\ v.mKeyVals = keyVals /\ v.mInfo = bytes
      /\ v.mNumElements = num /\ v.mMask = mask
      /\ v.mMaxNumElementsAllowed = max
      /\ v.mInfoInc = inc /\ v.mInfoHashShift = shift
  BY <1>2
<1> QED
  BY <1>1, <1>2, <1>3 DEF Same

(* What a slot of the new table comes from: the node, or an old slot.       *)
LEMMA PutSlots ==
  ASSUME NEW t, NEW v, NEW node, NEW info, NEW p, NEW f, NEW key,
         Shaped(t), Room(t), t.mMask # 0,
         Spot(t, key, info, p, f), Put(t, v, node, info, p, f)
  PROVE  /\ DOMAIN v.mInfo = 0..(Slots(t) + 7) /\ DOMAIN v.mKeyVals = 0..(Slots(t) - 1)
         /\ v.mInfo[p] = info /\ v.mKeyVals[p] = node
         /\ \A i \in (p + 1)..f :
              /\ v.mInfo[i] = t.mInfo[i - 1] + t.mInfoInc
              /\ v.mKeyVals[i] = t.mKeyVals[i - 1]
              /\ i - 1 \in Used(t)
              /\ t.mInfo[i - 1] + t.mInfoInc \in 0..(InfoByte - 1)
         /\ \A i \in 0..(Slots(t) + 7) : i \notin p..f => v.mInfo[i] = t.mInfo[i]
         /\ \A i \in 0..(Slots(t) - 1) : i \notin p..f => v.mKeyVals[i] = t.mKeyVals[i]
         /\ Used(v) = Used(t) \cup {f} /\ f \notin Used(t)
<1>1. PICK slots, inc, old, n : /\ slots = Slots(t) /\ inc = t.mInfoInc
                                /\ old = t.mInfo /\ n = InfoByte
  OBVIOUS
<1>2. /\ slots \in Nat /\ inc \in Nat /\ n \in Nat
      /\ p \in Nat /\ f \in p..(slots - 1) /\ f \in Nat
      /\ info \in 0..(n - 1)
      /\ DOMAIN old = 0..(slots + 7) /\ DOMAIN t.mKeyVals = 0..(slots - 1)
      /\ old[f] = 0 /\ \A j \in p..(f - 1) : old[j] # 0
      /\ info > old[p]
  <2>1. slots \in Nat /\ n \in Nat
    BY <1>1, Geometry
  <2>2. /\ p \in Nat /\ f \in p..(slots - 1) /\ info \in 0..(n - 1)
        /\ old[f] = 0 /\ \A j \in p..(f - 1) : old[j] # 0
        /\ info > old[p]
    BY <1>1 DEF Spot
  <2>3. DOMAIN old = 0..(slots + 7) /\ DOMAIN t.mKeyVals = 0..(slots - 1)
    BY <1>1 DEF Shaped, Sized
  <2>4. inc \in Nat
    BY <1>1 DEF Shaped, Fields
  <2> QED
    BY <2>1, <2>2, <2>3, <2>4
<1>3. \A i \in DOMAIN old : old[i] \in 0..(n - 1)
  BY <1>1, Geometry
<1>4. v.mKeyVals = PutKeyVals(t, node, p, f) /\ v.mInfo = PutInfo(t, info, p, f)
      /\ Same(t, v)
  BY PutMembers
<1>5. DOMAIN v.mInfo = 0..(slots + 7) /\ DOMAIN v.mKeyVals = 0..(slots - 1)
  BY <1>1, <1>2, <1>4 DEF PutKeyVals, PutInfo
<1>6. v.mInfo[p] = info /\ v.mKeyVals[p] = node
  <2>1. p \in 0..(slots + 7) /\ p \in 0..(slots - 1)
    BY <1>2
  <2> QED
    BY <1>1, <1>2, <1>4, <2>1 DEF PutKeyVals, PutInfo
<1>7. ASSUME NEW i \in (p + 1)..f
      PROVE  /\ v.mInfo[i] = old[i - 1] + inc
             /\ v.mKeyVals[i] = t.mKeyVals[i - 1]
             /\ i - 1 \in Used(t)
             /\ old[i - 1] + inc \in 0..(n - 1)
  <2>1. /\ i \in 0..(slots + 7) /\ i \in 0..(slots - 1) /\ i # p
        /\ i - 1 \in p..(f - 1) /\ i - 1 \in 0..(slots - 1) /\ i - 1 \in 0..(slots + 7)
    BY <1>2
  <2>2. v.mInfo[i] = old[i - 1] + inc /\ v.mKeyVals[i] = t.mKeyVals[i - 1]
    BY <1>1, <1>2, <1>4, <2>1 DEF PutKeyVals, PutInfo
  <2>3. old[i - 1] # 0 /\ i - 1 \in Used(t)
    BY <1>1, <1>2, <2>1 DEF Used
  <2>4. PICK a : a = old[i - 1]
    OBVIOUS
  <2>5. a \in 0..(n - 1)
    BY <1>2, <1>3, <2>1, <2>4
  <2>6. ~(a + inc > n - 1)
    <3>1. ~Full(t, t.mInfo[i - 1])
      BY <2>3 DEF Room
    <3> QED
      BY <1>1, <2>4, <3>1 DEF Full
  <2>7. a + inc \in 0..(n - 1)
    BY <1>2, <2>5, <2>6
  <2> QED
    BY <2>2, <2>3, <2>4, <2>7
<1>8. ASSUME NEW i \in 0..(slots + 7), i \notin p..f
      PROVE  /\ v.mInfo[i] = old[i]
             /\ i \in 0..(slots - 1) => v.mKeyVals[i] = t.mKeyVals[i]
  <2>1. i # p /\ i \notin (p + 1)..f
    BY <1>2, <1>8
  <2> QED
    BY <1>1, <1>2, <1>4, <2>1 DEF PutKeyVals, PutInfo
<1>9. \A i \in 0..(slots - 1) : i \notin p..f => v.mKeyVals[i] = t.mKeyVals[i]
  <2>1. 0..(slots - 1) \subseteq 0..(slots + 7)
    BY <1>2
  <2> QED
    BY <1>8, <2>1
<1>10. Used(v) = Used(t) \cup {f} /\ f \notin Used(t)
  <2>1. Slots(v) = slots
    BY <1>1, <1>4, SameIs
  <2>2. Used(t) = {i \in 0..(slots - 1) : old[i] # 0}
        /\ Used(v) = {i \in 0..(slots - 1) : v.mInfo[i] # 0}
    BY <1>1, <2>1 DEF Used
  <2>3. ASSUME NEW i \in 0..(slots - 1)
        PROVE  v.mInfo[i] # 0 <=> old[i] # 0 \/ i = f
    <3>1. CASE i \notin p..f
      <4>1. i \in 0..(slots + 7) /\ i # f
        BY <1>2, <3>1
      <4> QED
        BY <1>8, <3>1, <4>1
    <3>2. CASE i = p
      <4>1. info # 0
        <5>1. p \in DOMAIN old
          BY <1>2
        <5>2. PICK a : a = old[p] /\ a \in 0..(n - 1)
          BY <1>3, <5>1
        <5> QED
          BY <1>2, <5>2
      <4>2. p = f \/ p \in p..(f - 1)
        BY <1>2
      <4> QED
        BY <1>2, <1>6, <3>2, <4>1, <4>2
    <3>3. CASE i \in (p + 1)..f
      <4>1. PICK a : a = old[i - 1]
        OBVIOUS
      <4>2. a \in 0..(n - 1) /\ a # 0
        <5>1. i - 1 \in p..(f - 1) /\ i - 1 \in DOMAIN old
          BY <1>2, <3>3
        <5> QED
          BY <1>2, <1>3, <4>1, <5>1
      <4>3. v.mInfo[i] = a + inc
        BY <1>7, <3>3, <4>1
      <4>4. v.mInfo[i] # 0
        BY <1>2, <4>2, <4>3
      <4>5. i = f \/ i \in p..(f - 1)
        BY <1>2, <3>3
      <4> QED
        BY <1>2, <4>4, <4>5
    <3>4. i \in p..f => i = p \/ i \in (p + 1)..f
      BY <1>2
    <3> QED
      BY <3>1, <3>2, <3>3, <3>4
  <2>4. f \in 0..(slots - 1)
    BY <1>2
  <2> QED
    BY <1>2, <2>2, <2>3, <2>4
<1> QED
  BY <1>1, <1>5, <1>6, <1>7, <1>8, <1>9, <1>10

(* Facts about used slots.                                                  *)
LEMMA UsedIs ==
  ASSUME NEW t, Shaped(t), Honest(t), NEW i \in Used(t)
  PROVE  /\ t.mKeyVals[i] \in Pair /\ KeyAt(t, i) \in Key
         /\ i \in Nat /\ i \in 0..(Slots(t) - 1)
         /\ Home(t, KeyAt(t, i)) \in Nat /\ i - Home(t, KeyAt(t, i)) \in Nat
         /\ t.mInfo[i] = Info(t, KeyAt(t, i), i - Home(t, KeyAt(t, i)))
         /\ t.mInfo[i] >= t.mInfoInc /\ t.mInfo[i] \in Nat
<1>1. PICK k, h : k = KeyAt(t, i) /\ h = Home(t, k)
  OBVIOUS
<1>2. t.mKeyVals[i] \in Pair /\ k \in Key /\ i >= h /\ t.mInfo[i] = Info(t, k, i - h)
  BY <1>1 DEF Honest, KeyAt, Pair
<1>3. h \in 0..t.mMask /\ t.mMask \in Nat
  BY <1>1, <1>2, Steps DEF Shaped, Fields
<1>4. Slots(t) \in Nat /\ i \in 0..(Slots(t) - 1)
  BY Geometry DEF Used
<1>5. h \in Nat /\ i \in Nat /\ i - h \in Nat
  BY <1>2, <1>3, <1>4
<1>6. PICK d \in Nat : d = i - h
  BY <1>5
<1>7. Info(t, k, d) >= t.mInfoInc /\ Info(t, k, d) \in Nat
  BY <1>2, <1>6, Steps
<1> QED
  BY <1>1, <1>2, <1>4, <1>5, <1>6, <1>7

(* A table with a node put at its place is as sound as it was: every node   *)
(* that moved is one more from home, and still in order.                    *)
PutAs(t, v, node, info, p, f) ==
    /\ Sound(t) /\ Room(t) /\ t.mMask # 0
    /\ Spot(t, node.first, info, p, f) /\ Put(t, v, node, info, p, f)
    /\ node \in Pair /\ node.first \notin Keys(t)

LEMMA PutFacts ==
  ASSUME NEW t, NEW v, NEW node, NEW info, NEW p, NEW f,
         PutAs(t, v, node, info, p, f)
  PROVE  /\ Slots(t) \in Nat /\ Slots(v) = Slots(t)
         /\ t.mInfoInc \in Nat /\ v.mInfoInc = t.mInfoInc
         /\ t.mInfoInc >= 2 /\ InfoByte \in Nat
         /\ p \in Nat /\ f \in Nat /\ p <= f /\ f < Slots(t)
         /\ info \in 0..(InfoByte - 1) /\ node.first \in Key
         /\ Home(t, node.first) \in Nat
         /\ \A i \in 0..(Slots(t) + 7) : t.mInfo[i] \in 0..(InfoByte - 1)
<1>1. Shaped(t) /\ t.mMask # 0 /\ node.first \in Key
  BY DEF PutAs, Sound, Pair
<1>2. Slots(t) \in Nat /\ InfoByte \in Nat /\ t.mMask \in Nat
  BY <1>1, Geometry DEF Shaped, Fields
<1>3. Same(t, v)
  BY PutMembers DEF PutAs
<1>4. Slots(v) = Slots(t) /\ v.mInfoInc = t.mInfoInc
  BY <1>3, SameIs DEF Same
<1>5. p \in Nat /\ f \in p..(Slots(t) - 1) /\ info \in 0..(InfoByte - 1)
  BY DEF PutAs, Spot
<1>6. DOMAIN t.mInfo = 0..(Slots(t) + 7)
  BY <1>1 DEF Shaped, Sized
<1>7. \A i \in DOMAIN t.mInfo : t.mInfo[i] \in 0..(InfoByte - 1)
  BY <1>1, Geometry
<1>8. Home(t, node.first) \in 0..t.mMask /\ t.mInfoInc \in Nat /\ t.mInfoInc >= 2
  BY <1>1, Steps
<1> QED
  BY <1>1, <1>2, <1>4, <1>5, <1>6, <1>7, <1>8

LEMMA PutShaped ==
  ASSUME NEW t, NEW v, NEW node, NEW info, NEW p, NEW f,
         PutAs(t, v, node, info, p, f)
  PROVE  Shaped(v)
<1>1. PICK key, slots : key = node.first /\ slots = Slots(t)
  OBVIOUS
<1>2. /\ Shaped(t) /\ Room(t) /\ t.mMask # 0 /\ Spot(t, key, info, p, f)
      /\ Put(t, v, node, info, p, f)
  BY <1>1 DEF PutAs, Sound
<1>3. /\ DOMAIN v.mInfo = 0..(slots + 7) /\ DOMAIN v.mKeyVals = 0..(slots - 1)
      /\ v.mInfo[p] = info /\ v.mKeyVals[p] = node
      /\ \A i \in (p + 1)..f :
           /\ v.mInfo[i] = t.mInfo[i - 1] + t.mInfoInc
           /\ v.mKeyVals[i] = t.mKeyVals[i - 1]
           /\ t.mInfo[i - 1] + t.mInfoInc \in 0..(InfoByte - 1)
      /\ \A i \in 0..(slots + 7) : i \notin p..f => v.mInfo[i] = t.mInfo[i]
      /\ \A i \in 0..(slots - 1) : i \notin p..f => v.mKeyVals[i] = t.mKeyVals[i]
  BY <1>1, <1>2, PutSlots
<1>4. /\ slots \in Nat /\ p \in Nat /\ f \in Nat /\ p <= f /\ f < slots
      /\ info \in 0..(InfoByte - 1)
      /\ \A i \in 0..(slots + 7) : t.mInfo[i] \in 0..(InfoByte - 1)
  BY <1>1, PutFacts
<1>5. /\ Same(t, v) /\ v.mNumElements = t.mNumElements + 1
      /\ v = [mHashMultiplier |-> v.mHashMultiplier, mKeyVals |-> v.mKeyVals,
              mInfo |-> v.mInfo, mNumElements |-> v.mNumElements,
              mMask |-> v.mMask,
              mMaxNumElementsAllowed |-> v.mMaxNumElementsAllowed,
              mInfoInc |-> v.mInfoInc, mInfoHashShift |-> v.mInfoHashShift]
  BY <1>2, PutMembers
<1>6. \A i \in p..f : i = p \/ i \in (p + 1)..f
  BY <1>4
<1>7. \A i \in 0..(slots + 7) : v.mInfo[i] \in 0..(InfoByte - 1)
  BY <1>3, <1>4, <1>6
<1>8. \A i \in 0..(slots - 1) : v.mKeyVals[i] \in Pair \cup {NoNode}
  <2>1. \A i \in 0..(slots - 1) : t.mKeyVals[i] \in Pair \cup {NoNode}
    BY <1>1, <1>2 DEF Shaped, Sized, Fields
  <2>2. node \in Pair
    BY DEF PutAs
  <2>3. \A i \in (p + 1)..f : i - 1 \in 0..(slots - 1)
    BY <1>4
  <2> QED
    BY <1>3, <1>6, <2>1, <2>2, <2>3
<1>9. v.mInfo = [i \in DOMAIN v.mInfo |-> v.mInfo[i]]
      /\ v.mKeyVals = [i \in DOMAIN v.mKeyVals |-> v.mKeyVals[i]]
  <2>1. v.mInfo = PutInfo(t, info, p, f) /\ v.mKeyVals = PutKeyVals(t, node, p, f)
    BY <1>2, PutMembers
  <2> QED
    BY <2>1 DEF PutInfo, PutKeyVals
<1>10. v.mInfo \in [DOMAIN v.mInfo -> 0..(InfoByte - 1)]
  BY <1>3, <1>7, <1>9
<1>11. v.mKeyVals \in [DOMAIN v.mKeyVals -> Pair \cup {NoNode}]
  BY <1>3, <1>8, <1>9
<1>12. Fields(v)
  <2>1. /\ v.mHashMultiplier \in 0..(Multipliers - 1)
        /\ v.mMask \in Nat /\ v.mInfoInc \in Nat /\ v.mInfoHashShift \in Nat
        /\ v.mNumElements \in Nat
    BY <1>2, <1>5 DEF Shaped, Fields, Same
  <2>2. v.mMaxNumElementsAllowed \in Nat
    BY <1>2 DEF Shaped, Fields, Put
  <2> QED
    BY <1>5, <1>10, <1>11, <2>1, <2>2 DEF Fields
<1>13. Slots(v) = slots /\ Scaled(v) /\ v.mMask = t.mMask
  BY <1>1, <1>2, <1>5, SameIs DEF Shaped, Same
<1>14. Sized(v)
  <2>1. t.mInfo[slots] = 1 /\ \A i \in (slots + 1)..(slots + 7) : t.mInfo[i] = 0
    BY <1>1, <1>2 DEF Shaped, Sized
  <2>2. /\ slots \in 0..(slots + 7) /\ slots \notin p..f
        /\ \A i \in (slots + 1)..(slots + 7) : i \in 0..(slots + 7) /\ i \notin p..f
    BY <1>4
  <2>3. v.mInfo[slots] = 1
    BY <1>3, <2>1, <2>2
  <2>4. \A i \in (slots + 1)..(slots + 7) : v.mInfo[i] = 0
    BY <1>3, <2>1, <2>2
  <2> QED
    BY <1>2, <1>3, <1>13, <2>3, <2>4 DEF Sized
<1> QED
  BY <1>12, <1>13, <1>14 DEF Shaped

LEMMA PutOrdered ==
  ASSUME NEW t, NEW v, NEW node, NEW info, NEW p, NEW f,
         PutAs(t, v, node, info, p, f)
  PROVE  Ordered(v)
<1>1. PICK key, slots, inc, old, new :
         /\ key = node.first /\ slots = Slots(t) /\ inc = t.mInfoInc
         /\ old = t.mInfo /\ new = v.mInfo
  OBVIOUS
<1>2. /\ Shaped(t) /\ Room(t) /\ t.mMask # 0 /\ Spot(t, key, info, p, f)
      /\ Put(t, v, node, info, p, f) /\ Honest(t) /\ Ordered(t)
  BY <1>1 DEF PutAs, Sound
<1>3. /\ slots \in Nat /\ p \in Nat /\ f \in Nat /\ p <= f /\ f < slots
      /\ inc \in Nat /\ inc >= 2 /\ InfoByte \in Nat
      /\ info \in 0..(InfoByte - 1) /\ Slots(v) = slots /\ v.mInfoInc = inc
      /\ \A i \in 0..(slots + 7) : old[i] \in 0..(InfoByte - 1)
      /\ key \in Key /\ Home(t, key) \in Nat
  BY <1>1, PutFacts
<1>4. /\ new[p] = info
      /\ \A i \in (p + 1)..f : /\ new[i] = old[i - 1] + inc
                              /\ i - 1 \in Used(t)
      /\ \A i \in 0..(slots + 7) : i \notin p..f => new[i] = old[i]
  BY <1>1, <1>2, PutSlots
<1>5. \A i \in 0..(slots - 1) : i \in 0..(slots + 7)
  BY <1>3
<1>6. \A i \in 0..(slots - 1) : old[i] \in Nat
  BY <1>3, <1>5
<1>7. \A i \in 1..(slots - 1) : old[i] >= 2 * inc => old[i - 1] >= old[i] - inc
  BY <1>1, <1>2 DEF Ordered
<1>8. /\ old[f] = 0 /\ info > old[p]
      /\ Home(t, key) <= p /\ info = Info(t, key, p - Home(t, key))
      /\ p > Home(t, key) => old[p - 1] >= info - inc
  BY <1>1, <1>2 DEF Spot
<1>9. ASSUME NEW i \in 1..(slots - 1), new[i] >= 2 * inc
      PROVE  new[i - 1] >= new[i] - inc
  <2>1. i \in 0..(slots - 1) /\ i - 1 \in 0..(slots - 1) /\ i \in Nat /\ i - 1 \in Nat
        /\ i \in 0..(slots + 7) /\ i - 1 \in 0..(slots + 7)
    BY <1>3
  <2>2. PICK a, b, c, e : a = old[i] /\ b = old[i - 1] /\ c = new[i] /\ e = new[i - 1]
    OBVIOUS
  <2>3. a \in Nat /\ b \in Nat
    BY <1>6, <2>1, <2>2
  <2>4. CASE i < p \/ i > f + 1
    <3>1. i \notin p..f /\ i - 1 \notin p..f
      BY <1>3, <2>1, <2>4
    <3>2. c = a /\ e = b
      BY <1>4, <2>1, <2>2, <3>1
    <3> QED
      BY <1>7, <1>9, <2>2, <3>2
  <2>5. CASE i = p
    <3>1. c = info /\ i - 1 \notin p..f
      BY <1>3, <1>4, <2>1, <2>2, <2>5
    <3>2. e = b
      BY <1>4, <2>1, <2>2, <3>1
    <3>3. p # Home(t, key)
      <4>1. ASSUME p = Home(t, key) PROVE FALSE
        <5>1. p - Home(t, key) = 0
          BY <1>3, <4>1
        <5>2. info = Info(t, key, 0)
          BY <1>8, <5>1
        <5>3. info < 2 * inc
          BY <1>1, <1>2, <1>3, <5>2, Steps
        <5> QED
          BY <1>3, <1>9, <2>2, <3>1, <5>3
      <4> QED
        BY <4>1
    <3>4. p > Home(t, key)
      BY <1>3, <1>8, <3>3
    <3> QED
      BY <1>8, <2>2, <2>5, <3>1, <3>2, <3>4
  <2>6. CASE i = p + 1 /\ i <= f
    <3>1. i \in (p + 1)..f /\ i - 1 = p
      BY <1>3, <2>1, <2>6
    <3>2. c = b + inc /\ e = info /\ b = old[p]
      BY <1>4, <2>2, <3>1
    <3>3. info \in Nat /\ info > b
      BY <1>3, <1>8, <3>2
    <3>4. e >= c - inc
      BY <1>3, <2>3, <3>2, <3>3
    <3> QED
      BY <2>2, <3>4
  <2>7. CASE i > p + 1 /\ i <= f
    <3>1. /\ i \in (p + 1)..f /\ i - 1 \in (p + 1)..f
          /\ i - 1 \in 1..(slots - 1) /\ (i - 1) - 1 \in 0..(slots - 1)
      BY <1>3, <2>1, <2>7
    <3>2. PICK g : g = old[(i - 1) - 1]
      OBVIOUS
    <3>3. c = b + inc /\ e = g + inc /\ (i - 1) - 1 \in Used(t)
      BY <1>4, <2>2, <3>1, <3>2
    <3>4. g \in Nat /\ g >= inc
      <4>1. PICK j : j = (i - 1) - 1
        OBVIOUS
      <4>2. j \in Used(t)
        BY <3>3, <4>1
      <4>3. t.mInfo[j] >= t.mInfoInc /\ t.mInfo[j] \in Nat
        BY <1>2, <4>2, UsedIs
      <4> QED
        BY <1>1, <3>2, <4>1, <4>3
    <3>5. b >= 2 * inc => g >= b - inc
      BY <1>7, <2>2, <3>1, <3>2
    <3>6. g + inc >= b
      BY <1>3, <2>3, <3>4, <3>5
    <3>7. e >= c - inc
      BY <1>3, <2>3, <3>3, <3>4, <3>6
    <3> QED
      BY <2>2, <3>7
  <2>8. CASE i = f + 1
    <3>1. i \notin p..f /\ i - 1 = f
      BY <1>3, <2>1, <2>8
    <3>2. c = a /\ b = 0
      BY <1>4, <1>8, <2>1, <2>2, <3>1
    <3>3. a >= 2 * inc => b >= a - inc
      BY <1>7, <2>2
    <3>4. FALSE
      BY <1>3, <1>9, <2>2, <2>3, <3>2, <3>3
    <3> QED
      BY <3>4
  <2> QED
    BY <1>3, <2>1, <2>4, <2>5, <2>6, <2>7, <2>8
<1> QED
  BY <1>1, <1>3, <1>9 DEF Ordered

(* Which old slot the node of a new slot other than p's comes from.         *)
Origin(i, p, f) == IF i \in (p + 1)..f THEN i - 1 ELSE i

LEMMA PutOrigin ==
  ASSUME NEW t, NEW v, NEW node, NEW info, NEW p, NEW f,
         PutAs(t, v, node, info, p, f)
  PROVE  /\ p \in Used(v) /\ KeyAt(v, p) = node.first
         /\ \A i \in Used(v) \ {p} :
              /\ Origin(i, p, f) \in Used(t)
              /\ v.mKeyVals[i] = t.mKeyVals[Origin(i, p, f)]
              /\ KeyAt(v, i) = KeyAt(t, Origin(i, p, f))
              /\ v.mInfo[i] = IF i \in (p + 1)..f THEN t.mInfo[i - 1] + t.mInfoInc
                              ELSE t.mInfo[i]
         /\ \A j \in Used(t) : \E i \in Used(v) \ {p} : Origin(i, p, f) = j
         /\ Used(v) = Used(t) \cup {f} /\ f \notin Used(t)
         /\ \A i \in Used(v) : i \in 0..(Slots(t) - 1)
<1>1. PICK key, slots : key = node.first /\ slots = Slots(t)
  OBVIOUS
<1>2. /\ Shaped(t) /\ Room(t) /\ t.mMask # 0 /\ Spot(t, key, info, p, f)
      /\ Put(t, v, node, info, p, f)
  BY <1>1 DEF PutAs, Sound
<1>3. /\ slots \in Nat /\ p \in Nat /\ f \in Nat /\ p <= f /\ f < slots
  BY <1>1, PutFacts
<1>4. /\ v.mKeyVals[p] = node
      /\ \A i \in (p + 1)..f :
           /\ v.mInfo[i] = t.mInfo[i - 1] + t.mInfoInc
           /\ v.mKeyVals[i] = t.mKeyVals[i - 1]
           /\ i - 1 \in Used(t)
      /\ \A i \in 0..(slots + 7) : i \notin p..f => v.mInfo[i] = t.mInfo[i]
      /\ \A i \in 0..(slots - 1) : i \notin p..f => v.mKeyVals[i] = t.mKeyVals[i]
      /\ Used(v) = Used(t) \cup {f} /\ f \notin Used(t)
  BY <1>1, <1>2, PutSlots
<1>5. Used(t) \subseteq 0..(slots - 1) /\ f \in 0..(slots - 1)
  BY <1>1, <1>3 DEF Used
<1>6. p \in Used(v)
  <2>1. p = f \/ p \in Used(t)
    <3>1. \A j \in p..(f - 1) : t.mInfo[j] # 0
      BY <1>2 DEF Spot
    <3>2. p # f => p \in p..(f - 1) /\ p \in 0..(slots - 1)
      BY <1>3
    <3> QED
      BY <1>1, <3>1, <3>2 DEF Used
  <2> QED
    BY <1>4, <2>1
<1>7. ASSUME NEW i \in Used(v) \ {p}
      PROVE  /\ Origin(i, p, f) \in Used(t)
             /\ v.mKeyVals[i] = t.mKeyVals[Origin(i, p, f)]
             /\ v.mInfo[i] = IF i \in (p + 1)..f THEN t.mInfo[i - 1] + t.mInfoInc
                             ELSE t.mInfo[i]
  <2>1. CASE i \in (p + 1)..f
    BY <1>4, <2>1 DEF Origin
  <2>2. CASE i \notin (p + 1)..f
    <3>1. i \in 0..(slots - 1) /\ i \in 0..(slots + 7) /\ i \notin p..f
      BY <1>3, <1>4, <1>5, <2>2
    <3>2. i \in Used(t)
      BY <1>3, <1>4, <3>1
    <3> QED
      BY <1>4, <2>2, <3>1, <3>2 DEF Origin
  <2> QED
    BY <2>1, <2>2
<1>8. ASSUME NEW j \in Used(t)
      PROVE  \E i \in Used(v) \ {p} : Origin(i, p, f) = j
  <2>1. j \in Nat /\ j # f
    BY <1>3, <1>4, <1>5
  <2>2. CASE j \in p..(f - 1)
    <3>1. j + 1 \in (p + 1)..f /\ j + 1 # p /\ (j + 1) - 1 = j
      BY <1>3, <2>1, <2>2
    <3>2. j + 1 \in Used(v)
      <4>1. CASE j + 1 = f
        BY <1>4, <4>1
      <4>2. CASE j + 1 # f
        <5>1. j + 1 \in p..(f - 1) /\ j + 1 \in 0..(slots - 1)
          BY <1>3, <3>1, <4>2
        <5>2. t.mInfo[j + 1] # 0
          BY <1>2, <5>1 DEF Spot
        <5> QED
          BY <1>1, <1>4, <5>1, <5>2 DEF Used
      <4> QED
        BY <4>1, <4>2
    <3> QED
      BY <3>1, <3>2 DEF Origin
  <2>3. CASE j \notin p..(f - 1)
    <3>1. j \notin (p + 1)..f /\ j # p
      BY <1>3, <2>1, <2>3
    <3> QED
      BY <1>4, <3>1 DEF Origin
  <2> QED
    BY <2>2, <2>3
<1>9. \A i \in Used(v) : i \in 0..(slots - 1)
  BY <1>4, <1>5
<1> QED
  BY <1>1, <1>4, <1>6, <1>7, <1>8, <1>9 DEF KeyAt

LEMMA PutSound ==
  ASSUME NEW t, NEW v, NEW node, NEW info, NEW p, NEW f,
         PutAs(t, v, node, info, p, f)
  PROVE  /\ Sound(v) /\ Nodes(v) = Nodes(t) \cup {node}
         /\ v.mMask = t.mMask /\ v.mNumElements = t.mNumElements + 1
<1>1. /\ Shaped(t) /\ Honest(t) /\ Distinct(t) /\ Allowed(t) /\ Room(t)
      /\ t.mNumElements = Cardinality(Used(t))
      /\ node \in Pair /\ node.first \notin Keys(t)
      /\ Put(t, v, node, info, p, f) /\ Spot(t, node.first, info, p, f)
      /\ t.mMask # 0
  BY DEF PutAs, Sound
<1>2. /\ Shaped(v) /\ Ordered(v)
  BY PutShaped, PutOrdered
<1>3. /\ p \in Used(v) /\ KeyAt(v, p) = node.first
      /\ \A i \in Used(v) \ {p} :
           /\ Origin(i, p, f) \in Used(t)
           /\ v.mKeyVals[i] = t.mKeyVals[Origin(i, p, f)]
           /\ KeyAt(v, i) = KeyAt(t, Origin(i, p, f))
           /\ v.mInfo[i] = IF i \in (p + 1)..f THEN t.mInfo[i - 1] + t.mInfoInc
                           ELSE t.mInfo[i]
      /\ \A j \in Used(t) : \E i \in Used(v) \ {p} : Origin(i, p, f) = j
      /\ Used(v) = Used(t) \cup {f} /\ f \notin Used(t)
  BY PutOrigin
<1>4. /\ p \in Nat /\ f \in Nat /\ t.mInfoInc \in Nat /\ Slots(t) \in Nat
      /\ node.first \in Key /\ Home(t, node.first) \in Nat
      /\ \A i \in Used(v) : i \in 0..(Slots(t) - 1)
  BY PutFacts, PutOrigin
<1>5. Same(t, v) /\ v.mNumElements = t.mNumElements + 1
  BY <1>1, PutMembers
<1>6. v.mKeyVals[p] = node /\ v.mInfo[p] = info
  BY <1>1, PutSlots
<1>7. Honest(v)
  <2>1. ASSUME NEW i \in Used(v)
        PROVE  /\ v.mKeyVals[i] \in Pair
               /\ i >= Home(t, KeyAt(v, i))
               /\ v.mInfo[i] = Info(t, KeyAt(v, i), i - Home(t, KeyAt(v, i)))
    <3>1. CASE i = p
      BY <1>1, <1>3, <1>6, <3>1 DEF Spot
    <3>2. CASE i # p
      <4>1. PICK j, k, h : j = Origin(i, p, f) /\ k = KeyAt(v, i) /\ h = Home(t, k)
        OBVIOUS
      <4>2. j \in Used(t) /\ k = KeyAt(t, j) /\ v.mKeyVals[i] = t.mKeyVals[j]
        BY <1>3, <3>2, <4>1
      <4>3. /\ t.mKeyVals[j] \in Pair /\ j \in Nat /\ h \in Nat /\ j - h \in Nat
            /\ t.mInfo[j] = Info(t, k, j - h) /\ k \in Key
        BY <1>1, <4>1, <4>2, UsedIs
      <4>4. CASE i \in (p + 1)..f
        <5>1. i - 1 = j /\ i \in Nat /\ i - h = (j - h) + 1 /\ i >= h
          BY <1>4, <4>1, <4>3, <4>4 DEF Origin
        <5>2. v.mInfo[i] = t.mInfo[j] + t.mInfoInc
          BY <1>3, <3>2, <4>4, <5>1
        <5>3. PICK d \in Nat : d = j - h
          BY <4>3
        <5>4. Info(t, k, d + 1) = Info(t, k, d) + t.mInfoInc
          BY <1>1, <4>3, Steps
        <5> QED
          BY <4>1, <4>2, <4>3, <5>1, <5>2, <5>3, <5>4
      <4>5. CASE i \notin (p + 1)..f
        <5>1. i = j
          BY <4>1, <4>5 DEF Origin
        <5>2. v.mInfo[i] = t.mInfo[i] /\ i >= h
          BY <1>3, <3>2, <4>3, <4>5, <5>1
        <5> QED
          BY <4>1, <4>2, <4>3, <5>1, <5>2
      <4> QED
        BY <4>4, <4>5
    <3> QED
      BY <3>1, <3>2
  <2>2. /\ \A key : Home(v, key) = Home(t, key)
        /\ \A key, d : Info(v, key, d) = Info(t, key, d)
    BY <1>5, SameIs
  <2> QED
    BY <2>1, <2>2 DEF Honest
<1>8. Distinct(v)
  <2>1. ASSUME NEW i \in Used(v), NEW j \in Used(v), KeyAt(v, i) = KeyAt(v, j)
        PROVE  i = j
    <3>1. \A k \in Used(v) \ {p} : KeyAt(v, k) # node.first
      <4>1. \A k \in Used(t) : KeyAt(t, k) # node.first
        BY <1>1 DEF Keys, Nodes, KeyAt
      <4> QED
        BY <1>3, <4>1
    <3>2. CASE i = p \/ j = p
      BY <1>3, <2>1, <3>1, <3>2
    <3>3. CASE i # p /\ j # p
      <4>1. Origin(i, p, f) = Origin(j, p, f)
        BY <1>1, <1>3, <2>1, <3>3 DEF Distinct
      <4>2. i \in Nat /\ j \in Nat
        BY <1>4
      <4>3. ASSUME NEW a \in Nat, NEW b \in Nat, a \in (p + 1)..f, b \notin (p + 1)..f,
                   a - 1 = b, b # p
            PROVE  FALSE
        BY <1>4, <4>3
      <4>4. (i \in (p + 1)..f) <=> (j \in (p + 1)..f)
        <5>1. CASE i \in (p + 1)..f /\ j \notin (p + 1)..f
          <6>1. i - 1 = j
            BY <4>1, <5>1 DEF Origin
          <6> QED
            BY <3>3, <4>2, <4>3, <5>1, <6>1
        <5>2. CASE j \in (p + 1)..f /\ i \notin (p + 1)..f
          <6>1. j - 1 = i
            BY <4>1, <5>2 DEF Origin
          <6> QED
            BY <3>3, <4>2, <4>3, <5>2, <6>1
        <5> QED
          BY <5>1, <5>2
      <4>5. i = j \/ i - 1 = j - 1
        BY <4>1, <4>4 DEF Origin
      <4> QED
        BY <4>2, <4>5
    <3> QED
      BY <3>2, <3>3
  <2> QED
    BY <2>1 DEF Distinct
<1>9. Nodes(v) = Nodes(t) \cup {node}
  <2>1. ASSUME NEW x \in Nodes(v) PROVE x \in Nodes(t) \cup {node}
    <3>1. PICK i \in Used(v) : x = v.mKeyVals[i]
      BY DEF Nodes
    <3> QED
      BY <1>3, <1>6, <3>1 DEF Nodes
  <2>2. ASSUME NEW x \in Nodes(t) PROVE x \in Nodes(v)
    <3>1. PICK j \in Used(t) : x = t.mKeyVals[j]
      BY DEF Nodes
    <3>2. PICK i \in Used(v) \ {p} : Origin(i, p, f) = j
      BY <1>3
    <3>3. x = v.mKeyVals[i]
      BY <1>3, <3>1, <3>2
    <3> QED
      BY <3>3 DEF Nodes
  <2>3. node \in Nodes(v)
    BY <1>3, <1>6 DEF Nodes
  <2> QED
    BY <2>1, <2>2, <2>3
<1>10. v.mNumElements = Cardinality(Used(v))
  <2>1. IsFiniteSet(Used(t))
    BY <1>1, Geometry
  <2>2. Cardinality(Used(t) \cup {f}) = Cardinality(Used(t)) + 1
    BY <1>3, <2>1, FS_AddElement
  <2> QED
    BY <1>1, <1>3, <1>5, <2>2
<1>11. Allowed(v)
  <2>1. v.mMaxNumElementsAllowed \in {0, calcMaxNumElementsAllowed(v.mMask + 1)}
    BY <1>1, <1>5 DEF Allowed, Put, Same
  <2>2. ASSUME v.mMaxNumElementsAllowed # 0, NEW i \in Used(v)
        PROVE  ~Full(t, v.mInfo[i])
    <3>1. CASE i = p
      BY <1>1, <1>6, <2>2, <3>1 DEF Put
    <3>2. CASE i \in (p + 1)..f /\ i # p
      <4>1. v.mInfo[i] = t.mInfo[i - 1] + t.mInfoInc
        BY <1>3, <3>2
      <4> QED
        BY <1>1, <2>2, <3>2, <4>1 DEF Put
    <3>3. CASE i \notin (p + 1)..f /\ i # p
      <4>1. v.mInfo[i] = t.mInfo[i] /\ i \in Used(t)
        BY <1>3, <3>3 DEF Origin
      <4> QED
        BY <1>1, <4>1 DEF Room
    <3> QED
      BY <3>1, <3>2, <3>3
  <2>3. \A x : Full(v, x) <=> Full(t, x)
    BY <1>5, SameIs
  <2> QED
    BY <2>1, <2>2, <2>3 DEF Allowed, Room
<1> QED
  BY <1>2, <1>5, <1>7, <1>8, <1>9, <1>10, <1>11 DEF Sound, Same

-----------------------------------------------------------------------------
(* More steps in a byte *)

LEMMA HalfIs ==
  ASSUME NEW a \in Nat
  PROVE  /\ a \div 2 \in Nat /\ 2 * (a \div 2) <= a /\ a <= 2 * (a \div 2) + 1
OBVIOUS

(* What IncreaseInfo does with the scale.                                   *)
LEMMA ScaleHalved ==
  ASSUME NEW t, Shaped(t), CanIncreaseInfo(t)
  PROVE  /\ t.mInfoInc \div 2 = Power[InitialInfoNumBits - (t.mInfoHashShift + 1)]
         /\ t.mInfoInc = 2 * (t.mInfoInc \div 2)
         /\ t.mInfoInc \div 2 \in Nat /\ t.mInfoInc \div 2 >= 2
         /\ t.mInfoHashShift + 1 < InitialInfoNumBits
         /\ t.mInfoHashShift \in Nat
         /\ Power[t.mInfoHashShift + 1] = 2 * Power[t.mInfoHashShift]
<1>1. /\ t.mInfoHashShift \in Nat /\ t.mInfoHashShift < InitialInfoNumBits
      /\ t.mInfoInc = Power[InitialInfoNumBits - t.mInfoHashShift]
      /\ InitialInfoNumBits \in Nat /\ t.mInfoInc > 2
  BY RobinHoodAssumption DEF Shaped, Fields, Scaled, CanIncreaseInfo
<1>2. PICK b \in Nat : InitialInfoNumBits - t.mInfoHashShift = b + 1
  <2>1. InitialInfoNumBits - t.mInfoHashShift - 1 \in Nat
    BY <1>1
  <2> QED
    BY <1>1, <2>1
<1>3. InitialInfoNumBits - (t.mInfoHashShift + 1) = b
  BY <1>1, <1>2
<1>4. PICK x : x = Power[b]
  OBVIOUS
<1>5. t.mInfoInc = 2 * x /\ x \in Nat
  BY <1>1, <1>2, <1>4, PowerIs
<1>6. t.mInfoInc \div 2 = x /\ x >= 2
  BY <1>1, <1>5
<1>7. b # 0
  BY <1>4, <1>6, PowerIs
<1>8. t.mInfoHashShift + 1 < InitialInfoNumBits
  BY <1>1, <1>2, <1>7
<1>9. Power[t.mInfoHashShift + 1] = 2 * Power[t.mInfoHashShift]
  BY <1>1, PowerIs
<1> QED
  BY <1>1, <1>3, <1>4, <1>5, <1>6, <1>8, <1>9

(* The members of the table with halved steps.                              *)
HalvedInfo(t) ==
    [i \in DOMAIN t.mInfo |-> IF i = Slots(t) THEN 1 ELSE t.mInfo[i] \div 2]

LEMMA IncreaseMembers ==
  ASSUME NEW t, Shaped(t), NEW v, v = IncreaseInfo(t)
  PROVE  /\ v = [mHashMultiplier |-> v.mHashMultiplier, mKeyVals |-> v.mKeyVals,
                 mInfo |-> v.mInfo, mNumElements |-> v.mNumElements,
                 mMask |-> v.mMask,
                 mMaxNumElementsAllowed |-> v.mMaxNumElementsAllowed,
                 mInfoInc |-> v.mInfoInc, mInfoHashShift |-> v.mInfoHashShift]
         /\ v.mHashMultiplier = t.mHashMultiplier /\ v.mKeyVals = t.mKeyVals
         /\ v.mNumElements = t.mNumElements /\ v.mMask = t.mMask
         /\ v.mInfo = HalvedInfo(t)
         /\ v.mMaxNumElementsAllowed = calcMaxNumElementsAllowed(t.mMask + 1)
         /\ v.mInfoInc = t.mInfoInc \div 2 /\ v.mInfoHashShift = t.mInfoHashShift + 1
<1>1. PICK hash, keyVals, bytes, num, mask, max, inc, shift :
        t = [mHashMultiplier |-> hash, mKeyVals |-> keyVals, mInfo |-> bytes,
             mNumElements |-> num, mMask |-> mask,
             mMaxNumElementsAllowed |-> max,
             mInfoInc |-> inc, mInfoHashShift |-> shift]
  BY DEF Shaped, Fields
<1>2. PICK by, allowed, inc2, shift2 :
        /\ by = HalvedInfo(t)
        /\ allowed = calcMaxNumElementsAllowed(t.mMask + 1)
        /\ inc2 = inc \div 2 /\ shift2 = shift + 1
  OBVIOUS
<1>3. v = [t EXCEPT !.mInfoInc = inc2, !.mInfoHashShift = shift2, !.mInfo = by,
                    !.mMaxNumElementsAllowed = allowed]
  <2>1. t.mInfoInc = inc /\ t.mInfoHashShift = shift
    BY <1>1
  <2> QED
    BY <1>2, <2>1 DEF IncreaseInfo, HalvedInfo
<1>4. v = [mHashMultiplier |-> hash, mKeyVals |-> keyVals, mInfo |-> by,
           mNumElements |-> num, mMask |-> mask,
           mMaxNumElementsAllowed |-> allowed,
           mInfoInc |-> inc2, mInfoHashShift |-> shift2]
  BY <1>1, <1>3
<1>5. /\ v.mHashMultiplier = hash /\ v.mKeyVals = keyVals /\ v.mInfo = by
      /\ v.mNumElements = num /\ v.mMask = mask
      /\ v.mMaxNumElementsAllowed = allowed
      /\ v.mInfoInc = inc2 /\ v.mInfoHashShift = shift2
  BY <1>4
<1>6. /\ t.mHashMultiplier = hash /\ t.mKeyVals = keyVals
      /\ t.mNumElements = num /\ t.mMask = mask
      /\ t.mInfoInc = inc /\ t.mInfoHashShift = shift
  BY <1>1
<1>7. v = [mHashMultiplier |-> v.mHashMultiplier, mKeyVals |-> v.mKeyVals,
           mInfo |-> v.mInfo, mNumElements |-> v.mNumElements,
           mMask |-> v.mMask,
           mMaxNumElementsAllowed |-> v.mMaxNumElementsAllowed,
           mInfoInc |-> v.mInfoInc, mInfoHashShift |-> v.mInfoHashShift]
  BY <1>4, <1>5
<1> QED
  BY <1>2, <1>5, <1>6, <1>7

(* Halving the info bytes halves the infos that a search goes through.      *)
LEMMA InfoHalved ==
  ASSUME NEW t, Shaped(t), CanIncreaseInfo(t), NEW v, v = IncreaseInfo(t),
         NEW key \in Key
  PROVE  /\ Home(v, key) = Home(t, key)
         /\ \A d \in Nat : Info(v, key, d) = Info(t, key, d) \div 2
<1>1. /\ v.mHashMultiplier = t.mHashMultiplier /\ v.mMask = t.mMask
      /\ v.mInfoInc = t.mInfoInc \div 2 /\ v.mInfoHashShift = t.mInfoHashShift + 1
  BY IncreaseMembers
<1>2. Home(v, key) = Home(t, key)
  BY <1>1 DEF Home
<1>3. PICK c, p, x : /\ c = t.mInfoInc \div 2 /\ p = Power[t.mInfoHashShift]
                     /\ x = Hash[t.mHashMultiplier][key] % InitialInfoInc
  OBVIOUS
<1>4. /\ t.mInfoInc = 2 * c /\ c \in Nat /\ c >= 2 /\ t.mInfoHashShift \in Nat
      /\ Power[v.mInfoHashShift] = 2 * p
  BY <1>1, <1>3, ScaleHalved
<1>5. p \in Nat /\ p > 0
  BY <1>3, <1>4, PowerIs
<1>6. x \in Nat
  <2>1. PICK hash \in Nat : hash = Hash[t.mHashMultiplier][key]
    BY RobinHoodAssumption DEF Shaped, Fields
  <2>2. PICK all \in Nat : all = InitialInfoInc /\ all > 0
    BY PowerIs, RobinHoodAssumption DEF InitialInfoInc
  <2>3. hash % all \in Nat
    BY <2>2, Quotient
  <2> QED
    BY <1>3, <2>1, <2>2, <2>3
<1>7. PICK y \in Nat : y = x \div p
  BY <1>5, <1>6, Quotient
<1>8. x \div (2 * p) = y \div 2
  <2>1. (x \div p) \div 2 = x \div (p * 2)
    BY <1>5, <1>6, QuotientTwice
  <2>2. p * 2 = 2 * p
    BY <1>5
  <2> QED
    BY <1>7, <2>1, <2>2
<1>9. ASSUME NEW d \in Nat PROVE Info(v, key, d) = Info(t, key, d) \div 2
  <2>1. PICK z : z = y \div 2
    OBVIOUS
  <2>2. z \in Nat /\ 2 * z <= y /\ y <= 2 * z + 1
    BY <2>1, <1>7, HalfIs
  <2>3. HomeInfo(t, key) = 2 * c + y /\ HomeInfo(v, key) = c + z
    BY <1>1, <1>3, <1>4, <1>7, <1>8, <2>1 DEF HomeInfo
  <2>4. PICK w : w = d * c
    OBVIOUS
  <2>5. w \in Nat /\ d * (2 * c) = 2 * w
    BY <1>4, <2>4
  <2>6. Info(t, key, d) = 2 * c + y + 2 * w /\ Info(v, key, d) = c + z + w
    BY <1>1, <1>3, <1>4, <2>3, <2>4, <2>5 DEF Info
  <2>7. (2 * c + y + 2 * w) \div 2 = c + z + w
    BY <1>4, <1>7, <2>2, <2>5
  <2> QED
    BY <2>6, <2>7
<1> QED
  BY <1>2, <1>9

LEMMA IncreaseShaped ==
  ASSUME NEW t, Shaped(t), t.mMask # 0, CanIncreaseInfo(t), NEW v, v = IncreaseInfo(t)
  PROVE  /\ Shaped(v) /\ Slots(v) = Slots(t)
         /\ \A i \in 0..(Slots(t) + 7) :
              i # Slots(t) => v.mInfo[i] = t.mInfo[i] \div 2 /\ t.mInfo[i] \in 0..(InfoByte - 1)
<1>1. PICK slots : slots = Slots(t)
  OBVIOUS
<1>2. /\ v = [mHashMultiplier |-> v.mHashMultiplier, mKeyVals |-> v.mKeyVals,
              mInfo |-> v.mInfo, mNumElements |-> v.mNumElements,
              mMask |-> v.mMask,
              mMaxNumElementsAllowed |-> v.mMaxNumElementsAllowed,
              mInfoInc |-> v.mInfoInc, mInfoHashShift |-> v.mInfoHashShift]
      /\ v.mHashMultiplier = t.mHashMultiplier /\ v.mKeyVals = t.mKeyVals
      /\ v.mNumElements = t.mNumElements /\ v.mMask = t.mMask
      /\ v.mInfo = HalvedInfo(t)
      /\ v.mMaxNumElementsAllowed = calcMaxNumElementsAllowed(t.mMask + 1)
      /\ v.mInfoInc = t.mInfoInc \div 2 /\ v.mInfoHashShift = t.mInfoHashShift + 1
  BY IncreaseMembers
<1>3. /\ slots \in Nat /\ InfoByte \in Nat /\ t.mMask + 1 \in Nat
      /\ DOMAIN t.mInfo = 0..(slots + 7) /\ t.mInfo[slots] = 1
      /\ \A i \in (slots + 1)..(slots + 7) : t.mInfo[i] = 0
      /\ DOMAIN t.mKeyVals = 0..(slots - 1)
  BY <1>1, Geometry DEF Shaped, Sized
<1>4. \A i \in 0..(slots + 7) : t.mInfo[i] \in 0..(InfoByte - 1)
  BY <1>3, Geometry
<1>5. DOMAIN v.mInfo = 0..(slots + 7)
      /\ \A i \in 0..(slots + 7) : v.mInfo[i] = IF i = slots THEN 1 ELSE t.mInfo[i] \div 2
  BY <1>1, <1>2, <1>3 DEF HalvedInfo
<1>6. InfoByte >= 4
  <2>1. 2 * t.mInfoInc <= InfoByte
    BY IncSmall
  <2>2. t.mInfoInc >= 2 /\ t.mInfoInc \in Nat
    <3>1. t.mInfoInc \div 2 >= 2 /\ t.mInfoInc \div 2 \in Nat
          /\ t.mInfoInc = 2 * (t.mInfoInc \div 2)
      BY ScaleHalved
    <3> QED
      BY <3>1
  <2> QED
    BY <1>3, <2>1, <2>2
<1>7. ASSUME NEW i \in 0..(slots + 7) PROVE v.mInfo[i] \in 0..(InfoByte - 1)
  <2>1. CASE i = slots
    BY <1>3, <1>5, <1>6, <2>1
  <2>2. CASE i # slots
    <3>1. PICK a, n : a = t.mInfo[i] /\ n = InfoByte
      OBVIOUS
    <3>2. a \in 0..(n - 1) /\ n \in Nat
      BY <1>3, <1>4, <3>1
    <3>3. a \div 2 \in 0..(n - 1)
      BY <3>2
    <3>4. v.mInfo[i] = a \div 2
      BY <1>5, <2>2, <3>1
    <3> QED
      BY <3>1, <3>3, <3>4
  <2> QED
    BY <2>1, <2>2
<1>8. Fields(v)
  <2>1. v.mInfo \in [DOMAIN v.mInfo -> 0..(InfoByte - 1)]
    <3>1. v.mInfo = [i \in DOMAIN v.mInfo |-> v.mInfo[i]]
      BY <1>2 DEF HalvedInfo
    <3> QED
      BY <1>5, <1>7, <3>1
  <2>2. /\ v.mHashMultiplier \in 0..(Multipliers - 1)
        /\ v.mKeyVals \in [DOMAIN v.mKeyVals -> Pair \cup {NoNode}]
        /\ v.mNumElements \in Nat /\ v.mMask \in Nat
    BY <1>2 DEF Shaped, Fields
  <2>3. v.mMaxNumElementsAllowed \in Nat
    BY <1>2, <1>3, Load
  <2>4. v.mInfoInc \in Nat /\ v.mInfoHashShift \in Nat
    BY <1>2, ScaleHalved
  <2> QED
    BY <1>2, <2>1, <2>2, <2>3, <2>4 DEF Fields
<1>9. Slots(v) = slots
  BY <1>1, <1>2 DEF Slots
<1>10. Sized(v)
  <2>1. v.mInfo[slots] = 1
    BY <1>3, <1>5
  <2>2. \A i \in (slots + 1)..(slots + 7) : v.mInfo[i] = 0
    <3>1. \A i \in (slots + 1)..(slots + 7) : i \in 0..(slots + 7) /\ i # slots
      BY <1>3
    <3>2. 0 \div 2 = 0
      OBVIOUS
    <3> QED
      BY <1>3, <1>5, <3>1, <3>2
  <2> QED
    BY <1>2, <1>3, <1>5, <1>9, <2>1, <2>2 DEF Sized
<1>11. Scaled(v)
  BY <1>2, ScaleHalved DEF Scaled
<1>12. \A i \in 0..(slots + 7) : i # slots => v.mInfo[i] = t.mInfo[i] \div 2
  BY <1>5
<1> QED
  BY <1>1, <1>4, <1>8, <1>9, <1>10, <1>11, <1>12 DEF Shaped

(* After that there is room: the largest byte is half as large, and so is a *)
(* step.                                                                    *)
LEMMA IncreaseSound ==
  ASSUME NEW t, Sound(t), t.mMask # 0, CanIncreaseInfo(t), NEW v, v = IncreaseInfo(t)
  PROVE  /\ Sound(v) /\ Room(v) /\ Used(v) = Used(t) /\ v.mKeyVals = t.mKeyVals
         /\ v.mMask = t.mMask /\ v.mNumElements = t.mNumElements
<1>1. /\ Shaped(t) /\ Honest(t) /\ Ordered(t) /\ Distinct(t)
      /\ t.mNumElements = Cardinality(Used(t))
  BY DEF Sound
<1>2. PICK slots, c, old, new, n : /\ slots = Slots(t) /\ c = t.mInfoInc \div 2
                                   /\ old = t.mInfo /\ new = v.mInfo /\ n = InfoByte
  OBVIOUS
<1>3. /\ v.mKeyVals = t.mKeyVals
      /\ v.mNumElements = t.mNumElements /\ v.mMask = t.mMask
      /\ v.mMaxNumElementsAllowed = calcMaxNumElementsAllowed(t.mMask + 1)
      /\ v.mInfoInc = c
  BY <1>1, <1>2, IncreaseMembers
<1>4. /\ Shaped(v) /\ Slots(v) = slots
      /\ \A i \in 0..(slots + 7) :
           i # slots => new[i] = old[i] \div 2 /\ old[i] \in 0..(n - 1)
  BY <1>1, <1>2, IncreaseShaped
<1>5. /\ slots \in Nat /\ n \in Nat
      /\ c \in Nat /\ c >= 2 /\ t.mInfoInc = 2 * c /\ 4 * c <= n
  <2>1. c \in Nat /\ c >= 2 /\ t.mInfoInc = 2 * c
    BY <1>1, <1>2, ScaleHalved
  <2>2. 2 * t.mInfoInc <= n /\ slots \in Nat /\ n \in Nat
    BY <1>1, <1>2, IncSmall, Geometry
  <2> QED
    BY <2>1, <2>2
<1>6. ASSUME NEW i \in 0..(slots - 1)
      PROVE  new[i] = old[i] \div 2 /\ old[i] \in Nat /\ old[i] < n
  <2>1. i \in 0..(slots + 7) /\ i # slots
    BY <1>5
  <2>2. new[i] = old[i] \div 2 /\ old[i] \in 0..(n - 1)
    BY <1>4, <2>1
  <2> QED
    BY <1>5, <2>2
<1>7. Used(t) \subseteq 0..(slots - 1)
  BY <1>2 DEF Used
<1>8. Used(v) = Used(t)
  <2>1. ASSUME NEW i \in 0..(slots - 1) PROVE new[i] # 0 <=> old[i] # 0
    <3>1. ASSUME old[i] # 0 PROVE new[i] # 0
      <4>1. i \in Used(t)
        BY <1>2, <3>1 DEF Used
      <4>2. t.mInfo[i] >= t.mInfoInc /\ t.mInfo[i] \in Nat
        BY <1>1, <4>1, UsedIs
      <4>3. PICK a \in Nat : a = old[i] /\ a >= 2 * c
        BY <1>2, <1>5, <4>2
      <4>4. a \div 2 # 0
        BY <1>5, <4>3
      <4> QED
        BY <1>6, <4>3, <4>4
    <3>2. 0 \div 2 = 0
      OBVIOUS
    <3> QED
      BY <1>6, <3>1, <3>2
  <2> QED
    BY <1>2, <1>4, <2>1 DEF Used
<1>9. \A i : KeyAt(v, i) = KeyAt(t, i)
  BY <1>3 DEF KeyAt
<1>10. Room(v)
  <2>1. ASSUME NEW i \in Used(v) PROVE ~Full(v, v.mInfo[i])
    <3>1. i \in 0..(slots - 1)
      BY <1>7, <1>8
    <3>2. PICK a \in Nat : a = old[i] /\ a < n /\ new[i] = a \div 2
      BY <1>6, <3>1
    <3>3. PICK q : q = a \div 2
      OBVIOUS
    <3>4. ~(q + c > n - 1)
      BY <1>5, <3>2, <3>3
    <3>5. v.mInfo[i] = q
      BY <1>2, <3>2, <3>3
    <3> QED
      BY <1>2, <1>3, <3>4, <3>5 DEF Full
  <2> QED
    BY <2>1 DEF Room
<1>11. Allowed(v)
  BY <1>3, <1>10 DEF Allowed
<1>12. Honest(v)
  <2>1. ASSUME NEW i \in Used(t)
        PROVE  /\ v.mKeyVals[i] \in Pair
               /\ i >= Home(v, KeyAt(t, i))
               /\ v.mInfo[i] = Info(v, KeyAt(t, i), i - Home(v, KeyAt(t, i)))
    <3>1. PICK k, h : k = KeyAt(t, i) /\ h = Home(t, k)
      OBVIOUS
    <3>2. /\ t.mKeyVals[i] \in Pair /\ k \in Key /\ h \in Nat /\ i \in Nat
          /\ i - h \in Nat /\ t.mInfo[i] = Info(t, k, i - h)
      BY <1>1, <3>1, UsedIs
    <3>3. PICK d \in Nat : d = i - h
      BY <3>2
    <3>4. Home(v, k) = h /\ Info(v, k, d) = Info(t, k, d) \div 2
      BY <1>1, <3>1, <3>2, InfoHalved
    <3>5. v.mInfo[i] = t.mInfo[i] \div 2
      BY <1>2, <1>6, <1>7
    <3>6. i >= h
      BY <3>2
    <3> QED
      BY <1>3, <3>1, <3>2, <3>3, <3>4, <3>5, <3>6
  <2> QED
    BY <1>8, <1>9, <2>1 DEF Honest
<1>13. Ordered(v)
  <2>1. ASSUME NEW i \in 1..(slots - 1), new[i] >= 2 * c
        PROVE  new[i - 1] >= new[i] - c
    <3>1. i \in 0..(slots - 1) /\ i - 1 \in 0..(slots - 1)
      BY <1>5
    <3>2. PICK a, b : a = old[i] /\ b = old[i - 1]
      OBVIOUS
    <3>3. a \in Nat /\ b \in Nat /\ new[i] = a \div 2 /\ new[i - 1] = b \div 2
      BY <1>6, <3>1, <3>2
    <3>4. a >= 2 * (2 * c)
      BY <1>5, <2>1, <3>3
    <3>5. b >= a - 2 * c
      BY <1>1, <1>2, <1>5, <3>2, <3>4 DEF Ordered
    <3>6. b \div 2 >= (a \div 2) - c
      BY <1>5, <3>3, <3>5
    <3> QED
      BY <3>3, <3>6
  <2> QED
    BY <1>2, <1>3, <1>4, <2>1 DEF Ordered
<1>14. Distinct(v)
  BY <1>1, <1>8, <1>9 DEF Distinct
<1> QED
  BY <1>1, <1>3, <1>4, <1>8, <1>10, <1>11, <1>12, <1>13, <1>14 DEF Sound

-----------------------------------------------------------------------------
(* Empty tables *)

LEMMA EmptySound ==
  ASSUME NEW v, Shaped(v), v.mNumElements = 0,
         v.mMaxNumElementsAllowed \in {0, calcMaxNumElementsAllowed(v.mMask + 1)},
         \A i \in 0..(Slots(v) - 1) : v.mInfo[i] = 0
  PROVE  /\ Sound(v) /\ Used(v) = {} /\ Nodes(v) = {} /\ Keys(v) = {}
<1>1. Used(v) = {}
  BY DEF Used
<1>2. Nodes(v) = {} /\ Keys(v) = {}
  BY <1>1 DEF Nodes, Keys
<1>3. Allowed(v) /\ Honest(v) /\ Distinct(v)
  BY <1>1 DEF Allowed, Room, Honest, Distinct
<1>4. Ordered(v)
  <2>1. v.mInfoInc \in Nat /\ v.mInfoInc >= 2
    <3>1. /\ v.mInfoHashShift \in Nat /\ v.mInfoHashShift < InitialInfoNumBits
          /\ v.mInfoInc = Power[InitialInfoNumBits - v.mInfoHashShift]
          /\ InitialInfoNumBits \in Nat
      BY RobinHoodAssumption DEF Shaped, Fields, Scaled
    <3>2. PICK b \in Nat : InitialInfoNumBits - v.mInfoHashShift = b
      BY <3>1
    <3>3. b > 0 /\ Power[b] > b /\ Power[b] \in Nat
      BY <3>1, <3>2, PowerLarge, PowerIs
    <3> QED
      BY <3>1, <3>2, <3>3
  <2>2. \A i \in 1..(Slots(v) - 1) : i \in 0..(Slots(v) - 1)
    BY Geometry
  <2> QED
    BY <2>1, <2>2 DEF Ordered
<1>5. Cardinality(Used(v)) = 0
  BY <1>1, FS_EmptySet
<1> QED
  BY <1>1, <1>2, <1>3, <1>4, <1>5 DEF Sound

LEMMA ByteLarge == InfoByte \in Nat /\ InfoByte >= 4
<1>1. InitialInfoNumBits \in Nat /\ InitialInfoNumBits >= 1
      /\ InfoByte \in Nat /\ 2 * InitialInfoInc <= InfoByte
  BY RobinHoodAssumption
<1>2. PICK b \in Nat : b = InitialInfoNumBits
  BY <1>1
<1>3. Power[b] > b /\ Power[b] \in Nat /\ InitialInfoInc = Power[b]
  BY <1>2, PowerLarge, PowerIs DEF InitialInfoInc
<1> QED
  BY <1>1, <1>2, <1>3

LEMMA InitialScale ==
  /\ InitialInfoInc \in Nat
  /\ InitialInfoInc = Power[InitialInfoNumBits - 0] /\ 0 < InitialInfoNumBits
<1>1. InitialInfoNumBits \in Nat \ {0}
  BY RobinHoodAssumption
<1>2. InitialInfoNumBits - 0 = InitialInfoNumBits
  BY <1>1
<1> QED
  BY <1>1, <1>2, PowerIs DEF InitialInfoInc

LEMMA InitTableSound ==
  ASSUME NEW m \in 0..(Multipliers - 1), NEW v, v = InitTable(m)
  PROVE  Sound(v) /\ Used(v) = {} /\ Keys(v) = {} /\ Nodes(v) = {} /\ v.mMask = 0
         /\ v.mNumElements = 0
<1>1. PICK inc, none, zeros : /\ inc = InitialInfoInc /\ none = NoNodes
                              /\ zeros = [i \in 0..7 |-> 0]
  OBVIOUS
<1>2. v = [mHashMultiplier |-> m, mKeyVals |-> none, mInfo |-> zeros,
           mNumElements |-> 0, mMask |-> 0, mMaxNumElementsAllowed |-> 0,
           mInfoInc |-> inc, mInfoHashShift |-> 0]
  BY <1>1 DEF InitTable
<1>3. /\ v.mHashMultiplier = m /\ v.mKeyVals = none /\ v.mInfo = zeros
      /\ v.mNumElements = 0 /\ v.mMask = 0 /\ v.mMaxNumElementsAllowed = 0
      /\ v.mInfoInc = inc /\ v.mInfoHashShift = 0
  BY <1>2
<1>4. none \in [DOMAIN none -> Pair \cup {NoNode}]
  BY <1>1 DEF NoNodes
<1>5. DOMAIN zeros = 0..7 /\ \A i \in 0..7 : zeros[i] = 0
  BY <1>1
<1>6. zeros \in [DOMAIN zeros -> 0..(InfoByte - 1)]
  BY <1>1, ByteLarge
<1>7. v = [mHashMultiplier |-> v.mHashMultiplier, mKeyVals |-> v.mKeyVals,
           mInfo |-> v.mInfo, mNumElements |-> v.mNumElements,
           mMask |-> v.mMask,
           mMaxNumElementsAllowed |-> v.mMaxNumElementsAllowed,
           mInfoInc |-> v.mInfoInc, mInfoHashShift |-> v.mInfoHashShift]
  BY <1>2, <1>3
<1>8. Fields(v)
  BY <1>1, <1>3, <1>4, <1>6, <1>7, InitialScale DEF Fields
<1>9. Sized(v)
  BY <1>3, <1>5 DEF Sized
<1>10. Scaled(v)
  BY <1>1, <1>3, InitialScale DEF Scaled
<1>11. Shaped(v)
  BY <1>8, <1>9, <1>10 DEF Shaped
<1>12. Slots(v) = 1
  BY <1>3, <1>11, Geometry
<1>13. \A i \in 0..(Slots(v) - 1) : v.mInfo[i] = 0
  BY <1>3, <1>5, <1>12
<1> QED
  BY <1>3, <1>11, <1>13, EmptySound

(* Memory of a new size, or the same memory made empty.                     *)
Emptied(v, t, slots, size) ==
    /\ v = [mHashMultiplier |-> t.mHashMultiplier, mKeyVals |-> v.mKeyVals,
            mInfo |-> v.mInfo, mNumElements |-> 0, mMask |-> size - 1,
            mMaxNumElementsAllowed |-> v.mMaxNumElementsAllowed,
            mInfoInc |-> InitialInfoInc, mInfoHashShift |-> 0]
    /\ v.mKeyVals = [i \in 0..(slots - 1) |-> NoNode]
    /\ v.mInfo = [i \in 0..(slots + 7) |-> IF i = slots THEN 1 ELSE 0]
    /\ v.mMaxNumElementsAllowed \in {0, calcMaxNumElementsAllowed(size)}

LEMMA EmptiedSound ==
  ASSUME NEW v, NEW t, t.mHashMultiplier \in 0..(Multipliers - 1),
         NEW size \in Nat, size >= 2, NEW slots, slots = calcNumElementsWithBuffer(size),
         Emptied(v, t, slots, size)
  PROVE  /\ Sound(v) /\ Used(v) = {} /\ Keys(v) = {} /\ Nodes(v) = {}
         /\ v.mMask + 1 = size /\ v.mMask # 0 /\ v.mNumElements = 0
<1>1. PICK inc, hash, mask, kv, by, max :
        /\ inc = InitialInfoInc /\ hash = t.mHashMultiplier /\ mask = size - 1
        /\ kv = v.mKeyVals /\ by = v.mInfo /\ max = v.mMaxNumElementsAllowed
  OBVIOUS
<1>2. v = [mHashMultiplier |-> hash, mKeyVals |-> kv, mInfo |-> by,
           mNumElements |-> 0, mMask |-> mask, mMaxNumElementsAllowed |-> max,
           mInfoInc |-> inc, mInfoHashShift |-> 0]
  BY <1>1 DEF Emptied
<1>3. /\ v.mHashMultiplier = hash /\ v.mKeyVals = kv /\ v.mInfo = by
      /\ v.mNumElements = 0 /\ v.mMask = mask /\ v.mMaxNumElementsAllowed = max
      /\ v.mInfoInc = inc /\ v.mInfoHashShift = 0
  BY <1>2
<1>4. slots \in Nat /\ calcMaxNumElementsAllowed(size) \in Nat
  BY Load
<1>5. mask + 1 = size /\ mask \in Nat /\ mask # 0
  BY <1>1
<1>6. Slots(v) = slots
  BY <1>3, <1>5 DEF Slots
<1>7. /\ kv = [i \in 0..(slots - 1) |-> NoNode]
      /\ by = [i \in 0..(slots + 7) |-> IF i = slots THEN 1 ELSE 0]
      /\ max \in {0, calcMaxNumElementsAllowed(size)}
  BY <1>1 DEF Emptied
<1>8. DOMAIN by = 0..(slots + 7)
      /\ \A i \in 0..(slots + 7) : by[i] = IF i = slots THEN 1 ELSE 0
  BY <1>7
<1>9. by \in [DOMAIN by -> 0..(InfoByte - 1)]
  BY <1>7, ByteLarge
<1>10. kv \in [DOMAIN kv -> Pair \cup {NoNode}]
  BY <1>7
<1>11. v = [mHashMultiplier |-> v.mHashMultiplier, mKeyVals |-> v.mKeyVals,
            mInfo |-> v.mInfo, mNumElements |-> v.mNumElements,
            mMask |-> v.mMask,
            mMaxNumElementsAllowed |-> v.mMaxNumElementsAllowed,
            mInfoInc |-> v.mInfoInc, mInfoHashShift |-> v.mInfoHashShift]
  BY <1>2, <1>3
<1>12. max \in Nat
  BY <1>4, <1>7
<1>13. Fields(v)
  BY <1>1, <1>3, <1>5, <1>9, <1>10, <1>11, <1>12, InitialScale DEF Fields
<1>14. Sized(v)
  <2>1. by[slots] = 1
    BY <1>4, <1>8
  <2>2. \A i \in (slots + 1)..(slots + 7) : by[i] = 0
    BY <1>4, <1>8
  <2>3. DOMAIN kv = 0..(slots - 1)
    BY <1>7
  <2> QED
    BY <1>3, <1>5, <1>6, <1>8, <2>1, <2>2, <2>3 DEF Sized
<1>15. Scaled(v)
  BY <1>1, <1>3, InitialScale DEF Scaled
<1>16. Shaped(v)
  BY <1>13, <1>14, <1>15 DEF Shaped
<1>17. \A i \in 0..(Slots(v) - 1) : v.mInfo[i] = 0
  BY <1>3, <1>4, <1>6, <1>8
<1> QED
  BY <1>3, <1>5, <1>7, <1>16, <1>17, EmptySound

LEMMA FreshSound ==
  ASSUME NEW t, Fields(t), NEW size \in Nat, size >= 2, NEW v, v = initData(t, size)
  PROVE  /\ Sound(v) /\ Used(v) = {} /\ Keys(v) = {} /\ Nodes(v) = {}
         /\ v.mMask + 1 = size /\ v.mMask # 0 /\ v.mNumElements = 0
<1>1. PICK hash, keyVals, bytes, num, mask, max, inc, shift :
        t = [mHashMultiplier |-> hash, mKeyVals |-> keyVals, mInfo |-> bytes,
             mNumElements |-> num, mMask |-> mask,
             mMaxNumElementsAllowed |-> max,
             mInfoInc |-> inc, mInfoHashShift |-> shift]
  BY DEF Fields
<1>2. PICK slots, kv, by, mask2, max2, inc2 :
        /\ slots = calcNumElementsWithBuffer(size)
        /\ kv = [i \in 0..(slots - 1) |-> NoNode]
        /\ by = [i \in 0..(slots + 7) |-> IF i = slots THEN 1 ELSE 0]
        /\ mask2 = size - 1 /\ max2 = calcMaxNumElementsAllowed(size)
        /\ inc2 = InitialInfoInc
  OBVIOUS
<1>3. v = [t EXCEPT !.mNumElements = 0, !.mMask = mask2,
                    !.mMaxNumElementsAllowed = max2, !.mKeyVals = kv, !.mInfo = by,
                    !.mInfoInc = inc2, !.mInfoHashShift = 0]
  BY <1>2 DEF initData
<1>4. v = [mHashMultiplier |-> hash, mKeyVals |-> kv, mInfo |-> by,
           mNumElements |-> 0, mMask |-> mask2, mMaxNumElementsAllowed |-> max2,
           mInfoInc |-> inc2, mInfoHashShift |-> 0]
  BY <1>1, <1>3
<1>5. v.mKeyVals = kv /\ v.mInfo = by /\ v.mMaxNumElementsAllowed = max2
  BY <1>4
<1>6. t.mHashMultiplier = hash
  BY <1>1
<1>7. Emptied(v, t, slots, size)
  BY <1>2, <1>4, <1>5, <1>6 DEF Emptied
<1>8. t.mHashMultiplier \in 0..(Multipliers - 1)
  BY DEF Fields
<1> QED
  BY <1>2, <1>7, <1>8, EmptiedSound

LEMMA NoneUsed ==
  ASSUME NEW t, Sound(t), t.mNumElements = 0
  PROVE  Used(t) = {} /\ Nodes(t) = {} /\ Keys(t) = {}
<1>1. IsFiniteSet(Used(t)) /\ Cardinality(Used(t)) = 0
  BY Geometry DEF Sound
<1>2. Used(t) = {}
  BY <1>1, FS_EmptySet
<1> QED
  BY <1>2 DEF Nodes, Keys

LEMMA ClearedSound ==
  ASSUME NEW t, Sound(t), NEW v, v = Cleared(t)
  PROVE  /\ Sound(v) /\ Used(v) = {} /\ Keys(v) = {} /\ Nodes(v) = {}
         /\ v.mNumElements = 0 /\ v.mMask = t.mMask
<1>1. CASE t.mNumElements = 0
  BY <1>1, NoneUsed DEF Cleared
<1>2. CASE t.mNumElements # 0
  <2>1. PICK hash, keyVals, bytes, num, mask, max, inc, shift :
          t = [mHashMultiplier |-> hash, mKeyVals |-> keyVals, mInfo |-> bytes,
               mNumElements |-> num, mMask |-> mask,
               mMaxNumElementsAllowed |-> max,
               mInfoInc |-> inc, mInfoHashShift |-> shift]
    BY DEF Sound, Shaped, Fields
  <2>2. /\ t.mMask # 0 /\ t.mMask \in Nat
        /\ t.mMaxNumElementsAllowed \in {0, calcMaxNumElementsAllowed(t.mMask + 1)}
        /\ DOMAIN t.mKeyVals = 0..(Slots(t) - 1)
        /\ DOMAIN t.mInfo = 0..(Slots(t) + 7)
        /\ t.mHashMultiplier \in 0..(Multipliers - 1)
    BY <1>2 DEF Sound, Shaped, Fields, Sized, Allowed
  <2>3. PICK size, slots, kv, by, inc2 :
          /\ size = t.mMask + 1 /\ slots = calcNumElementsWithBuffer(size)
          /\ kv = [i \in 0..(slots - 1) |-> NoNode]
          /\ by = [i \in 0..(slots + 7) |-> IF i = slots THEN 1 ELSE 0]
          /\ inc2 = InitialInfoInc
    OBVIOUS
  <2>4. Slots(t) = slots
    BY <2>3 DEF Slots
  <2>5. v = [t EXCEPT !.mNumElements = 0, !.mKeyVals = kv, !.mInfo = by,
                      !.mInfoInc = inc2, !.mInfoHashShift = 0]
    BY <1>2, <2>2, <2>3, <2>4 DEF Cleared
  <2>6. v = [mHashMultiplier |-> hash, mKeyVals |-> kv, mInfo |-> by,
             mNumElements |-> 0, mMask |-> mask, mMaxNumElementsAllowed |-> max,
             mInfoInc |-> inc2, mInfoHashShift |-> 0]
    BY <2>1, <2>5
  <2>7. v.mKeyVals = kv /\ v.mInfo = by /\ v.mMaxNumElementsAllowed = max /\ v.mMask = mask
    BY <2>6
  <2>8. t.mHashMultiplier = hash /\ t.mMask = mask /\ t.mMaxNumElementsAllowed = max
    BY <2>1
  <2>9. mask = size - 1 /\ size \in Nat /\ size >= 2
    BY <2>2, <2>3, <2>8
  <2>10. Emptied(v, t, slots, size)
    BY <2>2, <2>3, <2>6, <2>7, <2>8, <2>9 DEF Emptied
  <2>11. /\ Sound(v) /\ Used(v) = {} /\ Keys(v) = {} /\ Nodes(v) = {}
         /\ v.mNumElements = 0
    BY <2>2, <2>3, <2>9, <2>10, EmptiedSound
  <2> QED
    BY <2>7, <2>8, <2>11
<1> QED
  BY <1>1, <1>2

-----------------------------------------------------------------------------
(* Erasing *)

(* The last node that moves down: the next is at home, or there is none.    *)
LastMoved(t, idx) == First(idx, Slots(t) - 1, LAMBDA i : t.mInfo[i + 1] < 2 * t.mInfoInc)

LEMMA LastIs ==
  ASSUME NEW t, Shaped(t), Honest(t), NEW idx \in Used(t)
  PROVE  /\ idx \in Nat /\ LastMoved(t, idx) \in idx..(Slots(t) - 1) /\ LastMoved(t, idx) \in Used(t)
         /\ t.mInfo[LastMoved(t, idx) + 1] < 2 * t.mInfoInc
         /\ \A i \in idx..(LastMoved(t, idx) - 1) :
              /\ t.mInfo[i + 1] >= 2 * t.mInfoInc
              /\ i + 1 \in Used(t) /\ i \in Used(t)
<1>1. PICK slots, inc, info : slots = Slots(t) /\ inc = t.mInfoInc /\ info = t.mInfo
  OBVIOUS
<1>2. /\ slots \in Nat /\ idx \in Nat /\ idx \in 0..(slots - 1)
      /\ inc \in Nat /\ inc >= 2 /\ InfoByte \in Nat
  <2>1. KeyAt(t, idx) \in Key /\ idx \in 0..(slots - 1) /\ idx \in Nat
    BY <1>1, UsedIs
  <2> QED
    BY <1>1, <2>1, Steps, Geometry
<1>3. t.mMask # 0
  BY Geometry
<1>4. DOMAIN info = 0..(slots + 7) /\ info[slots] = 1
  BY <1>1, <1>3 DEF Shaped, Sized
<1>5. \A i \in 0..(slots + 7) : info[i] \in 0..(InfoByte - 1)
  BY <1>1, <1>4, Geometry
<1>6. PICK S : S = {i \in idx..(slots - 1) : info[i + 1] < 2 * inc}
  OBVIOUS
<1>7. PICK x, hi : x = slots - 1 /\ hi = slots - 1
  OBVIOUS
<1>8. hi \in Nat /\ x \in idx..hi /\ x \in S
  <2>1. x + 1 = slots /\ x \in idx..(slots - 1) /\ hi \in Nat /\ x \in idx..hi
    BY <1>2, <1>7
  <2>2. info[x + 1] < 2 * inc
    BY <1>2, <1>4, <2>1
  <2> QED
    BY <1>6, <2>1, <2>2
<1>9. \E i \in idx..hi : i \in S /\ (\A j \in idx..(i - 1) : j \notin S) /\ i <= x
  BY <1>2, <1>8, FirstOf
<1>10. PICK i \in idx..hi : i \in S /\ (\A j \in idx..(i - 1) : j \notin S)
  BY <1>9
<1>11. info[i + 1] < 2 * inc /\ \A j \in idx..(i - 1) : ~(info[j + 1] < 2 * inc)
  <2>1. \A j \in idx..(i - 1) : j \in idx..(slots - 1)
    BY <1>2, <1>7, <1>10
  <2> QED
    BY <1>6, <1>10, <2>1
<1>12. PICK last : last = LastMoved(t, idx)
  OBVIOUS
<1>13. /\ last \in idx..(slots - 1) /\ info[last + 1] < 2 * inc
       /\ \A j \in idx..(last - 1) : ~(info[j + 1] < 2 * inc)
  BY <1>1, <1>7, <1>10, <1>11, <1>12 DEF LastMoved, First
<1>14. ASSUME NEW j \in idx..(last - 1)
       PROVE  info[j + 1] >= 2 * inc /\ j + 1 \in Used(t)
  <2>1. j + 1 \in 0..(slots - 1) /\ j + 1 \in 0..(slots + 7)
    BY <1>2, <1>13
  <2>2. PICK a : a = info[j + 1]
    OBVIOUS
  <2>3. a \in Nat /\ ~(a < 2 * inc)
    BY <1>2, <1>5, <1>13, <2>1, <2>2
  <2>4. a >= 2 * inc /\ a # 0
    BY <1>2, <2>3
  <2> QED
    BY <1>1, <2>1, <2>2, <2>4 DEF Used
<1>15. ASSUME NEW j \in idx..last PROVE j \in Used(t)
  <2>1. CASE j = idx
    BY <2>1
  <2>2. CASE j # idx
    <3>1. j - 1 \in idx..(last - 1) /\ (j - 1) + 1 = j
      BY <1>2, <1>13, <2>2
    <3> QED
      BY <1>14, <3>1
  <2> QED
    BY <2>1, <2>2
<1>16. last \in idx..last /\ \A j \in idx..(last - 1) : j \in idx..last
  BY <1>2, <1>13
<1> QED
  BY <1>1, <1>2, <1>12, <1>13, <1>14, <1>15, <1>16

(* What Shrunk does: the nodes after idx up to last move down by one.       *)
LessKeyVals(t, idx, last) ==
    [i \in DOMAIN t.mKeyVals |-> IF i \in idx..(last - 1) THEN t.mKeyVals[i + 1]
                                 ELSE IF i = last THEN NoNode ELSE t.mKeyVals[i]]
LessInfo(t, idx, last) ==
    [i \in DOMAIN t.mInfo |-> IF i \in idx..(last - 1) THEN t.mInfo[i + 1] - t.mInfoInc
                              ELSE IF i = last THEN 0 ELSE t.mInfo[i]]

LEMMA ShrunkMembers ==
  ASSUME NEW t, Fields(t), NEW idx, NEW last, last = LastMoved(t, idx),
         NEW v, v = Shrunk(t, idx)
  PROVE  /\ Same(t, v)
         /\ v.mKeyVals = LessKeyVals(t, idx, last)
         /\ v.mInfo = LessInfo(t, idx, last)
         /\ v.mNumElements = t.mNumElements - 1
         /\ v.mMaxNumElementsAllowed = t.mMaxNumElementsAllowed
         /\ v = [mHashMultiplier |-> v.mHashMultiplier, mKeyVals |-> v.mKeyVals,
                 mInfo |-> v.mInfo, mNumElements |-> v.mNumElements,
                 mMask |-> v.mMask,
                 mMaxNumElementsAllowed |-> v.mMaxNumElementsAllowed,
                 mInfoInc |-> v.mInfoInc, mInfoHashShift |-> v.mInfoHashShift]
<1>1. PICK hash, keyVals, bytes, num, mask, max, inc, shift :
        t = [mHashMultiplier |-> hash, mKeyVals |-> keyVals, mInfo |-> bytes,
             mNumElements |-> num, mMask |-> mask,
             mMaxNumElementsAllowed |-> max,
             mInfoInc |-> inc, mInfoHashShift |-> shift]
  BY DEF Fields
<1>2. PICK kv, by, num2 : /\ kv = LessKeyVals(t, idx, last)
                          /\ by = LessInfo(t, idx, last) /\ num2 = num - 1
  OBVIOUS
<1>3. shiftDown(t, idx) = [t EXCEPT !.mKeyVals = kv, !.mInfo = by]
  BY <1>2 DEF shiftDown, LastMoved, LessKeyVals, LessInfo
<1>4. PICK w : w = shiftDown(t, idx)
  OBVIOUS
<1>5. w = [mHashMultiplier |-> hash, mKeyVals |-> kv, mInfo |-> by,
           mNumElements |-> num, mMask |-> mask,
           mMaxNumElementsAllowed |-> max,
           mInfoInc |-> inc, mInfoHashShift |-> shift]
  BY <1>1, <1>3, <1>4
<1>6. w.mNumElements = num
  BY <1>5
<1>7. v = [w EXCEPT !.mNumElements = num2]
  BY <1>2, <1>4, <1>6 DEF Shrunk
<1>8. v = [mHashMultiplier |-> hash, mKeyVals |-> kv, mInfo |-> by,
           mNumElements |-> num2, mMask |-> mask,
           mMaxNumElementsAllowed |-> max,
           mInfoInc |-> inc, mInfoHashShift |-> shift]
  BY <1>5, <1>7
<1>9. /\ v.mHashMultiplier = hash /\ v.mKeyVals = kv /\ v.mInfo = by
      /\ v.mNumElements = num2 /\ v.mMask = mask
      /\ v.mMaxNumElementsAllowed = max
      /\ v.mInfoInc = inc /\ v.mInfoHashShift = shift
  BY <1>8
<1>10. /\ t.mHashMultiplier = hash /\ t.mNumElements = num /\ t.mMask = mask
       /\ t.mMaxNumElementsAllowed = max
       /\ t.mInfoInc = inc /\ t.mInfoHashShift = shift
  BY <1>1
<1>11. v = [mHashMultiplier |-> v.mHashMultiplier, mKeyVals |-> v.mKeyVals,
            mInfo |-> v.mInfo, mNumElements |-> v.mNumElements,
            mMask |-> v.mMask,
            mMaxNumElementsAllowed |-> v.mMaxNumElementsAllowed,
            mInfoInc |-> v.mInfoInc, mInfoHashShift |-> v.mInfoHashShift]
  BY <1>8, <1>9
<1> QED
  BY <1>2, <1>9, <1>10, <1>11 DEF Same

(* Which old slot the node of a slot comes from.                            *)
From(i, idx, last) == IF i \in idx..(last - 1) THEN i + 1 ELSE i

Shrinks(t, v, idx, last) ==
    /\ Slots(t) \in Nat /\ Slots(v) = Slots(t)
    /\ t.mInfoInc \in Nat /\ t.mInfoInc >= 2 /\ v.mInfoInc = t.mInfoInc
    /\ InfoByte \in Nat /\ t.mMask # 0 /\ v.mMask = t.mMask
    /\ idx \in Nat /\ last \in Nat /\ idx <= last /\ last < Slots(t)
    /\ last \in Used(t)
    /\ DOMAIN v.mInfo = 0..(Slots(t) + 7) /\ DOMAIN v.mKeyVals = 0..(Slots(t) - 1)
    /\ \A i \in 0..(Slots(t) + 7) :
         t.mInfo[i] \in 0..(InfoByte - 1) /\ t.mInfo[i] \in Nat
    /\ \A i \in idx..(last - 1) :
         /\ v.mInfo[i] = t.mInfo[i + 1] - t.mInfoInc
         /\ v.mKeyVals[i] = t.mKeyVals[i + 1]
         /\ i + 1 \in Used(t) /\ t.mInfo[i + 1] >= 2 * t.mInfoInc
         /\ i \in Used(t)
    /\ v.mInfo[last] = 0 /\ v.mKeyVals[last] = NoNode
    /\ \A i \in 0..(Slots(t) + 7) : i \notin idx..last => v.mInfo[i] = t.mInfo[i]
    /\ \A i \in 0..(Slots(t) - 1) : i \notin idx..last => v.mKeyVals[i] = t.mKeyVals[i]
    /\ t.mInfo[last + 1] < 2 * t.mInfoInc

LEMMA ShrunkFacts ==
  ASSUME NEW t, Sound(t), NEW idx \in Used(t), NEW last, last = LastMoved(t, idx),
         NEW v, v = Shrunk(t, idx)
  PROVE  Shrinks(t, v, idx, last)
<1>1. Shaped(t) /\ Honest(t) /\ Fields(t)
  BY DEF Sound, Shaped
<1>2. PICK slots, inc, old, n : /\ slots = Slots(t) /\ inc = t.mInfoInc
                                /\ old = t.mInfo /\ n = InfoByte
  OBVIOUS
<1>3. /\ Same(t, v) /\ v.mKeyVals = LessKeyVals(t, idx, last)
      /\ v.mInfo = LessInfo(t, idx, last)
  BY <1>1, ShrunkMembers
<1>4. /\ idx \in Nat /\ last \in idx..(slots - 1) /\ last \in Used(t)
      /\ old[last + 1] < 2 * inc
      /\ \A i \in idx..(last - 1) :
           /\ old[i + 1] >= 2 * inc
           /\ i + 1 \in Used(t) /\ i \in Used(t)
  BY <1>1, <1>2, LastIs
<1>5. slots \in Nat /\ n \in Nat /\ t.mMask # 0
  BY <1>1, <1>2, Geometry
<1>6. DOMAIN old = 0..(slots + 7) /\ DOMAIN t.mKeyVals = 0..(slots - 1)
  BY <1>1, <1>2, <1>5 DEF Shaped, Sized
<1>7. \A i \in 0..(slots + 7) : old[i] \in 0..(n - 1) /\ old[i] \in Nat
  BY <1>1, <1>2, <1>5, <1>6, Geometry
<1>8. inc \in Nat /\ inc >= 2
  <2>1. KeyAt(t, idx) \in Key
    BY <1>1, UsedIs
  <2> QED
    BY <1>1, <1>2, <2>1, Steps
<1>9. last \in Nat /\ idx <= last /\ last < slots
  BY <1>4, <1>5
<1>10. DOMAIN v.mInfo = 0..(slots + 7) /\ DOMAIN v.mKeyVals = 0..(slots - 1)
  BY <1>2, <1>3, <1>6 DEF LessInfo, LessKeyVals
<1>11. ASSUME NEW i \in idx..(last - 1)
       PROVE  v.mInfo[i] = old[i + 1] - inc /\ v.mKeyVals[i] = t.mKeyVals[i + 1]
  <2>1. i \in DOMAIN old /\ i \in DOMAIN t.mKeyVals
    BY <1>4, <1>6, <1>9, <1>5
  <2> QED
    BY <1>2, <1>3, <2>1 DEF LessInfo, LessKeyVals
<1>12. v.mInfo[last] = 0 /\ v.mKeyVals[last] = NoNode
  <2>1. last \in DOMAIN old /\ last \in DOMAIN t.mKeyVals /\ last \notin idx..(last - 1)
    BY <1>4, <1>6, <1>9, <1>5
  <2> QED
    BY <1>2, <1>3, <2>1 DEF LessInfo, LessKeyVals
<1>13. \A i \in idx..(last - 1) : i \in idx..last
  BY <1>4, <1>9
<1>14. last \in idx..last
  BY <1>4, <1>9
<1>15. \A i \in 0..(slots + 7) : i \notin idx..last => v.mInfo[i] = old[i]
  BY <1>2, <1>3, <1>6, <1>13, <1>14 DEF LessInfo
<1>16. \A i \in 0..(slots - 1) : i \notin idx..last => v.mKeyVals[i] = t.mKeyVals[i]
  BY <1>2, <1>3, <1>6, <1>13, <1>14 DEF LessKeyVals
<1>17. Slots(v) = slots /\ v.mInfoInc = inc /\ v.mMask = t.mMask
  BY <1>2, <1>3, SameIs DEF Same
<1> QED
  BY <1>2, <1>4, <1>5, <1>7, <1>8, <1>9, <1>10, <1>11, <1>12, <1>15, <1>16, <1>17 DEF Shrinks

LEMMA ShrunkOrigin ==
  ASSUME NEW t, Sound(t), NEW idx \in Used(t), NEW last, last = LastMoved(t, idx),
         NEW v, v = Shrunk(t, idx)
  PROVE  /\ Used(v) = Used(t) \ {last}
         /\ \A i \in Used(v) :
              /\ From(i, idx, last) \in Used(t) /\ From(i, idx, last) # idx
              /\ v.mKeyVals[i] = t.mKeyVals[From(i, idx, last)]
              /\ KeyAt(v, i) = KeyAt(t, From(i, idx, last))
              /\ i \in Nat
              /\ i \in idx..(last - 1) => /\ v.mInfo[i] = t.mInfo[i + 1] - t.mInfoInc
                                         /\ t.mInfo[i + 1] >= 2 * t.mInfoInc
                                         /\ i + 1 \in Used(t)
              /\ i \notin idx..(last - 1) => v.mInfo[i] = t.mInfo[i]
         /\ \A j \in Used(t) \ {idx} :
              \E i \in Used(v) : From(i, idx, last) = j /\ (j >= idx <=> i >= idx)
<1>1. PICK slots, inc, old, n : /\ slots = Slots(t) /\ inc = t.mInfoInc
                                /\ old = t.mInfo /\ n = InfoByte
  OBVIOUS
<1>2. /\ slots \in Nat /\ Slots(v) = slots /\ inc \in Nat /\ inc >= 2
      /\ idx \in Nat /\ last \in Nat /\ idx <= last /\ last < slots
      /\ last \in Used(t)
      /\ \A i \in 0..(slots + 7) : old[i] \in Nat
      /\ \A i \in idx..(last - 1) :
           /\ v.mInfo[i] = old[i + 1] - inc
           /\ v.mKeyVals[i] = t.mKeyVals[i + 1]
           /\ i + 1 \in Used(t) /\ old[i + 1] >= 2 * inc
           /\ i \in Used(t)
      /\ v.mInfo[last] = 0
      /\ \A i \in 0..(slots + 7) : i \notin idx..last => v.mInfo[i] = old[i]
      /\ \A i \in 0..(slots - 1) : i \notin idx..last => v.mKeyVals[i] = t.mKeyVals[i]
  <2>1. Shrinks(t, v, idx, last)
    BY <1>1, ShrunkFacts
  <2> QED
    BY <1>1, <2>1 DEF Shrinks
<1>3. /\ Used(t) = {i \in 0..(slots - 1) : old[i] # 0}
      /\ Used(v) = {i \in 0..(slots - 1) : v.mInfo[i] # 0}
  BY <1>1, <1>2 DEF Used
<1>4. \A i \in 0..(slots - 1) : i \in 0..(slots + 7) /\ i \in Nat
  BY <1>2
<1>5. ASSUME NEW i \in idx..(last - 1) PROVE v.mInfo[i] # 0 /\ i \in 0..(slots - 1)
  <2>1. i + 1 \in 0..(slots - 1)
    BY <1>2, <1>3
  <2>2. PICK a : a = old[i + 1]
    OBVIOUS
  <2>3. a \in Nat /\ a >= 2 * inc /\ v.mInfo[i] = a - inc
    BY <1>2, <1>4, <2>1, <2>2
  <2> QED
    BY <1>2, <2>3
<1>6. \A i \in idx..last : i = last \/ i \in idx..(last - 1)
  BY <1>2
<1>7. last \notin idx..(last - 1) /\ last \in idx..last
      /\ \A i \in idx..(last - 1) : i \in idx..last /\ i # last
  BY <1>2
<1>8. Used(v) = Used(t) \ {last}
  <2>1. ASSUME NEW i \in 0..(slots - 1)
        PROVE  v.mInfo[i] # 0 <=> old[i] # 0 /\ i # last
    <3>1. CASE i \in idx..(last - 1)
      BY <1>2, <1>3, <1>5, <1>7, <3>1
    <3>2. CASE i = last
      BY <1>2, <3>2
    <3>3. CASE i \notin idx..last
      BY <1>2, <1>4, <1>7, <3>3
    <3> QED
      BY <1>6, <3>1, <3>2, <3>3
  <2> QED
    BY <1>3, <2>1
<1>9. ASSUME NEW i \in Used(v)
      PROVE  /\ From(i, idx, last) \in Used(t) /\ From(i, idx, last) # idx
             /\ v.mKeyVals[i] = t.mKeyVals[From(i, idx, last)]
             /\ i \in Nat
             /\ i \in idx..(last - 1) => /\ v.mInfo[i] = old[i + 1] - inc
                                        /\ old[i + 1] >= 2 * inc
                                        /\ i + 1 \in Used(t)
             /\ i \notin idx..(last - 1) => v.mInfo[i] = old[i]
  <2>1. i \in 0..(slots - 1) /\ i \in Nat /\ i # last /\ i \in Used(t) /\ i \in 0..(slots + 7)
    BY <1>3, <1>4, <1>8
  <2>2. CASE i \in idx..(last - 1)
    <3>1. From(i, idx, last) = i + 1 /\ i + 1 # idx
      BY <1>2, <2>2 DEF From
    <3> QED
      BY <1>2, <2>1, <2>2, <3>1
  <2>3. CASE i \notin idx..(last - 1)
    <3>1. i \notin idx..last /\ From(i, idx, last) = i
      BY <1>6, <2>1, <2>3 DEF From
    <3>2. idx \in idx..last
      BY <1>2
    <3> QED
      BY <1>2, <2>1, <2>3, <3>1, <3>2
  <2> QED
    BY <2>2, <2>3
<1>10. ASSUME NEW j \in Used(t) \ {idx}
       PROVE  \E i \in Used(v) : From(i, idx, last) = j /\ (j >= idx <=> i >= idx)
  <2>1. j \in Nat
    BY <1>3, <1>4
  <2>2. CASE j \in (idx + 1)..last
    <3>1. /\ j - 1 \in idx..(last - 1) /\ (j - 1) + 1 = j /\ j >= idx /\ j - 1 >= idx
      BY <1>2, <2>1, <2>2
    <3>2. j - 1 \in Used(v)
      BY <1>2, <1>7, <1>8, <3>1
    <3>3. From(j - 1, idx, last) = j
      BY <3>1 DEF From
    <3> QED
      BY <3>1, <3>2, <3>3
  <2>3. CASE j \notin (idx + 1)..last
    <3>1. j \notin idx..(last - 1) /\ j # last
      BY <1>2, <2>1, <2>3
    <3>2. j \in Used(v) /\ From(j, idx, last) = j
      BY <1>8, <3>1 DEF From
    <3> QED
      BY <3>2
  <2> QED
    BY <2>2, <2>3
<1> QED
  BY <1>1, <1>8, <1>9, <1>10 DEF KeyAt

LEMMA ShrunkShaped ==
  ASSUME NEW t, Sound(t), NEW idx \in Used(t), NEW v, v = Shrunk(t, idx)
  PROVE  Shaped(v)
<1>1. PICK last, slots, inc, n : /\ last = LastMoved(t, idx) /\ slots = Slots(t)
                                 /\ inc = t.mInfoInc /\ n = InfoByte
  OBVIOUS
<1>2. /\ slots \in Nat /\ Slots(v) = slots /\ inc \in Nat /\ inc >= 2 /\ n \in Nat
      /\ t.mMask # 0 /\ v.mMask = t.mMask
      /\ idx \in Nat /\ last \in Nat /\ idx <= last /\ last < slots
      /\ DOMAIN v.mInfo = 0..(slots + 7) /\ DOMAIN v.mKeyVals = 0..(slots - 1)
      /\ \A i \in 0..(slots + 7) : t.mInfo[i] \in 0..(n - 1)
      /\ \A i \in idx..(last - 1) :
           /\ v.mInfo[i] = t.mInfo[i + 1] - inc
           /\ v.mKeyVals[i] = t.mKeyVals[i + 1]
           /\ t.mInfo[i + 1] >= 2 * inc
      /\ v.mInfo[last] = 0 /\ v.mKeyVals[last] = NoNode
      /\ \A i \in 0..(slots + 7) : i \notin idx..last => v.mInfo[i] = t.mInfo[i]
      /\ \A i \in 0..(slots - 1) : i \notin idx..last => v.mKeyVals[i] = t.mKeyVals[i]
  <2>1. Shrinks(t, v, idx, last)
    BY <1>1, ShrunkFacts
  <2> QED
    BY <1>1, <2>1 DEF Shrinks
<1>3. Shaped(t) /\ Fields(t) /\ Sized(t) /\ Scaled(t) /\ t.mNumElements = Cardinality(Used(t))
  BY DEF Sound, Shaped
<1>4. /\ Same(t, v) /\ v.mKeyVals = LessKeyVals(t, idx, last)
      /\ v.mInfo = LessInfo(t, idx, last)
      /\ v.mNumElements = t.mNumElements - 1
      /\ v.mMaxNumElementsAllowed = t.mMaxNumElementsAllowed
      /\ v = [mHashMultiplier |-> v.mHashMultiplier, mKeyVals |-> v.mKeyVals,
              mInfo |-> v.mInfo, mNumElements |-> v.mNumElements,
              mMask |-> v.mMask,
              mMaxNumElementsAllowed |-> v.mMaxNumElementsAllowed,
              mInfoInc |-> v.mInfoInc, mInfoHashShift |-> v.mInfoHashShift]
  BY <1>1, <1>3, ShrunkMembers
<1>5. \A i \in idx..last : i = last \/ i \in idx..(last - 1)
  BY <1>2
<1>6. ASSUME NEW i \in 0..(slots + 7) PROVE v.mInfo[i] \in 0..(n - 1)
  <2>1. CASE i \notin idx..last
    BY <1>2, <2>1
  <2>2. CASE i = last
    BY <1>2, <2>2, ByteLarge, <1>1
  <2>3. CASE i \in idx..(last - 1)
    <3>1. i + 1 \in 0..(slots + 7)
      BY <1>2, <2>3
    <3>2. PICK a : a = t.mInfo[i + 1]
      OBVIOUS
    <3>3. a \in 0..(n - 1) /\ a >= 2 * inc /\ v.mInfo[i] = a - inc
      BY <1>2, <2>3, <3>1, <3>2
    <3>4. a - inc \in 0..(n - 1)
      BY <1>2, <3>3
    <3> QED
      BY <3>3, <3>4
  <2> QED
    BY <1>5, <2>1, <2>2, <2>3
<1>7. ASSUME NEW i \in 0..(slots - 1) PROVE v.mKeyVals[i] \in Pair \cup {NoNode}
  <2>1. \A j \in 0..(slots - 1) : t.mKeyVals[j] \in Pair \cup {NoNode}
    <3>1. DOMAIN t.mKeyVals = 0..(slots - 1)
      BY <1>1, <1>2, <1>3 DEF Sized
    <3>2. t.mKeyVals \in [DOMAIN t.mKeyVals -> Pair \cup {NoNode}]
      BY <1>3 DEF Fields
    <3> QED
      BY <3>1, <3>2
  <2>2. CASE i \in idx..(last - 1)
    <3>1. i + 1 \in 0..(slots - 1)
      BY <1>2, <2>2
    <3>2. v.mKeyVals[i] = t.mKeyVals[i + 1]
      BY <1>2, <2>2
    <3> QED
      BY <2>1, <3>1, <3>2
  <2>3. CASE i = last
    <3>1. v.mKeyVals[i] = NoNode
      BY <1>2, <2>3
    <3> QED
      BY <3>1
  <2>4. CASE i \notin idx..last
    <3>1. v.mKeyVals[i] = t.mKeyVals[i]
      BY <1>2, <2>4
    <3> QED
      BY <2>1, <3>1
  <2> QED
    BY <1>5, <2>2, <2>3, <2>4
<1>8. v.mInfo = [i \in DOMAIN v.mInfo |-> v.mInfo[i]]
      /\ v.mKeyVals = [i \in DOMAIN v.mKeyVals |-> v.mKeyVals[i]]
  BY <1>4 DEF LessInfo, LessKeyVals
<1>9. v.mInfo \in [DOMAIN v.mInfo -> 0..(InfoByte - 1)]
  BY <1>1, <1>2, <1>6, <1>8
<1>10. v.mKeyVals \in [DOMAIN v.mKeyVals -> Pair \cup {NoNode}]
  BY <1>2, <1>7, <1>8
<1>11. v.mNumElements \in Nat
  <2>1. IsFiniteSet(Used(t))
    BY <1>3, Geometry
  <2>2. Cardinality(Used(t)) # 0
    BY <2>1, FS_EmptySet
  <2>3. t.mNumElements \in Nat
    BY <1>3 DEF Fields
  <2> QED
    BY <1>3, <1>4, <2>2, <2>3
<1>12. Fields(v)
  <2>1. /\ v.mHashMultiplier \in 0..(Multipliers - 1)
        /\ v.mMask \in Nat /\ v.mInfoInc \in Nat /\ v.mInfoHashShift \in Nat
        /\ v.mMaxNumElementsAllowed \in Nat
    BY <1>3, <1>4 DEF Fields, Same
  <2> QED
    BY <1>4, <1>9, <1>10, <1>11, <2>1 DEF Fields
<1>13. Sized(v)
  <2>1. t.mInfo[slots] = 1 /\ \A i \in (slots + 1)..(slots + 7) : t.mInfo[i] = 0
    BY <1>1, <1>2, <1>3 DEF Sized
  <2>2. /\ slots \in 0..(slots + 7) /\ slots \notin idx..last
        /\ \A i \in (slots + 1)..(slots + 7) : i \in 0..(slots + 7) /\ i \notin idx..last
    <3>1. slots \in Nat /\ idx \in Nat /\ last \in Nat /\ last < slots
      BY <1>2
    <3> QED
      BY <3>1
  <2>a. \A i \in 0..(slots + 7) : i \notin idx..last => v.mInfo[i] = t.mInfo[i]
    BY <1>2
  <2>3. v.mInfo[slots] = 1
    BY <2>1, <2>2, <2>a
  <2>4. \A i \in (slots + 1)..(slots + 7) : v.mInfo[i] = 0
    BY <2>1, <2>2, <2>a
  <2> QED
    BY <1>2, <2>3, <2>4 DEF Sized
<1>14. Scaled(v)
  BY <1>3, <1>4, SameIs
<1> QED
  BY <1>12, <1>13, <1>14 DEF Shaped

LEMMA ShrunkOrdered ==
  ASSUME NEW t, Sound(t), NEW idx \in Used(t), NEW v, v = Shrunk(t, idx)
  PROVE  Ordered(v)
<1>1. PICK last, slots, inc, old, new :
         /\ last = LastMoved(t, idx) /\ slots = Slots(t) /\ inc = t.mInfoInc
         /\ old = t.mInfo /\ new = v.mInfo
  OBVIOUS
<1>2. /\ slots \in Nat /\ Slots(v) = slots /\ inc \in Nat /\ inc >= 2 /\ v.mInfoInc = inc
      /\ idx \in Nat /\ last \in Nat /\ idx <= last /\ last < slots
      /\ \A i \in 0..(slots + 7) : old[i] \in Nat
      /\ \A i \in idx..(last - 1) : new[i] = old[i + 1] - inc /\ old[i + 1] >= 2 * inc
      /\ new[last] = 0
      /\ \A i \in 0..(slots + 7) : i \notin idx..last => new[i] = old[i]
      /\ old[last + 1] < 2 * inc
  <2>1. Shrinks(t, v, idx, last)
    BY <1>1, ShrunkFacts
  <2> QED
    BY <1>1, <2>1 DEF Shrinks
<1>3. \A i \in 1..(slots - 1) : old[i] >= 2 * inc => old[i - 1] >= old[i] - inc
  BY <1>1 DEF Sound, Ordered
<1>4. ASSUME NEW i \in 1..(slots - 1), new[i] >= 2 * inc
      PROVE  new[i - 1] >= new[i] - inc
  <2>1. i \in Nat /\ i - 1 \in 0..(slots - 1) /\ i \in 0..(slots + 7) /\ i - 1 \in 0..(slots + 7)
    BY <1>2
  <2>2. PICK a, b, c, e : a = old[i] /\ b = old[i - 1] /\ c = new[i] /\ e = new[i - 1]
    OBVIOUS
  <2>3. a \in Nat /\ b \in Nat /\ (a >= 2 * inc => b >= a - inc) /\ c >= 2 * inc
    BY <1>2, <1>3, <1>4, <2>1, <2>2
  <2>4. CASE i < idx \/ i > last + 1
    <3>1. i \notin idx..last /\ i - 1 \notin idx..last
      BY <1>2, <2>1, <2>4
    <3>2. c = a /\ e = b
      BY <1>2, <2>1, <2>2, <3>1
    <3> QED
      BY <2>2, <2>3, <3>2
  <2>5. CASE i \in idx..(last - 1)
    <3>1. i + 1 \in 1..(slots - 1) /\ i + 1 \in 0..(slots + 7) /\ (i + 1) - 1 = i
      BY <1>2, <2>1, <2>5
    <3>2. PICK g : g = old[i + 1]
      OBVIOUS
    <3>3. g \in Nat /\ g >= 2 * inc /\ c = g - inc
      BY <1>2, <2>2, <2>5, <3>1, <3>2
    <3>4. a >= g - inc
      <4>1. old[i + 1] >= 2 * inc => old[(i + 1) - 1] >= old[i + 1] - inc
        BY <1>3, <3>1
      <4> QED
        BY <2>2, <3>1, <3>2, <3>3, <4>1
    <3>5. a >= 2 * inc /\ b >= a - inc
      BY <1>2, <2>3, <3>3, <3>4
    <3>6. CASE i = idx
      <4>1. i - 1 \notin idx..last
        BY <1>2, <2>1, <3>6
      <4>2. e = b
        BY <1>2, <2>1, <2>2, <4>1
      <4>3. e >= c - inc
        BY <1>2, <2>3, <3>3, <3>4, <3>5, <4>2
      <4> QED
        BY <2>2, <4>3
    <3>7. CASE i # idx
      <4>1. i - 1 \in idx..(last - 1) /\ (i - 1) + 1 = i
        BY <1>2, <2>1, <2>5, <3>7
      <4>2. e = a - inc
        BY <1>2, <2>2, <4>1
      <4>3. e >= c - inc
        BY <1>2, <2>3, <3>3, <3>4, <4>2
      <4> QED
        BY <2>2, <4>3
    <3> QED
      BY <3>6, <3>7
  <2>6. CASE i = last
    BY <1>2, <2>2, <2>3, <2>6
  <2>7. CASE i = last + 1
    <3>1. i \notin idx..last
      BY <1>2, <2>1, <2>7
    <3>2. c = a
      BY <1>2, <2>1, <2>2, <3>1
    <3> QED
      BY <1>2, <2>2, <2>3, <2>7, <3>2
  <2>8. \/ i < idx \/ i > last + 1 \/ i \in idx..(last - 1) \/ i = last \/ i = last + 1
    BY <1>2, <2>1
  <2> QED
    BY <2>4, <2>5, <2>6, <2>7, <2>8
<1> QED
  BY <1>1, <1>2, <1>4 DEF Ordered

(* The table without the erased node is as sound as it was.                 *)
LEMMA ShrunkSound ==
  ASSUME NEW t, Sound(t), NEW idx \in Used(t), NEW v, v = Shrunk(t, idx)
  PROVE  /\ Sound(v) /\ v.mMask = t.mMask /\ v.mNumElements = t.mNumElements - 1
         /\ Slots(v) = Slots(t)
         /\ Nodes(v) = Nodes(t) \ {t.mKeyVals[idx]}
         /\ Keys(v) = Keys(t) \ {KeyAt(t, idx)}
         /\ KeysFrom(v, idx) = KeysFrom(t, idx) \ {KeyAt(t, idx)}
<1>1. PICK last : last = LastMoved(t, idx)
  OBVIOUS
<1>2. /\ Shaped(t) /\ Fields(t) /\ Honest(t) /\ Distinct(t) /\ Allowed(t)
      /\ t.mNumElements = Cardinality(Used(t))
  BY DEF Sound, Shaped
<1>3. /\ Same(t, v) /\ v.mNumElements = t.mNumElements - 1
      /\ v.mMaxNumElementsAllowed = t.mMaxNumElementsAllowed
  BY <1>1, <1>2, ShrunkMembers
<1>4. /\ Used(v) = Used(t) \ {last}
      /\ \A i \in Used(v) :
           /\ From(i, idx, last) \in Used(t) /\ From(i, idx, last) # idx
           /\ v.mKeyVals[i] = t.mKeyVals[From(i, idx, last)]
           /\ KeyAt(v, i) = KeyAt(t, From(i, idx, last))
           /\ i \in Nat
           /\ i \in idx..(last - 1) => /\ v.mInfo[i] = t.mInfo[i + 1] - t.mInfoInc
                                      /\ t.mInfo[i + 1] >= 2 * t.mInfoInc
                                      /\ i + 1 \in Used(t)
           /\ i \notin idx..(last - 1) => v.mInfo[i] = t.mInfo[i]
      /\ \A j \in Used(t) \ {idx} :
           \E i \in Used(v) : From(i, idx, last) = j /\ (j >= idx <=> i >= idx)
  BY <1>1, ShrunkOrigin
<1>5. /\ t.mInfoInc \in Nat /\ t.mInfoInc >= 2 /\ last \in Used(t) /\ idx \in Nat
      /\ last \in Nat /\ InfoByte \in Nat
  <2>1. Shrinks(t, v, idx, last)
    BY <1>1, ShrunkFacts
  <2> QED
    BY <2>1 DEF Shrinks
<1>6. Shaped(v) /\ Ordered(v)
  BY ShrunkShaped, ShrunkOrdered
<1>7. /\ Slots(v) = Slots(t)
      /\ \A key : Home(v, key) = Home(t, key)
      /\ \A key, d : Info(v, key, d) = Info(t, key, d)
      /\ \A x : Full(v, x) <=> Full(t, x)
  BY <1>3, SameIs
<1>8. Honest(v)
  <2>1. ASSUME NEW i \in Used(v)
        PROVE  /\ v.mKeyVals[i] \in Pair
               /\ i >= Home(t, KeyAt(v, i))
               /\ v.mInfo[i] = Info(t, KeyAt(v, i), i - Home(t, KeyAt(v, i)))
    <3>1. PICK j, k, h : j = From(i, idx, last) /\ k = KeyAt(v, i) /\ h = Home(t, k)
      OBVIOUS
    <3>2. j \in Used(t) /\ k = KeyAt(t, j) /\ v.mKeyVals[i] = t.mKeyVals[j] /\ i \in Nat
      BY <1>4, <3>1
    <3>3. /\ t.mKeyVals[j] \in Pair /\ j \in Nat /\ h \in Nat /\ j - h \in Nat
          /\ t.mInfo[j] = Info(t, k, j - h) /\ k \in Key
      BY <1>2, <3>1, <3>2, UsedIs
    <3>4. CASE i \in idx..(last - 1)
      <4>1. j = i + 1
        BY <3>1, <3>4 DEF From
      <4>2. v.mInfo[i] = t.mInfo[j] - t.mInfoInc /\ t.mInfo[j] >= 2 * t.mInfoInc
        BY <1>4, <3>4, <4>1
      <4>3. PICK d \in Nat : d = j - h
        BY <3>3
      <4>4. d # 0
        <5>1. Info(t, k, 0) < 2 * t.mInfoInc /\ Info(t, k, 0) \in Nat
          BY <1>2, <3>3, Steps
        <5> QED
          BY <1>5, <3>3, <4>2, <4>3, <5>1
      <4>5. PICK e \in Nat : d = e + 1
        <5>1. d - 1 \in Nat /\ d = (d - 1) + 1
          BY <4>4
        <5> QED
          BY <5>1
      <4>6. Info(t, k, e + 1) = Info(t, k, e) + t.mInfoInc /\ Info(t, k, e) \in Nat
        BY <1>2, <3>3, <4>5, Steps
      <4>7. i - h = e /\ i >= h
        BY <3>2, <3>3, <4>1, <4>3, <4>5
      <4>8. v.mInfo[i] = Info(t, k, e)
        BY <1>5, <3>3, <4>2, <4>3, <4>5, <4>6
      <4> QED
        BY <3>1, <3>2, <3>3, <4>7, <4>8
    <3>5. CASE i \notin idx..(last - 1)
      <4>1. i = j
        BY <3>1, <3>5 DEF From
      <4>2. v.mInfo[i] = t.mInfo[i] /\ i >= h
        BY <1>4, <3>3, <3>5, <4>1
      <4> QED
        BY <3>1, <3>2, <3>3, <4>1, <4>2
    <3> QED
      BY <3>4, <3>5
  <2> QED
    BY <1>7, <2>1 DEF Honest
<1>9. ASSUME NEW i \in Used(v), NEW j \in Used(v),
             From(i, idx, last) = From(j, idx, last)
      PROVE  i = j
  <2>1. i \in Nat /\ j \in Nat /\ i # last /\ j # last
    BY <1>4
  <2>2. ASSUME NEW a \in Nat, NEW b \in Nat, a \in idx..(last - 1),
               b \notin idx..(last - 1), b # last, a + 1 = b
        PROVE  FALSE
    BY <1>5, <2>2
  <2>3. (i \in idx..(last - 1)) <=> (j \in idx..(last - 1))
    <3>1. CASE i \in idx..(last - 1) /\ j \notin idx..(last - 1)
      <4>1. i + 1 = j
        BY <1>9, <3>1 DEF From
      <4> QED
        BY <2>1, <2>2, <3>1, <4>1
    <3>2. CASE j \in idx..(last - 1) /\ i \notin idx..(last - 1)
      <4>1. j + 1 = i
        BY <1>9, <3>2 DEF From
      <4> QED
        BY <2>1, <2>2, <3>2, <4>1
    <3> QED
      BY <3>1, <3>2
  <2>4. i = j \/ i + 1 = j + 1
    BY <1>9, <2>3 DEF From
  <2> QED
    BY <2>1, <2>4
<1>10. Distinct(v)
  <2>1. ASSUME NEW i \in Used(v), NEW j \in Used(v), KeyAt(v, i) = KeyAt(v, j)
        PROVE  i = j
    <3>1. From(i, idx, last) = From(j, idx, last)
      BY <1>2, <1>4, <2>1 DEF Distinct
    <3> QED
      BY <1>9, <3>1
  <2> QED
    BY <2>1 DEF Distinct
<1>11. v.mNumElements = Cardinality(Used(v))
  <2>1. IsFiniteSet(Used(t))
    BY <1>2, Geometry
  <2>2. Cardinality(Used(t) \ {last}) = Cardinality(Used(t)) - 1
    BY <1>5, <2>1, FS_RemoveElement
  <2> QED
    BY <1>2, <1>3, <1>4, <2>2
<1>12. Allowed(v)
  <2>1. v.mMaxNumElementsAllowed \in {0, calcMaxNumElementsAllowed(v.mMask + 1)}
    BY <1>2, <1>3 DEF Allowed, Same
  <2>2. ASSUME Room(t), NEW i \in Used(v)
        PROVE  ~Full(t, v.mInfo[i])
    <3>1. CASE i \in idx..(last - 1)
      <4>1. v.mInfo[i] = t.mInfo[i + 1] - t.mInfoInc /\ i + 1 \in Used(t)
            /\ ~Full(t, t.mInfo[i + 1])
        BY <1>4, <2>2, <3>1 DEF Room
      <4>2. PICK a, j : j = i + 1 /\ a = t.mInfo[j]
        OBVIOUS
      <4>3. a \in Nat
        <5>1. j \in Used(t)
          BY <4>1, <4>2
        <5> QED
          BY <1>2, <4>2, <5>1, UsedIs
      <4>4. ~(a + t.mInfoInc > InfoByte - 1)
        BY <4>1, <4>2 DEF Full
      <4>5. ~((a - t.mInfoInc) + t.mInfoInc > InfoByte - 1)
        BY <1>5, <4>3, <4>4
      <4> QED
        BY <4>1, <4>2, <4>5 DEF Full
    <3>2. CASE i \notin idx..(last - 1)
      <4>1. v.mInfo[i] = t.mInfo[i] /\ i \in Used(t)
        BY <1>4, <3>2
      <4> QED
        BY <2>2, <4>1 DEF Room
    <3> QED
      BY <3>1, <3>2
  <2> QED
    BY <1>2, <1>3, <1>7, <2>1, <2>2 DEF Allowed, Room
<1>13. Nodes(v) = Nodes(t) \ {t.mKeyVals[idx]}
  <2>1. ASSUME NEW x \in Nodes(v) PROVE x \in Nodes(t) /\ x # t.mKeyVals[idx]
    <3>1. PICK i \in Used(v) : x = v.mKeyVals[i]
      BY DEF Nodes
    <3>2. PICK j : j = From(i, idx, last)
      OBVIOUS
    <3>3. x = t.mKeyVals[j] /\ j \in Used(t) /\ j # idx
      BY <1>4, <3>1, <3>2
    <3> QED
      BY <1>2, <3>3 DEF Nodes, Distinct, KeyAt
  <2>2. ASSUME NEW x \in Nodes(t), x # t.mKeyVals[idx] PROVE x \in Nodes(v)
    <3>1. PICK j \in Used(t) : x = t.mKeyVals[j]
      BY DEF Nodes
    <3>2. PICK i \in Used(v) : From(i, idx, last) = j
      BY <1>4, <2>2, <3>1
    <3> QED
      BY <1>4, <3>1, <3>2 DEF Nodes
  <2> QED
    BY <2>1, <2>2
<1>14. Keys(v) = Keys(t) \ {KeyAt(t, idx)}
  <2>1. ASSUME NEW x \in Keys(v) PROVE x \in Keys(t) /\ x # KeyAt(t, idx)
    <3>1. PICK i \in Used(v) : x = KeyAt(v, i)
      BY DEF Keys, Nodes, KeyAt
    <3>2. PICK j : j = From(i, idx, last)
      OBVIOUS
    <3>3. x = KeyAt(t, j) /\ j \in Used(t) /\ j # idx
      BY <1>4, <3>1, <3>2
    <3> QED
      BY <1>2, <3>3 DEF Keys, Nodes, Distinct, KeyAt
  <2>2. ASSUME NEW x \in Keys(t), x # KeyAt(t, idx) PROVE x \in Keys(v)
    <3>1. PICK j \in Used(t) : x = KeyAt(t, j)
      BY DEF Keys, Nodes, KeyAt
    <3>2. PICK i \in Used(v) : From(i, idx, last) = j
      BY <1>4, <2>2, <3>1
    <3>3. x = KeyAt(v, i)
      BY <1>4, <3>1, <3>2
    <3> QED
      BY <3>3 DEF Keys, Nodes, KeyAt
  <2> QED
    BY <2>1, <2>2
<1>15. KeysFrom(v, idx) = KeysFrom(t, idx) \ {KeyAt(t, idx)}
  <2>1. ASSUME NEW x \in KeysFrom(v, idx)
        PROVE  x \in KeysFrom(t, idx) /\ x # KeyAt(t, idx)
    <3>1. PICK i \in Used(v) : x = KeyAt(v, i) /\ i >= idx
      BY DEF KeysFrom
    <3>2. PICK j : j = From(i, idx, last)
      OBVIOUS
    <3>3. x = KeyAt(t, j) /\ j \in Used(t) /\ j # idx /\ i \in Nat
      BY <1>4, <3>1, <3>2
    <3>4. j >= idx
      BY <1>5, <3>1, <3>2, <3>3 DEF From
    <3> QED
      BY <1>2, <3>3, <3>4 DEF KeysFrom, Distinct
  <2>2. ASSUME NEW x \in KeysFrom(t, idx), x # KeyAt(t, idx) PROVE x \in KeysFrom(v, idx)
    <3>1. PICK j \in Used(t) : x = KeyAt(t, j) /\ j >= idx
      BY DEF KeysFrom
    <3>2. PICK i \in Used(v) : From(i, idx, last) = j /\ (j >= idx <=> i >= idx)
      BY <1>4, <2>2, <3>1
    <3>3. x = KeyAt(v, i) /\ i >= idx
      BY <1>4, <3>1, <3>2
    <3> QED
      BY <3>3 DEF KeysFrom
  <2> QED
    BY <2>1, <2>2
<1> QED
  BY <1>3, <1>6, <1>7, <1>8, <1>10, <1>11, <1>12, <1>13, <1>14, <1>15 DEF Sound, Same

-----------------------------------------------------------------------------
(* Iterating, assigning, and sizes *)

(* The next used slot, or the sentinel: no node is left out between.        *)
LEMMA FastForward ==
  ASSUME NEW t, Shaped(t), t.mMask # 0, NEW i \in 0..Slots(t), NEW r, r = fastForward(t, i)
  PROVE  /\ r = End(t) \/ r \in Used(t)
         /\ KeysFrom(t, r) = KeysFrom(t, i)
<1>1. PICK slots : slots = Slots(t) /\ slots \in Nat
  BY Geometry
<1>2. t.mInfo[slots] # 0
  BY <1>1 DEF Shaped, Sized
<1>3. PICK S : S = {j \in i..slots : t.mInfo[j] # 0}
  OBVIOUS
<1>4. slots \in i..slots /\ slots \in S /\ i \in Nat
  BY <1>1, <1>2, <1>3
<1>5. \E j \in i..slots : j \in S /\ (\A k \in i..(j - 1) : k \notin S) /\ j <= slots
  BY <1>1, <1>4, FirstOf
<1>6. PICK j \in i..slots : j \in S /\ (\A k \in i..(j - 1) : k \notin S)
  BY <1>5
<1>7. t.mInfo[j] # 0 /\ \A k \in i..(j - 1) : ~(t.mInfo[k] # 0)
  <2>1. \A k \in i..(j - 1) : k \in i..slots
    BY <1>1, <1>4, <1>6
  <2> QED
    BY <1>3, <1>6, <2>1
<1>8. /\ r \in i..slots /\ t.mInfo[r] # 0
      /\ \A k \in i..(r - 1) : ~(t.mInfo[k] # 0)
  BY <1>1, <1>6, <1>7 DEF fastForward, First
<1>9. r = slots \/ r \in Used(t)
  <2>1. r = slots \/ r \in 0..(slots - 1)
    BY <1>1, <1>4, <1>8
  <2> QED
    BY <1>1, <1>8, <2>1 DEF Used
<1>10. \A k \in Used(t) : k >= i <=> k >= r
  <2>1. ASSUME NEW k \in Used(t), k >= i PROVE k >= r
    <3>1. k \in Nat /\ t.mInfo[k] # 0
      BY <1>1 DEF Used
    <3>2. k \notin i..(r - 1)
      BY <1>8, <3>1
    <3> QED
      BY <1>1, <1>4, <1>8, <2>1, <3>1, <3>2
  <2>2. ASSUME NEW k \in Used(t), k >= r PROVE k >= i
    <3>1. k \in Nat
      BY <1>1 DEF Used
    <3> QED
      BY <1>1, <1>4, <1>8, <2>2, <3>1
  <2> QED
    BY <2>1, <2>2
<1>11. KeysFrom(t, r) = KeysFrom(t, i)
  BY <1>10 DEF KeysFrom
<1> QED
  BY <1>1, <1>9, <1>11 DEF End

(* From the first slot on all keys are left, from the end on none.          *)
LEMMA KeysEnds ==
  ASSUME NEW t, Shaped(t)
  PROVE  KeysFrom(t, 0) = Keys(t) /\ KeysFrom(t, End(t)) = {}
<1>1. Slots(t) \in Nat /\ Used(t) \subseteq 0..(Slots(t) - 1) /\ (t.mMask = 0 => Used(t) = {})
  BY Geometry
<1>2. \A k \in Used(t) : k >= 0 /\ ~(k >= End(t))
  BY <1>1 DEF End
<1> QED
  BY <1>2 DEF KeysFrom, Keys, Nodes, KeyAt

(* One slot on: the key of the slot is left out.                            *)
LEMMA KeysStep ==
  ASSUME NEW t, Sound(t), NEW i \in Used(t)
  PROVE  /\ KeysFrom(t, i + 1) = KeysFrom(t, i) \ {KeyAt(t, i)}
         /\ i + 1 \in 0..Slots(t) /\ t.mMask # 0
<1>1. /\ Slots(t) \in Nat /\ Used(t) \subseteq 0..(Slots(t) - 1) /\ (t.mMask = 0 => Used(t) = {})
  BY Geometry DEF Sound
<1>2. \A k \in Used(t) : k >= i + 1 <=> k >= i /\ k # i
  BY <1>1
<1>3. \A k \in Used(t) : KeyAt(t, k) = KeyAt(t, i) <=> k = i
  BY DEF Sound, Distinct
<1>4. KeysFrom(t, i + 1) = KeysFrom(t, i) \ {KeyAt(t, i)}
  BY <1>2, <1>3 DEF KeysFrom
<1> QED
  BY <1>1, <1>4

(* A free slot is no loss.                                                  *)
LEMMA KeysSkip ==
  ASSUME NEW t, Shaped(t), NEW i \in Nat, i \notin Used(t)
  PROVE  KeysFrom(t, i + 1) = KeysFrom(t, i)
<1>1. \A k \in Used(t) : k \in Nat /\ k # i
  BY Geometry
<1>2. \A k \in Used(t) : k >= i + 1 <=> k >= i
  BY <1>1
<1> QED
  BY <1>2 DEF KeysFrom

(* A new value for a key that is there.                                     *)
Assigned(t, i, node) == [t EXCEPT !.mKeyVals[i] = node]

LEMMA AssignSound ==
  ASSUME NEW t, Sound(t), NEW i \in Used(t), NEW node \in Pair, node.first = KeyAt(t, i),
         NEW v, v = Assigned(t, i, node)
  PROVE  /\ Sound(v) /\ v.mMask = t.mMask /\ v.mNumElements = t.mNumElements
         /\ Keys(v) = Keys(t) /\ Used(v) = Used(t)
         /\ v.mKeyVals = [t.mKeyVals EXCEPT ![i] = node]
<1>1. /\ Shaped(t) /\ Fields(t) /\ Honest(t) /\ Ordered(t) /\ Distinct(t) /\ Allowed(t)
      /\ t.mNumElements = Cardinality(Used(t))
  BY DEF Sound, Shaped
<1>2. PICK hash, keyVals, bytes, num, mask, max, inc, shift :
        t = [mHashMultiplier |-> hash, mKeyVals |-> keyVals, mInfo |-> bytes,
             mNumElements |-> num, mMask |-> mask,
             mMaxNumElementsAllowed |-> max,
             mInfoInc |-> inc, mInfoHashShift |-> shift]
  BY <1>1 DEF Fields
<1>3. PICK kv : kv = [keyVals EXCEPT ![i] = node]
  OBVIOUS
<1>4. t.mKeyVals = keyVals
  BY <1>2
<1>5. v = [t EXCEPT !.mKeyVals = kv]
  BY <1>3, <1>4 DEF Assigned
<1>6. v = [mHashMultiplier |-> hash, mKeyVals |-> kv, mInfo |-> bytes,
           mNumElements |-> num, mMask |-> mask,
           mMaxNumElementsAllowed |-> max,
           mInfoInc |-> inc, mInfoHashShift |-> shift]
  BY <1>2, <1>5
<1>7. /\ v.mHashMultiplier = hash /\ v.mKeyVals = kv /\ v.mInfo = bytes
      /\ v.mNumElements = num /\ v.mMask = mask
      /\ v.mMaxNumElementsAllowed = max
      /\ v.mInfoInc = inc /\ v.mInfoHashShift = shift
  BY <1>6
<1>8. /\ t.mHashMultiplier = hash /\ t.mInfo = bytes
      /\ t.mNumElements = num /\ t.mMask = mask
      /\ t.mMaxNumElementsAllowed = max
      /\ t.mInfoInc = inc /\ t.mInfoHashShift = shift
  BY <1>2
<1>9. v = [mHashMultiplier |-> v.mHashMultiplier, mKeyVals |-> v.mKeyVals,
           mInfo |-> v.mInfo, mNumElements |-> v.mNumElements,
           mMask |-> v.mMask,
           mMaxNumElementsAllowed |-> v.mMaxNumElementsAllowed,
           mInfoInc |-> v.mInfoInc, mInfoHashShift |-> v.mInfoHashShift]
  BY <1>6, <1>7
<1>10. Same(t, v) /\ v.mInfo = t.mInfo
  BY <1>7, <1>8 DEF Same
<1>11. /\ Slots(v) = Slots(t) /\ (Scaled(t) => Scaled(v))
       /\ \A key : Home(v, key) = Home(t, key)
       /\ \A key, d : Info(v, key, d) = Info(t, key, d)
       /\ \A x : Full(v, x) <=> Full(t, x)
  BY <1>10, SameIs
<1>12. keyVals \in [DOMAIN keyVals -> Pair \cup {NoNode}]
  BY <1>1, <1>4 DEF Fields
<1>13. /\ DOMAIN kv = DOMAIN keyVals /\ i \in DOMAIN keyVals
       /\ kv \in [DOMAIN kv -> Pair \cup {NoNode}]
       /\ kv[i] = node /\ \A j \in DOMAIN kv \ {i} : kv[j] = keyVals[j]
  <2>1. i \in DOMAIN keyVals
    <3>1. t.mMask # 0 /\ i \in 0..(Slots(t) - 1)
      BY <1>1, Geometry
    <3>2. DOMAIN keyVals = 0..(Slots(t) - 1)
      BY <1>1, <1>4, <3>1 DEF Shaped, Sized
    <3> QED
      BY <3>1, <3>2
  <2> QED
    BY <1>3, <1>12, <2>1
<1>14. Shaped(v)
  <2>1. Fields(v)
    <3>1. v.mKeyVals \in [DOMAIN v.mKeyVals -> Pair \cup {NoNode}]
      BY <1>7, <1>13
    <3>2. /\ v.mHashMultiplier \in 0..(Multipliers - 1)
          /\ v.mInfo \in [DOMAIN v.mInfo -> 0..(InfoByte - 1)]
          /\ v.mNumElements \in Nat /\ v.mMask \in Nat
          /\ v.mMaxNumElementsAllowed \in Nat
          /\ v.mInfoInc \in Nat /\ v.mInfoHashShift \in Nat
      BY <1>1, <1>7, <1>8 DEF Fields
    <3> QED
      BY <1>9, <3>1, <3>2 DEF Fields
  <2>2. Sized(v)
    BY <1>1, <1>4, <1>7, <1>8, <1>11, <1>13 DEF Shaped, Sized
  <2> QED
    BY <1>1, <1>11, <2>1, <2>2 DEF Shaped
<1>15. Used(v) = Used(t)
  BY <1>10, <1>11 DEF Used
<1>16. \A j \in Used(t) : KeyAt(v, j) = KeyAt(t, j)
  <2>1. ASSUME NEW j \in Used(t) PROVE KeyAt(v, j) = KeyAt(t, j)
    <3>1. j \in DOMAIN keyVals
      <4>1. t.mMask # 0 /\ j \in 0..(Slots(t) - 1)
        BY <1>1, Geometry
      <4>2. DOMAIN keyVals = 0..(Slots(t) - 1)
        BY <1>1, <1>4, <4>1 DEF Shaped, Sized
      <4> QED
        BY <4>1, <4>2
    <3>2. kv[j] = IF j = i THEN node ELSE keyVals[j]
      BY <1>3, <3>1
    <3> QED
      BY <1>4, <1>7, <3>2 DEF KeyAt
  <2> QED
    BY <2>1
<1>17. \A j \in Used(t) : v.mKeyVals[j] \in Pair
  <2>1. ASSUME NEW j \in Used(t) PROVE v.mKeyVals[j] \in Pair
    <3>1. t.mKeyVals[j] \in Pair
      BY <1>1 DEF Honest
    <3>2. kv[j] = node \/ kv[j] = keyVals[j]
      BY <1>3
    <3> QED
      BY <1>4, <1>7, <3>1, <3>2
  <2> QED
    BY <2>1
<1>18. Honest(v)
  BY <1>1, <1>10, <1>11, <1>15, <1>16, <1>17 DEF Honest
<1>19. Ordered(v) /\ Distinct(v)
  BY <1>1, <1>7, <1>8, <1>10, <1>11, <1>15, <1>16 DEF Ordered, Distinct
<1>20. Allowed(v)
  BY <1>1, <1>7, <1>8, <1>10, <1>11, <1>15 DEF Allowed, Room
<1>21. Keys(v) = Keys(t)
  <2>1. Keys(v) = {KeyAt(v, j) : j \in Used(v)} /\ Keys(t) = {KeyAt(t, j) : j \in Used(t)}
    BY DEF Keys, Nodes, KeyAt
  <2> QED
    BY <1>15, <1>16, <2>1
<1> QED
  BY <1>1, <1>3, <1>4, <1>7, <1>8, <1>14, <1>15, <1>18, <1>19, <1>20, <1>21 DEF Sound

(* The sizes that rehash and reserve come to are large enough.              *)
LEMMA InitialNumberLarge == InitialNumElements \in Nat /\ InitialNumElements >= 2
<1>1. InitialNumElements \in Nat /\ calcMaxNumElementsAllowed(InitialNumElements) >= 1
  BY RobinHoodAssumption
<1>2. InitialNumElements \notin {0, 1}
  BY <1>1, Load
<1> QED
  BY <1>1, <1>2

LEMMA LoadPower ==
  ASSUME NEW e \in Nat
  PROVE  calcMaxNumElementsAllowed(InitialNumElements * Power[e]) >= Power[e]
<1>1. PICK n, l, p : n = InitialNumElements /\ l = MaxLoadFactor100 /\ p = Power[e]
  OBVIOUS
<1>2. n \in Nat /\ l \in Nat /\ p \in Nat /\ (n * l) \div 100 >= 1
  BY <1>1, RobinHoodAssumption, PowerIs DEF calcMaxNumElementsAllowed
<1>3. n * l \in Nat /\ n * l >= 100
  <2>1. PICK x : x = n * l
    OBVIOUS
  <2>2. x \in Nat
    BY <1>2, <2>1
  <2>3. x >= 100
    BY <1>2, <2>1, <2>2
  <2> QED
    BY <2>1, <2>2, <2>3
<1>4. PICK z \in Nat : n * l = 100 + z
  <2>1. n * l - 100 \in Nat /\ n * l = 100 + (n * l - 100)
    BY <1>3
  <2> QED
    BY <2>1
<1>5. (n * p) * l = 100 * p + z * p /\ z * p \in Nat
  <2>1. (n * p) * l = (n * l) * p
    BY <1>2
  <2>2. (100 + z) * p = 100 * p + z * p /\ z * p \in Nat
    BY <1>2
  <2> QED
    BY <1>4, <2>1, <2>2
<1>6. PICK x : x = (n * p) * l
  OBVIOUS
<1>7. PICK y \in Nat : x = 100 * p + y
  BY <1>5, <1>6
<1>8. x \div 100 >= p
  BY <1>2, <1>7
<1> QED
  BY <1>1, <1>6, <1>8 DEF calcMaxNumElementsAllowed

LEMMA SizeForIs ==
  ASSUME NEW n \in Nat
  PROVE  /\ SizeFor(n) \in Nat /\ SizeFor(n) >= 2
         /\ calcMaxNumElementsAllowed(SizeFor(n)) >= n
<1> DEFINE P(e) == calcMaxNumElementsAllowed(InitialNumElements * Power[e]) >= n
<1>1. PICK S : S = {e \in 0..n : P(e)}
  OBVIOUS
<1>2. n \in 0..n /\ n \in S
  <2>1. Power[n] > n /\ Power[n] \in Nat
    BY PowerLarge, PowerIs
  <2>2. PICK x : x = calcMaxNumElementsAllowed(InitialNumElements * Power[n])
    OBVIOUS
  <2>3. x >= Power[n] /\ x \in Nat
    <3>1. InitialNumElements * Power[n] \in Nat
      BY <2>1, InitialNumberLarge
    <3> QED
      BY <2>2, <3>1, LoadPower, Load
  <2>4. x >= n
    BY <2>1, <2>3
  <2> QED
    BY <1>1, <2>2, <2>4
<1>3. PICK e : e = First(0, n, P)
  OBVIOUS
<1>4. e \in 0..n /\ P(e)
  <2>1. \E i \in 0..n : i \in S /\ (\A j \in 0..(i - 1) : j \notin S) /\ i <= n
    BY <1>2, FirstOf
  <2>2. PICK i \in 0..n : i \in S /\ (\A j \in 0..(i - 1) : j \notin S)
    BY <2>1
  <2>3. P(i) /\ \A j \in 0..(i - 1) : ~P(j)
    BY <1>1, <2>2
  <2> HIDE DEF P
  <2> QED
    BY <1>3, <2>2, <2>3 DEF First
<1>5. SizeFor(n) = InitialNumElements * Power[e]
  BY <1>3 DEF SizeFor
<1>6. InitialNumElements * Power[e] \in Nat /\ InitialNumElements * Power[e] >= 2
  <2>1. PICK p : p = Power[e]
    OBVIOUS
  <2>2. p \in Nat /\ p > 0
    BY <1>4, <2>1, PowerIs
  <2>3. PICK z \in Nat : p = 1 + z
    <3>1. p - 1 \in Nat /\ p = 1 + (p - 1)
      BY <2>2
    <3> QED
      BY <3>1
  <2>4. InitialNumElements * p = InitialNumElements + InitialNumElements * z
        /\ InitialNumElements * z \in Nat
    BY <2>3, InitialNumberLarge
  <2> QED
    BY <2>1, <2>4, InitialNumberLarge
<1> QED
  BY <1>4, <1>5, <1>6

-----------------------------------------------------------------------------
(* Nodes on their way *)

LEMMA TableFacts ==
  ASSUME NEW t, Sound(t)
  PROVE  /\ t.mNumElements \in Nat /\ t.mMask \in Nat
         /\ calcMaxNumElementsAllowed(t.mMask + 1) \in Nat
         /\ Keys(t) = {KeyAt(t, i) : i \in Used(t)}
         /\ t.mMask = 0 => t.mNumElements = 0
         /\ Shaped(t) /\ Fields(t)
<1>1. Shaped(t) /\ Fields(t) /\ Sized(t)
  BY DEF Sound, Shaped
<1>2. t.mNumElements \in Nat /\ t.mMask \in Nat /\ (t.mMask = 0 => t.mNumElements = 0)
  BY <1>1 DEF Fields, Sized
<1>3. t.mMask + 1 \in Nat
  BY <1>2
<1>4. calcMaxNumElementsAllowed(t.mMask + 1) \in Nat
  BY <1>3, Load
<1>5. Keys(t) = {KeyAt(t, i) : i \in Used(t)}
  BY DEF Keys, Nodes, KeyAt
<1> QED
  BY <1>1, <1>2, <1>4, <1>5

LEMMA IncomingNone ==
  ASSUME NEW t, Sound(t), t.mNumElements <= calcMaxNumElementsAllowed(t.mMask + 1),
         NEW m, m \in [{} -> Pair]
  PROVE  Incoming(t, m)
<1>1. DOMAIN m = {} /\ IsFiniteSet({}) /\ Cardinality({}) = 0
  BY FS_EmptySet
<1>2. t.mNumElements \in Nat
  BY TableFacts
<1> QED
  BY <1>1, <1>2 DEF Incoming

(* Other than their keys, their number and its limit nothing matters to the *)
(* nodes on their way.                                                      *)
LEMMA IncomingSame ==
  ASSUME NEW t, NEW v, NEW m, Incoming(t, m),
         Keys(v) = Keys(t), v.mMask = t.mMask, v.mNumElements = t.mNumElements
  PROVE  Incoming(v, m)
BY DEF Incoming

(* Old nodes on their way to a fresh table.                                 *)
LEMMA IncomingAll ==
  ASSUME NEW t, Sound(t), NEW v, Keys(v) = {}, v.mNumElements = 0,
         t.mNumElements <= calcMaxNumElementsAllowed(v.mMask + 1),
         NEW m, m = [i \in Used(t) |-> t.mKeyVals[i]]
  PROVE  Incoming(v, m) /\ {m[i] : i \in DOMAIN m} = Nodes(t)
<1>1. /\ Shaped(t) /\ Honest(t) /\ Distinct(t) /\ t.mNumElements = Cardinality(Used(t))
  BY DEF Sound
<1>2. Used(t) \subseteq 0..(Slots(t) - 1) /\ IsFiniteSet(Used(t)) /\ Slots(t) \in Nat
  BY <1>1, Geometry
<1>3. Used(t) \subseteq Nat
  BY <1>2
<1>4. DOMAIN m = Used(t) /\ m \in [Used(t) -> Pair]
  BY <1>1 DEF Honest
<1>5. \A i \in Used(t) : m[i] = t.mKeyVals[i] /\ m[i].first = KeyAt(t, i)
  BY DEF KeyAt
<1>6. \A i, j \in Used(t) : m[i].first = m[j].first => i = j
  BY <1>1, <1>5 DEF Distinct
<1>7. 0 + Cardinality(Used(t)) <= calcMaxNumElementsAllowed(v.mMask + 1)
  <2>1. t.mNumElements \in Nat
    BY TableFacts
  <2> QED
    BY <1>1, <2>1
<1>8. {m[i] : i \in DOMAIN m} = Nodes(t)
  BY <1>4, <1>5 DEF Nodes
<1> QED
  BY <1>2, <1>3, <1>4, <1>6, <1>7, <1>8 DEF Incoming

(* One of them has come to its place.                                       *)
LEMMA IncomingNext ==
  ASSUME NEW t, Sound(t), NEW m, Incoming(t, m), NEW k \in DOMAIN m,
         NEW v, Keys(v) = Keys(t) \cup {m[k].first}, v.mMask = t.mMask,
         v.mNumElements = t.mNumElements + 1,
         NEW n, n = Restrict(m, DOMAIN m \ {k})
  PROVE  Incoming(v, n) /\ Range(m) = Range(n) \cup {m[k]}
<1>1. n = [i \in DOMAIN m \ {k} |-> m[i]]
  BY DEF Restrict
<1>2. DOMAIN n = DOMAIN m \ {k} /\ \A i \in DOMAIN n : n[i] = m[i]
  BY <1>1
<1>3. /\ DOMAIN m \subseteq Nat /\ IsFiniteSet(DOMAIN m)
      /\ m \in [DOMAIN m -> Pair]
      /\ \A i, j \in DOMAIN m : m[i].first = m[j].first => i = j
      /\ \A i \in DOMAIN m : m[i].first \notin Keys(t)
      /\ t.mNumElements + Cardinality(DOMAIN m)
           <= calcMaxNumElementsAllowed(t.mMask + 1)
  BY DEF Incoming
<1>4. IsFiniteSet(DOMAIN n) /\ Cardinality(DOMAIN n) = Cardinality(DOMAIN m) - 1
      /\ Cardinality(DOMAIN m) \in Nat
  BY <1>2, <1>3, FS_RemoveElement, FS_CardinalityType
<1>5. n \in [DOMAIN n -> Pair]
  BY <1>1, <1>2, <1>3
<1>6. v.mNumElements + Cardinality(DOMAIN n) <= calcMaxNumElementsAllowed(v.mMask + 1)
  <2>1. t.mNumElements \in Nat
    BY TableFacts
  <2>2. v.mNumElements + Cardinality(DOMAIN n) = t.mNumElements + Cardinality(DOMAIN m)
    BY <1>4, <2>1
  <2> QED
    BY <1>3, <2>2
<1>7. \A i \in DOMAIN n : n[i].first \notin Keys(v)
  BY <1>2, <1>3
<1>8. Range(m) = Range(n) \cup {m[k]}
  BY <1>2 DEF Range
<1>9. DOMAIN n \subseteq Nat /\ \A i, j \in DOMAIN n : n[i].first = n[j].first => i = j
  BY <1>2, <1>3
<1>10. Incoming(v, n)
  BY <1>4, <1>5, <1>6, <1>7, <1>9 DEF Incoming
<1> QED
  BY <1>8, <1>10

(* A new node at the place that insert_move and the insertions find for it. *)
LEMMA PutNew ==
  ASSUME NEW t, Sound(t), Room(t), t.mMask # 0,
         t.mNumElements < calcMaxNumElementsAllowed(t.mMask + 1),
         NEW node \in Pair, node.first \notin Keys(t),
         NEW v, v = PutAt(t, node, Passed(t, node.first))
  PROVE  /\ Sound(v) /\ Nodes(v) = Nodes(t) \cup {node}
         /\ Keys(v) = Keys(t) \cup {node.first}
         /\ v.mMask = t.mMask /\ v.mNumElements = t.mNumElements + 1
<1>1. PICK info, p, f :
        /\ Spot(t, node.first, info, p, f)
        /\ Put(t, PutAt(t, node, Passed(t, node.first)), node, info, p, f)
  BY PutSpot
<1>2. PutAs(t, v, node, info, p, f)
  BY <1>1 DEF PutAs
<1>3. /\ Sound(v) /\ Nodes(v) = Nodes(t) \cup {node}
      /\ v.mMask = t.mMask /\ v.mNumElements = t.mNumElements + 1
  BY <1>2, PutSound
<1>4. Keys(v) = Keys(t) \cup {node.first}
  BY <1>3 DEF Keys
<1> QED
  BY <1>3, <1>4

LEMMA LeastOf ==
  ASSUME NEW S, S \subseteq Nat, S # {}
  PROVE  Min(S) \in S
<1>1. \E x \in S : \A y \in S : x <= y
  BY LeastNatural
<1> QED
  BY <1>1 DEF Min

-----------------------------------------------------------------------------
(* The steps *)

(* The nodes in the table and those on their way into it.                   *)
Contents == Nodes(table) \cup {moving[i] : i \in DOMAIN moving}

LEMMA InitInv == Init => MapInv /\ Contents = {}
<1> SUFFICES ASSUME Init PROVE MapInv /\ Contents = {}
  OBVIOUS
<1>1. table = InitTable(0) /\ 0 \in 0..(Multipliers - 1)
  BY RobinHoodAssumption DEF Init
<1>2. /\ Sound(table) /\ Keys(table) = {} /\ Nodes(table) = {}
      /\ table.mMask = 0 /\ table.mNumElements = 0
  BY <1>1, InitTableSound
<1>3. moving \in [{} -> Pair] /\ DOMAIN moving = {}
  BY DEF Init, NoNodes
<1>4. table.mNumElements <= calcMaxNumElementsAllowed(table.mMask + 1)
  <2>1. calcMaxNumElementsAllowed(table.mMask + 1) \in Nat
    BY <1>2, TableFacts
  <2> QED
    BY <1>2, <2>1
<1>5. Incoming(table, moving)
  BY <1>2, <1>3, <1>4, IncomingNone
<1>6. ~Moving
  BY <1>3 DEF Moving
<1>7. 0 \in 0..MaxAttempts
  BY RobinHoodMapAssumption
<1>8. IteratorInv
  BY DEF Init, IteratorInv
<1>9. Contents = {}
  BY <1>2, <1>3 DEF Contents
<1> QED
  BY <1>2, <1>5, <1>6, <1>7, <1>8, <1>9 DEF MapInv, Init

(* The parts of the invariant as a state that is not idle needs them.       *)
LEMMA Busy ==
  ASSUME MapInv, pending # None
  PROVE  it = None
BY DEF MapInv, IteratorInv, Idle

(* The invariant once it is known what becomes of the table.                *)
LEMMA StepInv ==
  ASSUME Sound(table)', Incoming(table, moving)', it' = None,
         (pending \in Insertions \cup {Rehash, None})', (Idle => ~Moving)',
         (attempts \in 0..MaxAttempts)', (overflowed \in BOOLEAN)', (due \subseteq Key)'
  PROVE  MapInv'
BY DEF MapInv, IteratorInv

LEMMA NextFields ==
  ASSUME NEW t, Fields(t), NEW v, v = nextHashMultiplier(t)
  PROVE  Fields(v)
<1>1. PICK hash, keyVals, bytes, num, mask, max, inc, shift :
        t = [mHashMultiplier |-> hash, mKeyVals |-> keyVals, mInfo |-> bytes,
             mNumElements |-> num, mMask |-> mask,
             mMaxNumElementsAllowed |-> max,
             mInfoInc |-> inc, mInfoHashShift |-> shift]
  BY DEF Fields
<1>2. PICK hash2 : hash2 = (hash + 1) % Multipliers
  OBVIOUS
<1>3. t.mHashMultiplier = hash
  BY <1>1
<1>4. v = [t EXCEPT !.mHashMultiplier = hash2]
  BY <1>2, <1>3 DEF nextHashMultiplier
<1>5. v = [mHashMultiplier |-> hash2, mKeyVals |-> keyVals, mInfo |-> bytes,
           mNumElements |-> num, mMask |-> mask,
           mMaxNumElementsAllowed |-> max,
           mInfoInc |-> inc, mInfoHashShift |-> shift]
  BY <1>1, <1>4
<1>6. /\ v.mHashMultiplier = hash2 /\ v.mKeyVals = keyVals /\ v.mInfo = bytes
      /\ v.mNumElements = num /\ v.mMask = mask
      /\ v.mMaxNumElementsAllowed = max
      /\ v.mInfoInc = inc /\ v.mInfoHashShift = shift
  BY <1>5
<1>7. /\ t.mKeyVals = keyVals /\ t.mInfo = bytes
      /\ t.mNumElements = num /\ t.mMask = mask
      /\ t.mMaxNumElementsAllowed = max
      /\ t.mInfoInc = inc /\ t.mInfoHashShift = shift
  BY <1>1
<1>8. hash2 \in 0..(Multipliers - 1)
  <2>1. hash \in Nat /\ Multipliers \in Nat /\ Multipliers > 0
    BY <1>3, RobinHoodAssumption DEF Fields
  <2> QED
    BY <1>2, <2>1
<1>9. v = [mHashMultiplier |-> v.mHashMultiplier, mKeyVals |-> v.mKeyVals,
           mInfo |-> v.mInfo, mNumElements |-> v.mNumElements,
           mMask |-> v.mMask,
           mMaxNumElementsAllowed |-> v.mMaxNumElementsAllowed,
           mInfoInc |-> v.mInfoInc, mInfoHashShift |-> v.mInfoHashShift]
  BY <1>5, <1>6
<1>10. /\ t.mKeyVals \in [DOMAIN t.mKeyVals -> Pair \cup {NoNode}]
       /\ t.mInfo \in [DOMAIN t.mInfo -> 0..(InfoByte - 1)]
       /\ t.mNumElements \in Nat /\ t.mMask \in Nat
       /\ t.mMaxNumElementsAllowed \in Nat
       /\ t.mInfoInc \in Nat /\ t.mInfoHashShift \in Nat
  BY DEF Fields
<1> QED
  BY <1>6, <1>7, <1>8, <1>9, <1>10 DEF Fields

LEMMA IncreaseSize ==
  ASSUME MapInv, ~Moving, increase_size
  PROVE  Sound(table)' /\ Incoming(table, moving)' /\ Contents' = Contents
<1>1. /\ Sound(table) /\ Incoming(table, moving) /\ DOMAIN moving = {}
  BY DEF MapInv, Moving
<1>2. PICK n, allowed : n = table.mMask + 1 /\ allowed = calcMaxNumElementsAllowed(n)
  OBVIOUS
<1>3. /\ Fields(table) /\ table.mNumElements \in Nat /\ table.mMask \in Nat
      /\ n \in Nat /\ allowed \in Nat /\ n >= 1
  BY <1>1, <1>2, TableFacts
<1>4. table.mNumElements <= allowed
  <2>1. table.mNumElements + Cardinality(DOMAIN moving) <= allowed
    BY <1>1, <1>2 DEF Incoming
  <2>2. Cardinality(DOMAIN moving) = 0
    BY <1>1, FS_EmptySet
  <2> QED
    BY <1>3, <2>1, <2>2
<1>5. moving \in [{} -> Pair]
  BY <1>1 DEF Incoming
<1>6. CASE table.mMask = 0
  <2>1. table' = initData(table, InitialNumElements) /\ moving' = moving
    BY <1>6 DEF increase_size
  <2>2. PICK v : v = table'
    OBVIOUS
  <2>3. /\ Sound(v) /\ Nodes(v) = {} /\ v.mNumElements = 0
    BY <1>3, <2>1, <2>2, InitialNumberLarge, FreshSound
  <2>4. v.mNumElements <= calcMaxNumElementsAllowed(v.mMask + 1)
    <3>1. calcMaxNumElementsAllowed(v.mMask + 1) \in Nat
      BY <2>3, TableFacts
    <3> QED
      BY <2>3, <3>1
  <2>5. Incoming(v, moving)
    BY <1>5, <2>3, <2>4, IncomingNone
  <2>6. Nodes(table) = {}
    BY <1>1, <1>6, NoneUsed, TableFacts
  <2>7. Sound(table)' /\ Incoming(table, moving)'
    BY <2>1, <2>2, <2>3, <2>5
  <2>8. Contents' = Contents
    BY <2>1, <2>2, <2>3, <2>6 DEF Contents
  <2> QED
    BY <2>7, <2>8
<1>7. CASE table.mMask # 0 /\ table.mNumElements < allowed /\ CanIncreaseInfo(table)
  <2>1. table' = IncreaseInfo(table) /\ moving' = moving
    BY <1>2, <1>7 DEF increase_size
  <2>2. PICK v : v = table'
    OBVIOUS
  <2>3. /\ Sound(v) /\ Used(v) = Used(table) /\ v.mKeyVals = table.mKeyVals
        /\ v.mMask = table.mMask /\ v.mNumElements = table.mNumElements
    BY <1>1, <1>7, <2>1, <2>2, IncreaseSound
  <2>4. Nodes(v) = Nodes(table) /\ Keys(v) = Keys(table)
    BY <2>3 DEF Nodes, Keys
  <2>5. Incoming(v, moving)
    BY <1>1, <2>3, <2>4, IncomingSame
  <2>6. Sound(table)' /\ Incoming(table, moving)'
    BY <2>1, <2>2, <2>3, <2>5
  <2>7. Contents' = Contents
    BY <2>1, <2>2, <2>4 DEF Contents
  <2> QED
    BY <2>6, <2>7
<1>8. CASE table.mMask # 0 /\ ~(table.mNumElements < allowed /\ CanIncreaseInfo(table))
  <2>1. PICK t \in {table, nextHashMultiplier(table)}, size \in {n, n * 2} :
          /\ rehashPowerOfTwo(t, size)
          /\ table.mNumElements <= calcMaxNumElementsAllowed(size)
    <3>1. CASE table.mNumElements * 2 < allowed
      <4>1. rehashPowerOfTwo(nextHashMultiplier(table), n)
        BY <1>2, <1>8, <3>1 DEF increase_size
      <4> QED
        BY <1>2, <1>4, <4>1
    <3>2. CASE ~(table.mNumElements * 2 < allowed)
      <4>1. rehashPowerOfTwo(table, n * 2)
        BY <1>2, <1>8, <3>2 DEF increase_size
      <4>2. PICK m : m = n * 2
        OBVIOUS
      <4>3. m \in Nat /\ n <= m
        BY <1>3, <4>2
      <4>4. allowed <= calcMaxNumElementsAllowed(m) /\ calcMaxNumElementsAllowed(m) \in Nat
        BY <1>2, <1>3, <4>3, LoadGrows, Load
      <4>5. table.mNumElements <= calcMaxNumElementsAllowed(m)
        BY <1>3, <1>4, <4>4
      <4> QED
        BY <4>1, <4>2, <4>5
    <3> QED
      BY <3>1, <3>2
  <2>2. PICK v, m : v = table' /\ m = moving'
    OBVIOUS
  <2>3. v = initData(t, size) /\ m = [i \in Used(table) |-> table.mKeyVals[i]]
    BY <2>1, <2>2 DEF rehashPowerOfTwo, ToMove
  <2>4. Fields(t)
    BY <1>3, <2>1, NextFields
  <2>5. size \in Nat /\ size >= 2
    <3>1. n >= 2
      BY <1>2, <1>3, <1>8
    <3>2. n * 2 \in Nat /\ n * 2 >= 2
      BY <1>3, <3>1
    <3> QED
      BY <1>3, <2>1, <3>1, <3>2
  <2>6. /\ Sound(v) /\ Nodes(v) = {} /\ Keys(v) = {} /\ v.mNumElements = 0
        /\ v.mMask + 1 = size
    BY <2>3, <2>4, <2>5, FreshSound
  <2>7. table.mNumElements <= calcMaxNumElementsAllowed(v.mMask + 1)
    BY <2>1, <2>6
  <2>8. Incoming(v, m) /\ {m[i] : i \in DOMAIN m} = Nodes(table)
    BY <1>1, <2>3, <2>6, <2>7, IncomingAll
  <2>9. Sound(table)' /\ Incoming(table, moving)'
    BY <2>2, <2>6, <2>8
  <2>10. Contents' = Contents
    BY <1>1, <2>2, <2>6, <2>8 DEF Contents
  <2> QED
    BY <2>9, <2>10
<1> QED
  BY <1>6, <1>7, <1>8

LEMMA CallStep ==
  ASSUME MapInv, Call
  PROVE  MapInv' /\ Contents' = Contents
<1>1. table' = table /\ moving' = moving /\ it' = None /\ due' = {}
      /\ pending' \in Insertions /\ attempts' = 0 /\ overflowed' = FALSE /\ pending = None
  BY DEF Call, Invalidate, Idle
<1>2. Sound(table)' /\ Incoming(table, moving)'
  BY <1>1 DEF MapInv
<1>3. pending' # None /\ 0 \in 0..MaxAttempts
  BY <1>1, RobinHoodMapAssumption
<1>4. MapInv'
  BY <1>1, <1>2, <1>3, StepInv DEF Idle
<1> QED
  BY <1>1, <1>4 DEF Contents

(* What Trying means for the other variables.                               *)
LEMMA TryingIs ==
  ASSUME MapInv, Trying
  PROVE  /\ Sound(table) /\ Incoming(table, moving) /\ DOMAIN moving = {} /\ it = None
         /\ pending \in Insertions /\ pending # None
         /\ pending.op \in {"emplace", "insert_or_assign"}
         /\ pending.node \in Pair /\ pending.node.first \in Key
         /\ attempts \in 0..MaxAttempts /\ MaxAttempts \in Nat /\ overflowed \in BOOLEAN
         /\ due \subseteq Key
         /\ Contents = Nodes(table)
<1>1. pending \in Insertions /\ DOMAIN moving = {}
  BY DEF Trying, Moving
<1>2. pending # None /\ MaxAttempts \in Nat
  BY <1>1, RobinHoodMapAssumption
<1>3. pending \in [op : {"emplace", "insert_or_assign"}, node : Pair]
  BY <1>1, RobinHoodMapAssumption
<1>4. pending.op \in {"emplace", "insert_or_assign"} /\ pending.node \in Pair
  BY <1>3
<1>5. pending.node.first \in Key
  BY <1>4 DEF Pair
<1>6. it = None
  BY <1>2, Busy
<1>7. Contents = Nodes(table)
  BY <1>1 DEF Contents
<1> QED
  BY <1>1, <1>2, <1>4, <1>5, <1>6, <1>7 DEF MapInv

(* The contents with the node that is pending.                              *)
Inserted == {c \in Contents : c.first # pending.node.first} \cup {pending.node}

LEMMA KeyFoundStep ==
  ASSUME MapInv, KeyFound
  PROVE  /\ MapInv'
         /\ \/ /\ pending.op = "emplace" /\ Contents' = Contents
               /\ \E c \in Contents : c.first = pending.node.first
            \/ pending.op # "emplace" /\ Contents' = Inserted
<1>1. Trying
  BY DEF KeyFound
<1>2. /\ Sound(table) /\ Incoming(table, moving) /\ DOMAIN moving = {} /\ it = None
      /\ pending.op \in {"emplace", "insert_or_assign"}
      /\ pending.node \in Pair /\ pending.node.first \in Key
      /\ attempts \in 0..MaxAttempts /\ overflowed \in BOOLEAN
      /\ due \subseteq Key /\ Contents = Nodes(table)
  BY <1>1, TryingIs
<1>3. PICK node : node = pending.node
  OBVIOUS
<1>4. PICK d \in Candidates(table, node.first) : d = CHOOSE e \in Candidates(table, node.first) : TRUE
  BY <1>3 DEF KeyFound
<1>5. PICK i : i = Home(table, node.first) + d
  OBVIOUS
<1>6. i \in Used(table) /\ KeyAt(table, i) = node.first
  BY <1>2, <1>3, <1>4, <1>5, CandidatesRight DEF Sound
<1>7. /\ table' = IF pending.op = "emplace" THEN table
                  ELSE [table EXCEPT !.mKeyVals[i] = node]
      /\ pending' = None /\ attempts' = attempts /\ moving' = moving /\ it' = it
      /\ due' = due /\ overflowed' = overflowed
  BY <1>3, <1>4, <1>5 DEF KeyFound, Return
<1>8. PICK t, v : t = table /\ v = table'
  OBVIOUS
<1>a. ASSUME pending.op # "emplace"
      PROVE  /\ Sound(v) /\ v.mMask = t.mMask /\ v.mNumElements = t.mNumElements
             /\ Keys(v) = Keys(t) /\ Used(v) = Used(t)
             /\ v.mKeyVals = [t.mKeyVals EXCEPT ![i] = node]
  <2>1. v = Assigned(t, i, node)
    BY <1>7, <1>8, <1>a DEF Assigned
  <2>2. Sound(t) /\ i \in Used(t) /\ node \in Pair /\ node.first = KeyAt(t, i)
    BY <1>2, <1>3, <1>6, <1>8
  <2> QED
    BY <2>1, <2>2, AssignSound
<1>9. /\ Sound(v) /\ v.mMask = table.mMask /\ v.mNumElements = table.mNumElements
      /\ Keys(v) = Keys(table)
  <2>1. CASE pending.op = "emplace"
    BY <1>2, <1>7, <1>8, <2>1
  <2>2. CASE pending.op # "emplace"
    BY <1>8, <1>a, <2>2
  <2> QED
    BY <2>1, <2>2
<1>10. Incoming(v, moving)
  BY <1>2, <1>9, IncomingSame
<1>11. Sound(table)' /\ Incoming(table, moving)' /\ (Idle => ~Moving)'
  BY <1>2, <1>7, <1>8, <1>9, <1>10 DEF Moving
<1>12. MapInv'
  BY <1>2, <1>7, <1>11, StepInv
<1>13. CASE pending.op = "emplace"
  <2>1. table.mKeyVals[i] \in Contents /\ table.mKeyVals[i].first = pending.node.first
    BY <1>2, <1>3, <1>6 DEF Nodes, KeyAt
  <2>2. Contents' = Contents
    BY <1>7, <1>13 DEF Contents
  <2> QED
    BY <1>12, <1>13, <2>1, <2>2
<1>14. CASE pending.op # "emplace"
  <2>1. Contents' = Nodes(v)
    BY <1>2, <1>7, <1>8 DEF Contents
  <2>2. Used(v) = Used(table) /\ v.mKeyVals = [table.mKeyVals EXCEPT ![i] = node]
    BY <1>8, <1>a, <1>14
  <2>3. ASSUME NEW j \in Used(table)
        PROVE  /\ v.mKeyVals[j] = IF j = i THEN node ELSE table.mKeyVals[j]
               /\ j # i => table.mKeyVals[j].first # node.first
    <3>1. j \in DOMAIN table.mKeyVals
      <4>1. Shaped(table)
        BY <1>2 DEF Sound
      <4>2. table.mMask # 0 /\ j \in 0..(Slots(table) - 1)
        BY <4>1, Geometry
      <4>3. DOMAIN table.mKeyVals = 0..(Slots(table) - 1)
        BY <4>1, <4>2 DEF Shaped, Sized
      <4> QED
        BY <4>2, <4>3
    <3>2. j # i => KeyAt(table, j) # KeyAt(table, i)
      BY <1>2, <1>6 DEF Sound, Distinct
    <3> QED
      BY <1>6, <2>2, <3>1, <3>2 DEF KeyAt
  <2>4. Nodes(v) = {c \in Nodes(table) : c.first # node.first} \cup {node}
    <3>1. Nodes(v) = {v.mKeyVals[j] : j \in Used(table)}
      BY <2>2 DEF Nodes
    <3>2. Nodes(table) = {table.mKeyVals[j] : j \in Used(table)}
      BY DEF Nodes
    <3>3. \A x \in Nodes(v) : (x \in Nodes(table) /\ x.first # node.first) \/ x = node
      BY <2>3, <3>1, <3>2
    <3>4. node \in Nodes(v)
      BY <1>6, <2>3, <3>1
    <3>5. \A x \in Nodes(table) : x.first # node.first => x \in Nodes(v)
      <4>1. table.mKeyVals[i].first = node.first
        BY <1>6 DEF KeyAt
      <4> QED
        BY <2>3, <3>1, <3>2, <4>1
    <3> QED
      BY <3>3, <3>4, <3>5
  <2>5. Contents' = Inserted
    BY <1>2, <1>3, <2>1, <2>4 DEF Inserted
  <2> QED
    BY <1>12, <1>14, <2>5
<1> QED
  BY <1>13, <1>14

LEMMA GrowStep ==
  ASSUME MapInv, Grow
  PROVE  MapInv' /\ Contents' = Contents
<1>1. Trying /\ attempts < MaxAttempts /\ ~Moving
  BY DEF Grow, NewKey, Trying
<1>2. /\ it = None /\ attempts \in 0..MaxAttempts /\ MaxAttempts \in Nat
      /\ overflowed \in BOOLEAN /\ due \subseteq Key
      /\ pending \in Insertions /\ pending # None
  BY <1>1, TryingIs
<1>3. /\ increase_size /\ attempts' = attempts + 1 /\ pending' = pending
      /\ overflowed' = overflowed /\ it' = it /\ due' = due
  BY DEF Grow
<1>4. Sound(table)' /\ Incoming(table, moving)' /\ Contents' = Contents
  BY <1>1, <1>3, IncreaseSize
<1>5. attempts + 1 \in 0..MaxAttempts
  BY <1>1, <1>2
<1>6. MapInv'
  BY <1>2, <1>3, <1>4, <1>5, StepInv DEF Idle
<1> QED
  BY <1>4, <1>6

LEMMA PlaceStep ==
  ASSUME MapInv, Place
  PROVE  /\ MapInv' /\ Contents' = Inserted
         /\ \A c \in Contents : c.first # pending.node.first
<1>1. Trying /\ Candidates(table, pending.node.first) = {}
  BY DEF Place, NewKey
<1>2. /\ Sound(table) /\ Incoming(table, moving) /\ DOMAIN moving = {} /\ it = None
      /\ pending.node \in Pair /\ pending.node.first \in Key
      /\ attempts \in 0..MaxAttempts /\ overflowed \in BOOLEAN
      /\ due \subseteq Key /\ Contents = Nodes(table)
  BY <1>1, TryingIs
<1>3. PICK node : node = pending.node
  OBVIOUS
<1>4. /\ table.mNumElements < table.mMaxNumElementsAllowed
      /\ table' = PutAt(table, node, Differs(table, node.first))
      /\ pending' = None /\ attempts' = attempts /\ moving' = moving /\ it' = it
      /\ due' = due /\ overflowed' = overflowed
  BY <1>3 DEF Place, Return
<1>5. /\ table.mNumElements \in Nat /\ table.mMask \in Nat
      /\ table.mMaxNumElementsAllowed \in {0, calcMaxNumElementsAllowed(table.mMask + 1)}
      /\ table.mMaxNumElementsAllowed # 0 => Room(table)
  BY <1>2, TableFacts DEF Sound, Allowed
<1>6. /\ Room(table) /\ table.mNumElements < calcMaxNumElementsAllowed(table.mMask + 1)
  BY <1>4, <1>5
<1>7. table.mMask # 0
  <2>1. table.mMask + 1 = 1 => calcMaxNumElementsAllowed(table.mMask + 1) = 0
    BY Load
  <2> QED
    BY <1>5, <1>6, <2>1
<1>8. Differs(table, node.first) = Passed(table, node.first)
  BY <1>2, <1>3, DiffersIs DEF Sound
<1>9. node.first \notin Keys(table)
  BY <1>1, <1>2, <1>3, CandidatesRight DEF Sound
<1>10. PICK v : v = table'
  OBVIOUS
<1>11. /\ Sound(v) /\ Nodes(v) = Nodes(table) \cup {node}
       /\ v.mMask = table.mMask /\ v.mNumElements = table.mNumElements + 1
  BY <1>2, <1>3, <1>4, <1>6, <1>7, <1>8, <1>9, <1>10, PutNew
<1>12. v.mNumElements <= calcMaxNumElementsAllowed(v.mMask + 1)
  <2>1. calcMaxNumElementsAllowed(table.mMask + 1) \in Nat
    BY <1>2, TableFacts
  <2> QED
    BY <1>5, <1>6, <1>11, <2>1
<1>13. moving \in [{} -> Pair]
  BY <1>2 DEF Incoming
<1>14. Incoming(v, moving)
  BY <1>11, <1>12, <1>13, IncomingNone
<1>15. Sound(table)' /\ Incoming(table, moving)' /\ (Idle => ~Moving)'
  BY <1>2, <1>4, <1>10, <1>11, <1>14 DEF Moving
<1>16. MapInv'
  BY <1>2, <1>4, <1>15, StepInv
<1>17. Contents' = Nodes(v)
  BY <1>2, <1>4, <1>10 DEF Contents
<1>18. \A c \in Nodes(table) : c.first # node.first
  BY <1>9 DEF Keys
<1>19. Contents' = Inserted
  BY <1>2, <1>3, <1>11, <1>17, <1>18 DEF Inserted
<1> QED
  BY <1>2, <1>3, <1>16, <1>18, <1>19

LEMMA GiveUpStep ==
  ASSUME MapInv, GiveUp
  PROVE  MapInv' /\ Contents' = Contents
<1>1. Trying /\ table' = table /\ moving' = moving /\ pending' = None /\ attempts' = attempts
      /\ it' = it /\ due' = due /\ overflowed' = TRUE
  BY DEF GiveUp, Return
<1>2. /\ it = None /\ attempts \in 0..MaxAttempts /\ due \subseteq Key /\ DOMAIN moving = {}
  BY <1>1, TryingIs
<1>3. Sound(table)' /\ Incoming(table, moving)'
  BY <1>1 DEF MapInv
<1>4. (Idle => ~Moving)'
  BY <1>1, <1>2 DEF Moving
<1>5. MapInv'
  BY <1>1, <1>2, <1>3, <1>4, StepInv
<1> QED
  BY <1>1, <1>5 DEF Contents

LEMMA InsertMoveStep ==
  ASSUME MapInv, insert_move
  PROVE  MapInv' /\ Contents' = Contents /\ pending # None
<1>1. /\ Sound(table) /\ Incoming(table, moving) /\ DOMAIN moving # {} /\ pending # None
      /\ pending \in Insertions \cup {Rehash, None}
      /\ attempts \in 0..MaxAttempts /\ overflowed \in BOOLEAN /\ due \subseteq Key
  BY DEF MapInv, insert_move, Moving, Idle
<1>2. it = None
  BY <1>1, Busy
<1>3. PICK k, node : k = Min(DOMAIN moving) /\ node = moving[k]
  OBVIOUS
<1>4. PICK t : t = IF table.mMaxNumElementsAllowed = 0 THEN IncreaseInfo(table) ELSE table
  OBVIOUS
<1>5. /\ table.mMaxNumElementsAllowed # 0 \/ CanIncreaseInfo(table)
      /\ table' = PutAt(t, node, Passed(t, node.first))
      /\ moving' = Restrict(moving, DOMAIN moving \ {k})
      /\ pending' = pending /\ attempts' = attempts /\ overflowed' = overflowed
      /\ it' = it /\ due' = due
  BY <1>3, <1>4 DEF insert_move
<1>6. /\ DOMAIN moving \subseteq Nat /\ IsFiniteSet(DOMAIN moving)
      /\ moving \in [DOMAIN moving -> Pair]
      /\ table.mNumElements + Cardinality(DOMAIN moving)
           <= calcMaxNumElementsAllowed(table.mMask + 1)
  BY <1>1 DEF Incoming
<1>7. k \in DOMAIN moving /\ node \in Pair
  BY <1>1, <1>3, <1>6, LeastOf
<1>8. table.mNumElements < calcMaxNumElementsAllowed(table.mMask + 1)
  <2>1. Cardinality(DOMAIN moving) \in Nat /\ Cardinality(DOMAIN moving) # 0
    BY <1>1, <1>6, FS_CardinalityType, FS_EmptySet
  <2>2. table.mNumElements \in Nat /\ calcMaxNumElementsAllowed(table.mMask + 1) \in Nat
    BY <1>1, TableFacts
  <2> QED
    BY <1>6, <2>1, <2>2
<1>9. table.mMask # 0
  <2>1. table.mMask + 1 = 1 => calcMaxNumElementsAllowed(table.mMask + 1) = 0
    BY Load
  <2>2. table.mNumElements \in Nat
    BY <1>1, TableFacts
  <2> QED
    BY <1>8, <2>1, <2>2
<1>10. /\ Sound(t) /\ Room(t) /\ Nodes(t) = Nodes(table) /\ Keys(t) = Keys(table)
       /\ t.mMask = table.mMask /\ t.mNumElements = table.mNumElements
  <2>1. CASE table.mMaxNumElementsAllowed = 0
    <3>1. /\ Sound(t) /\ Room(t) /\ Used(t) = Used(table) /\ t.mKeyVals = table.mKeyVals
          /\ t.mMask = table.mMask /\ t.mNumElements = table.mNumElements
      BY <1>1, <1>4, <1>5, <1>9, <2>1, IncreaseSound
    <3>2. Nodes(t) = Nodes(table) /\ Keys(t) = Keys(table)
      BY <3>1 DEF Nodes, Keys
    <3> QED
      BY <3>1, <3>2
  <2>2. CASE table.mMaxNumElementsAllowed # 0
    BY <1>1, <1>4, <2>2 DEF Sound, Allowed
  <2> QED
    BY <2>1, <2>2
<1>11. Incoming(t, moving)
  BY <1>1, <1>10, IncomingSame
<1>12. node.first \notin Keys(t)
  BY <1>3, <1>7, <1>11 DEF Incoming
<1>13. PICK v, m, n : v = table' /\ m = moving /\ n = moving'
  OBVIOUS
<1>14. /\ Sound(v) /\ Nodes(v) = Nodes(t) \cup {node}
       /\ Keys(v) = Keys(t) \cup {node.first}
       /\ v.mMask = t.mMask /\ v.mNumElements = t.mNumElements + 1
  <2>1. v = PutAt(t, node, Passed(t, node.first))
    BY <1>5, <1>13
  <2>2. t.mMask # 0 /\ t.mNumElements < calcMaxNumElementsAllowed(t.mMask + 1)
    BY <1>8, <1>9, <1>10
  <2>3. Sound(t) /\ Room(t) /\ node \in Pair /\ node.first \notin Keys(t)
    BY <1>7, <1>10, <1>12
  <2> QED
    BY <2>1, <2>2, <2>3, PutNew
<1>15. Incoming(v, n) /\ Range(m) = Range(n) \cup {m[k]}
  <2>1. Sound(t) /\ Incoming(t, m) /\ k \in DOMAIN m
    BY <1>7, <1>10, <1>11, <1>13
  <2>2. n = Restrict(m, DOMAIN m \ {k})
    BY <1>5, <1>13, <1>3
  <2>3. Keys(v) = Keys(t) \cup {m[k].first}
    BY <1>3, <1>13, <1>14
  <2>4. v.mMask = t.mMask /\ v.mNumElements = t.mNumElements + 1
    BY <1>14
  <2> QED
    BY <2>1, <2>2, <2>3, <2>4, IncomingNext
<1>16. Sound(table)' /\ Incoming(table, moving)' /\ (Idle => ~Moving)'
  <2>1. Sound(table)' /\ Incoming(table, moving)'
    BY <1>13, <1>14, <1>15
  <2>2. pending' # None
    BY <1>1, <1>5
  <2> QED
    BY <2>1, <2>2 DEF Idle
<1>17. MapInv'
  BY <1>1, <1>2, <1>5, <1>16, StepInv
<1>18. Contents' = Nodes(v) \cup Range(n) /\ Contents = Nodes(t) \cup Range(m)
  BY <1>10, <1>13 DEF Contents, Range
<1>19. Contents' = Contents
  BY <1>3, <1>13, <1>14, <1>15, <1>18
<1> QED
  BY <1>1, <1>17, <1>19

LEMMA InsertMoveThrowsStep ==
  ASSUME MapInv, insert_move_throws
  PROVE  MapInv' /\ Contents' \subseteq Contents /\ pending # None
<1>1. /\ Sound(table) /\ Incoming(table, moving) /\ DOMAIN moving # {} /\ pending # None
      /\ attempts \in 0..MaxAttempts /\ due \subseteq Key
  BY DEF MapInv, insert_move_throws, Moving, Idle
<1>2. it = None
  BY <1>1, Busy
<1>3. /\ table' = table /\ moving' = NoNodes /\ pending' = None /\ overflowed' = TRUE
      /\ attempts' = attempts /\ it' = it /\ due' = due
  BY DEF insert_move_throws
<1>4. moving' \in [{} -> Pair] /\ DOMAIN moving' = {}
  BY <1>3 DEF NoNodes
<1>5. PICK n : n = moving'
  OBVIOUS
<1>6. table.mNumElements <= calcMaxNumElementsAllowed(table.mMask + 1)
  <2>1. /\ table.mNumElements + Cardinality(DOMAIN moving)
             <= calcMaxNumElementsAllowed(table.mMask + 1)
        /\ IsFiniteSet(DOMAIN moving)
    BY <1>1 DEF Incoming
  <2>2. Cardinality(DOMAIN moving) \in Nat
    BY <2>1, FS_CardinalityType
  <2>3. table.mNumElements \in Nat /\ calcMaxNumElementsAllowed(table.mMask + 1) \in Nat
    BY <1>1, TableFacts
  <2> QED
    BY <2>1, <2>2, <2>3
<1>7. Incoming(table, n)
  BY <1>1, <1>4, <1>5, <1>6, IncomingNone
<1>8. Sound(table)' /\ Incoming(table, moving)' /\ (Idle => ~Moving)'
  BY <1>1, <1>3, <1>4, <1>5, <1>7 DEF Moving
<1>9. MapInv'
  BY <1>1, <1>2, <1>3, <1>8, StepInv
<1>10. Contents' \subseteq Contents
  BY <1>3, <1>4 DEF Contents
<1> QED
  BY <1>1, <1>9, <1>10

LEMMA ResizeEndStep ==
  ASSUME MapInv, ResizeEnd
  PROVE  MapInv' /\ Contents' = Contents
<1>1. /\ pending = Rehash /\ ~Moving /\ table' = table /\ moving' = moving /\ pending' = None
      /\ attempts' = attempts /\ it' = it /\ due' = due /\ overflowed' = overflowed
  BY DEF ResizeEnd, Return
<1>2. pending # None
  BY <1>1, RobinHoodMapAssumption
<1>3. it = None
  BY <1>2, Busy
<1>4. Sound(table)' /\ Incoming(table, moving)' /\ (Idle => ~Moving)'
      /\ attempts \in 0..MaxAttempts /\ due \subseteq Key /\ overflowed \in BOOLEAN
  BY <1>1 DEF MapInv, Moving
<1>5. MapInv'
  BY <1>1, <1>3, <1>4, StepInv
<1> QED
  BY <1>1, <1>5 DEF Contents

(* Between calls.                                                           *)
LEMMA IdleIs ==
  ASSUME MapInv, Idle
  PROVE  /\ Sound(table) /\ DOMAIN moving = {} /\ moving \in [{} -> Pair]
         /\ table.mNumElements <= calcMaxNumElementsAllowed(table.mMask + 1)
         /\ Contents = Nodes(table) /\ Fields(table) /\ Shaped(table)
         /\ attempts \in 0..MaxAttempts /\ due \subseteq Key /\ overflowed \in BOOLEAN
         /\ pending = None
<1>1. Sound(table) /\ Incoming(table, moving) /\ DOMAIN moving = {} /\ pending = None
  BY DEF MapInv, Moving, Idle
<1>2. moving \in [{} -> Pair]
  BY <1>1 DEF Incoming
<1>3. table.mNumElements + Cardinality(DOMAIN moving)
        <= calcMaxNumElementsAllowed(table.mMask + 1)
  BY <1>1 DEF Incoming
<1>4. Cardinality(DOMAIN moving) = 0
  BY <1>1, FS_EmptySet
<1>5. table.mNumElements \in Nat /\ Fields(table) /\ Shaped(table)
  BY <1>1, TableFacts
<1>6. table.mNumElements <= calcMaxNumElementsAllowed(table.mMask + 1)
  BY <1>3, <1>4, <1>5
<1>7. Contents = Nodes(table)
  BY <1>1 DEF Contents
<1> QED
  BY <1>1, <1>2, <1>5, <1>6, <1>7 DEF MapInv

(* A call that returns at once keeps the invariant if it leaves a sound     *)
(* table with room, and if an iterator, where there is one, is right.       *)
LEMMA AtOnceInv ==
  ASSUME MapInv, Idle, NEW v, v = table', Sound(v),
         v.mNumElements <= calcMaxNumElementsAllowed(v.mMask + 1),
         moving' = moving, pending' = pending, attempts' = attempts,
         overflowed' = FALSE, due' \subseteq Key,
         it' # None => (it' = End(v) \/ it' \in Used(v)) /\ due' = KeysFrom(v, it')
  PROVE  MapInv' /\ Contents' = Nodes(v)
<1>1. /\ DOMAIN moving = {} /\ moving \in [{} -> Pair]
      /\ attempts \in 0..MaxAttempts /\ pending = None
  BY IdleIs
<1>2. PICK m : m = moving
  OBVIOUS
<1>3. Incoming(v, m)
  BY <1>1, <1>2, IncomingNone
<1>4. Sound(table)' /\ Incoming(table, moving)'
  BY <1>2, <1>3
<1>5. IteratorInv'
  BY <1>1 DEF IteratorInv, Idle
<1>6. (pending \in Insertions \cup {Rehash, None})' /\ (Idle => ~Moving)'
      /\ (attempts \in 0..MaxAttempts)' /\ (overflowed \in BOOLEAN)' /\ (due \subseteq Key)'
  BY <1>1 DEF Moving
<1>7. MapInv'
  BY <1>4, <1>5, <1>6 DEF MapInv
<1>8. Contents' = Nodes(v)
  BY <1>1 DEF Contents
<1> QED
  BY <1>7, <1>8

LEMMA KeysFromAre ==
  ASSUME NEW t, Sound(t), NEW i
  PROVE  KeysFrom(t, i) \subseteq Key /\ Keys(t) \subseteq Key
<1>1. Shaped(t) /\ Honest(t) /\ Keys(t) = {KeyAt(t, j) : j \in Used(t)}
  BY TableFacts DEF Sound
<1>2. \A j \in Used(t) : KeyAt(t, j) \in Key
  BY <1>1, UsedIs
<1> QED
  BY <1>1, <1>2 DEF KeysFrom

LEMMA ResizeStep ==
  ASSUME MapInv, Idle, NEW newSize \in Nat, newSize >= 2,
         table.mNumElements <= calcMaxNumElementsAllowed(newSize), Resize(newSize)
  PROVE  MapInv' /\ Contents' = Contents
<1>1. /\ Sound(table) /\ Fields(table) /\ Contents = Nodes(table)
      /\ attempts \in 0..MaxAttempts
  BY IdleIs
<1>2. /\ rehashPowerOfTwo(table, newSize) /\ pending' = Rehash /\ it' = None /\ due' = {}
      /\ overflowed' = FALSE /\ attempts' = attempts
  BY DEF Resize, Invalidate
<1>3. PICK t, v, m : t = table /\ v = table' /\ m = moving'
  OBVIOUS
<1>4. v = initData(t, newSize) /\ m = [i \in Used(t) |-> t.mKeyVals[i]]
  BY <1>2, <1>3 DEF rehashPowerOfTwo, ToMove
<1>5. Fields(t)
  BY <1>1, <1>3
<1>6. /\ Sound(v) /\ Nodes(v) = {} /\ Keys(v) = {} /\ v.mNumElements = 0
      /\ v.mMask + 1 = newSize
  BY <1>4, <1>5, FreshSound
<1>7. Sound(t) /\ t.mNumElements <= calcMaxNumElementsAllowed(v.mMask + 1)
  BY <1>1, <1>3, <1>6
<1>8. Incoming(v, m) /\ {m[i] : i \in DOMAIN m} = Nodes(t)
  BY <1>4, <1>6, <1>7, IncomingAll
<1>9. Sound(table)' /\ Incoming(table, moving)'
  BY <1>3, <1>6, <1>8
<1>10. Rehash # None
  BY RobinHoodMapAssumption
<1>11. MapInv'
  BY <1>1, <1>2, <1>9, <1>10, StepInv DEF Idle
<1>12. Contents' = Contents
  BY <1>1, <1>3, <1>6, <1>8 DEF Contents
<1> QED
  BY <1>11, <1>12

LEMMA LargerOf ==
  ASSUME NEW a \in Nat, NEW b \in Nat
  PROVE  Max({a, b}) \in Nat /\ Max({a, b}) >= b
<1>1. \E x \in {a, b} : \A y \in {a, b} : y <= x
  <2>1. CASE a <= b
    BY <2>1
  <2>2. CASE b <= a
    BY <2>2
  <2> QED
    BY <2>1, <2>2
<1>2. Max({a, b}) = CHOOSE x \in {a, b} : \A y \in {a, b} : x >= y
  BY DEF Max
<1>3. \E x \in {a, b} : \A y \in {a, b} : x >= y
  BY <1>1
<1> QED
  BY <1>2, <1>3

LEMMA ReserveStep ==
  ASSUME MapInv, Reserve \/ compact
  PROVE  MapInv' /\ Contents' = Contents
<1>1. Idle
  BY DEF Reserve, compact
<1>2. table.mNumElements \in Nat
  BY <1>1, IdleIs, TableFacts
<1>3. PICK n \in Nat : n >= table.mNumElements /\ Resize(SizeFor(n))
  <2>1. CASE Reserve
    <3>1. PICK c \in Sizes : Resize(SizeFor(Max({c, table.mNumElements})))
      BY <2>1 DEF Reserve
    <3>2. c \in Nat
      BY RobinHoodMapAssumption
    <3>3. PICK k : k = table.mNumElements
      OBVIOUS
    <3>4. Max({c, k}) \in Nat /\ Max({c, k}) >= k
      BY <1>2, <3>2, <3>3, LargerOf
    <3> QED
      BY <3>1, <3>3, <3>4
  <2>2. CASE compact
    BY <1>2, <2>2 DEF compact
  <2> QED
    BY <2>1, <2>2
<1>4. PICK s : s = SizeFor(n)
  OBVIOUS
<1>5. s \in Nat /\ s >= 2 /\ calcMaxNumElementsAllowed(s) >= n
  BY <1>4, SizeForIs
<1>6. calcMaxNumElementsAllowed(s) \in Nat
  BY <1>5, Load
<1>7. table.mNumElements <= calcMaxNumElementsAllowed(s) /\ Resize(s)
  BY <1>2, <1>3, <1>4, <1>5, <1>6
<1> QED
  BY <1>1, <1>5, <1>7, ResizeStep

LEMMA EraseStep ==
  ASSUME MapInv, Erase
  PROVE  /\ MapInv'
         /\ \E key \in Key : Contents' = {c \in Contents : c.first # key}
                             /\ \E c \in Contents : c.first = key
<1>1. Idle /\ it' = None /\ due' = {} /\ overflowed' = FALSE
      /\ moving' = moving /\ pending' = pending /\ attempts' = attempts
  BY DEF Erase, Invalidate
<1>2. /\ Sound(table) /\ Shaped(table) /\ Contents = Nodes(table)
      /\ table.mNumElements <= calcMaxNumElementsAllowed(table.mMask + 1)
  BY <1>1, IdleIs
<1>3. PICK key \in Key : /\ EraseIdx(table, key) # End(table)
                         /\ table' = Shrunk(table, EraseIdx(table, key))
  BY DEF Erase
<1>4. PICK t, v, idx : t = table /\ v = table' /\ idx = EraseIdx(t, key)
  OBVIOUS
<1>5. Sound(t) /\ Shaped(t) /\ Honest(t) /\ Ordered(t) /\ Distinct(t)
  BY <1>2, <1>4 DEF Sound
<1>6. Returns(t, key, idx)
  BY <1>4, <1>5, FindsIt DEF EraseIdx
<1>7. idx \in Used(t) /\ KeyAt(t, idx) = key
  BY <1>3, <1>4, <1>6 DEF Returns
<1>8. v = Shrunk(t, idx)
  BY <1>3, <1>4
<1>9. /\ Sound(v) /\ v.mMask = t.mMask /\ v.mNumElements = t.mNumElements - 1
      /\ Nodes(v) = Nodes(t) \ {t.mKeyVals[idx]}
  BY <1>5, <1>7, <1>8, ShrunkSound
<1>10. v.mNumElements <= calcMaxNumElementsAllowed(v.mMask + 1)
  <2>1. t.mNumElements \in Nat /\ calcMaxNumElementsAllowed(t.mMask + 1) \in Nat
    BY <1>5, TableFacts
  <2>2. t.mNumElements <= calcMaxNumElementsAllowed(t.mMask + 1)
    BY <1>2, <1>4
  <2> QED
    BY <1>9, <2>1, <2>2
<1>11. MapInv' /\ Contents' = Nodes(v)
  BY <1>1, <1>4, <1>9, <1>10, AtOnceInv
<1>12. Nodes(t) \ {t.mKeyVals[idx]} = {c \in Nodes(t) : c.first # key}
  <2>1. \A i \in Used(t) : t.mKeyVals[i].first = key => i = idx
    BY <1>5, <1>7 DEF Distinct, KeyAt
  <2>2. t.mKeyVals[idx].first = key
    BY <1>7 DEF KeyAt
  <2> QED
    BY <2>1, <2>2 DEF Nodes
<1>13. t.mKeyVals[idx] \in Nodes(t) /\ t.mKeyVals[idx].first = key
  BY <1>7 DEF Nodes, KeyAt
<1>14. Contents' = {c \in Contents : c.first # key}
  BY <1>2, <1>4, <1>9, <1>11, <1>12
<1> QED
  BY <1>2, <1>4, <1>11, <1>13, <1>14

LEMMA BeginStep ==
  ASSUME MapInv, Begin
  PROVE  MapInv' /\ Contents' = Contents
<1>1. /\ Idle /\ it' = begin(table) /\ due' = Keys(table) /\ overflowed' = FALSE
      /\ table' = table /\ moving' = moving /\ pending' = pending /\ attempts' = attempts
  BY DEF Begin
<1>2. /\ Sound(table) /\ Shaped(table) /\ Contents = Nodes(table)
      /\ table.mNumElements <= calcMaxNumElementsAllowed(table.mMask + 1)
  BY <1>1, IdleIs
<1>3. PICK t, r : t = table /\ r = begin(t)
  OBVIOUS
<1>4. Sound(t) /\ Shaped(t)
  BY <1>2, <1>3
<1>5. /\ r = End(t) \/ r \in Used(t)
      /\ Keys(t) = KeysFrom(t, r)
  <2>1. KeysFrom(t, 0) = Keys(t) /\ KeysFrom(t, End(t)) = {}
    BY <1>4, KeysEnds
  <2>2. CASE t.mNumElements = 0
    <3>1. r = End(t) /\ Keys(t) = {}
      BY <1>3, <1>4, <2>2, NoneUsed DEF begin
    <3> QED
      BY <2>1, <3>1
  <2>3. CASE t.mNumElements # 0
    <3>1. r = fastForward(t, 0) /\ t.mMask # 0
      BY <1>3, <1>4, <2>3, TableFacts DEF begin
    <3>2. 0 \in 0..Slots(t)
      BY <1>4, Geometry
    <3>3. (r = End(t) \/ r \in Used(t)) /\ KeysFrom(t, r) = KeysFrom(t, 0)
      BY <1>4, <3>1, <3>2, FastForward
    <3> QED
      BY <2>1, <3>3
  <2> QED
    BY <2>2, <2>3
<1>6. due' \subseteq Key
  BY <1>1, <1>2, KeysFromAre
<1>7. t = table' /\ it' = r /\ due' = Keys(t)
  BY <1>1, <1>3
<1>8. it' # None => (it' = End(t) \/ it' \in Used(t)) /\ due' = KeysFrom(t, it')
  BY <1>4, <1>5, <1>7, KeysEnds
<1>9. t.mNumElements <= calcMaxNumElementsAllowed(t.mMask + 1)
  BY <1>2, <1>3
<1>10. MapInv' /\ Contents' = Nodes(t)
  BY <1>1, <1>4, <1>6, <1>7, <1>8, <1>9, AtOnceInv
<1> QED
  BY <1>2, <1>3, <1>10

(* An iterator that may be advanced is at a node.                           *)
LEMMA Iterating ==
  ASSUME MapInv, it # None, it # End(table)
  PROVE  /\ Idle /\ it \in Used(table) /\ due = KeysFrom(table, it)
         /\ Dereferenced = KeyAt(table, it)
BY DEF MapInv, IteratorInv, Dereferenced, KeyAt

LEMMA IncrementStep ==
  ASSUME MapInv, Increment
  PROVE  MapInv' /\ Contents' = Contents
<1>1. /\ it # None /\ it # End(table) /\ it' = fastForward(table, it + 1)
      /\ due' = due \ {Dereferenced} /\ overflowed' = FALSE
      /\ table' = table /\ moving' = moving /\ pending' = pending /\ attempts' = attempts
  BY DEF Increment
<1>2. /\ Idle /\ it \in Used(table) /\ due = KeysFrom(table, it)
      /\ Dereferenced = KeyAt(table, it)
  BY <1>1, Iterating
<1>3. /\ Sound(table) /\ Shaped(table) /\ Contents = Nodes(table)
      /\ table.mNumElements <= calcMaxNumElementsAllowed(table.mMask + 1)
  BY <1>2, IdleIs
<1>4. PICK t, i, j, r : t = table /\ i = it /\ j = i + 1 /\ r = fastForward(t, j)
  OBVIOUS
<1>5. Sound(t) /\ Shaped(t) /\ i \in Used(t)
  BY <1>2, <1>3, <1>4
<1>6. /\ KeysFrom(t, j) = KeysFrom(t, i) \ {KeyAt(t, i)}
      /\ j \in 0..Slots(t) /\ t.mMask # 0
  BY <1>4, <1>5, KeysStep
<1>7. (r = End(t) \/ r \in Used(t)) /\ KeysFrom(t, r) = KeysFrom(t, j)
  BY <1>4, <1>5, <1>6, FastForward
<1>8. t = table' /\ it' = r /\ due' = KeysFrom(t, r)
  BY <1>1, <1>2, <1>4, <1>6, <1>7
<1>9. due' \subseteq Key
  BY <1>5, <1>8, KeysFromAre
<1>10. t.mNumElements <= calcMaxNumElementsAllowed(t.mMask + 1)
  BY <1>3, <1>4
<1>11. it' # None => (it' = End(t) \/ it' \in Used(t)) /\ due' = KeysFrom(t, it')
  BY <1>7, <1>8
<1>12. MapInv' /\ Contents' = Nodes(t)
  BY <1>1, <1>2, <1>5, <1>8, <1>9, <1>10, <1>11, AtOnceInv
<1> QED
  BY <1>3, <1>4, <1>12

LEMMA EraseAtStep ==
  ASSUME MapInv, EraseAt
  PROVE  /\ MapInv'
         /\ \E key \in Key : Contents' = {c \in Contents : c.first # key}
                             /\ \E c \in Contents : c.first = key
<1>1. /\ it # None /\ it # End(table) /\ table' = Shrunk(table, it)
      /\ it' = After(table', it)
      /\ due' = due \ {Dereferenced} /\ overflowed' = FALSE
      /\ moving' = moving /\ pending' = pending /\ attempts' = attempts
  BY DEF EraseAt
<1>2. /\ Idle /\ it \in Used(table) /\ due = KeysFrom(table, it)
      /\ Dereferenced = KeyAt(table, it)
  BY <1>1, Iterating
<1>3. /\ Sound(table) /\ Shaped(table) /\ Contents = Nodes(table)
      /\ table.mNumElements <= calcMaxNumElementsAllowed(table.mMask + 1)
  BY <1>2, IdleIs
<1>4. PICK t, v, i, j, r : t = table /\ v = table' /\ i = it /\ j = i + 1 /\ r = it'
  OBVIOUS
<1>5. Sound(t) /\ Shaped(t) /\ i \in Used(t) /\ Honest(t) /\ Distinct(t)
  BY <1>2, <1>3, <1>4 DEF Sound
<1>6. v = Shrunk(t, i)
  BY <1>1, <1>4
<1>7. /\ Sound(v) /\ v.mMask = t.mMask /\ v.mNumElements = t.mNumElements - 1
      /\ Slots(v) = Slots(t)
      /\ Nodes(v) = Nodes(t) \ {t.mKeyVals[i]}
      /\ KeysFrom(v, i) = KeysFrom(t, i) \ {KeyAt(t, i)}
  BY <1>5, <1>6, ShrunkSound
<1>8. Shaped(v) /\ v.mMask # 0 /\ j \in 0..Slots(v)
  <2>1. t.mMask # 0 /\ j \in 0..Slots(t)
    BY <1>4, <1>5, KeysStep
  <2> QED
    BY <1>7, <2>1, TableFacts
<1>9. (r = End(v) \/ r \in Used(v)) /\ KeysFrom(v, r) = KeysFrom(v, i)
  <2>1. i \in 0..(Slots(v) - 1) /\ i \in Nat
    BY <1>5, <1>7, UsedIs
  <2>2. CASE v.mInfo[i] # 0
    <3>1. r = i
      BY <1>1, <1>4, <2>2 DEF After
    <3>2. i \in Used(v)
      BY <2>1, <2>2 DEF Used
    <3> QED
      BY <3>1, <3>2
  <2>3. CASE v.mInfo[i] = 0
    <3>1. r = fastForward(v, j)
      BY <1>1, <1>4, <2>3 DEF After
    <3>2. i \notin Used(v)
      BY <2>3 DEF Used
    <3>3. KeysFrom(v, j) = KeysFrom(v, i)
      BY <1>4, <1>8, <2>1, <3>2, KeysSkip
    <3>4. (r = End(v) \/ r \in Used(v)) /\ KeysFrom(v, r) = KeysFrom(v, j)
      BY <1>8, <3>1, FastForward
    <3> QED
      BY <3>3, <3>4
  <2> QED
    BY <2>2, <2>3
<1>10. it' = r /\ due' = KeysFrom(v, r)
  BY <1>1, <1>2, <1>4, <1>7, <1>9
<1>11. due' \subseteq Key
  BY <1>7, <1>10, KeysFromAre
<1>12. v.mNumElements <= calcMaxNumElementsAllowed(v.mMask + 1)
  <2>1. t.mNumElements \in Nat /\ calcMaxNumElementsAllowed(t.mMask + 1) \in Nat
    BY <1>5, TableFacts
  <2>2. t.mNumElements <= calcMaxNumElementsAllowed(t.mMask + 1)
    BY <1>3, <1>4
  <2> QED
    BY <1>7, <2>1, <2>2
<1>13. it' # None => (it' = End(v) \/ it' \in Used(v)) /\ due' = KeysFrom(v, it')
  BY <1>9, <1>10
<1>14. MapInv' /\ Contents' = Nodes(v)
  BY <1>1, <1>2, <1>4, <1>7, <1>11, <1>12, <1>13, AtOnceInv
<1>15. PICK key : key = KeyAt(t, i)
  OBVIOUS
<1>16. key \in Key /\ t.mKeyVals[i] \in Nodes(t) /\ t.mKeyVals[i].first = key
  BY <1>5, <1>15, UsedIs DEF Nodes, KeyAt
<1>17. Nodes(t) \ {t.mKeyVals[i]} = {c \in Nodes(t) : c.first # key}
  <2>1. \A k \in Used(t) : t.mKeyVals[k].first = key => k = i
    BY <1>5, <1>15 DEF Distinct, KeyAt
  <2> QED
    BY <1>16, <2>1 DEF Nodes
<1>18. Contents' = {c \in Contents : c.first # key}
  BY <1>3, <1>4, <1>7, <1>14, <1>17
<1> QED
  BY <1>3, <1>4, <1>14, <1>16, <1>18

LEMMA ClearStep ==
  ASSUME MapInv, Clear
  PROVE  MapInv' /\ Contents' = {}
<1>1. /\ Idle /\ it' = None /\ due' = {} /\ overflowed' = FALSE /\ table' = Cleared(table)
      /\ moving' = moving /\ pending' = pending /\ attempts' = attempts
  BY DEF Clear, Invalidate
<1>2. Sound(table)
  BY <1>1, IdleIs
<1>3. PICK t, v : t = table /\ v = table'
  OBVIOUS
<1>4. Sound(t) /\ v = Cleared(t)
  BY <1>1, <1>2, <1>3
<1>5. Sound(v) /\ Nodes(v) = {} /\ v.mNumElements = 0
  BY <1>4, ClearedSound
<1>6. v.mNumElements <= calcMaxNumElementsAllowed(v.mMask + 1)
  <2>1. calcMaxNumElementsAllowed(v.mMask + 1) \in Nat
    BY <1>5, TableFacts
  <2> QED
    BY <1>5, <2>1
<1> QED
  BY <1>1, <1>3, <1>5, <1>6, AtOnceInv

LEMMA MultiplierIs ==
  ASSUME NEW t, Sound(t)
  PROVE  /\ t.mHashMultiplier \in 0..(Multipliers - 1)
         /\ 0 \in 0..(Multipliers - 1) /\ Multipliers - 1 \in 0..(Multipliers - 1)
<1>1. Fields(t)
  BY TableFacts
<1> QED
  BY <1>1, RobinHoodAssumption DEF Fields

LEMMA TargetsSound ==
  ASSUME NEW to \in Targets
  PROVE  Sound(to) /\ Nodes(to) = {} /\ to.mNumElements = 0
<1>1. 0 \in 0..(Multipliers - 1) /\ Multipliers - 1 \in 0..(Multipliers - 1)
  BY RobinHoodAssumption
<1>2. CASE to = InitTable(Multipliers - 1)
  <2>1. PICK m : m = Multipliers - 1
    OBVIOUS
  <2>2. m \in 0..(Multipliers - 1) /\ to = InitTable(m)
    BY <1>1, <1>2, <2>1
  <2> QED
    BY <2>2, InitTableSound
<1>3. CASE to = initData(InitTable(0), InitialNumElements)
  <2>1. PICK t : t = InitTable(0)
    OBVIOUS
  <2>2. Sound(t)
    BY <1>1, <2>1, InitTableSound
  <2>3. Fields(t)
    BY <2>2, TableFacts
  <2>4. to = initData(t, InitialNumElements)
    BY <1>3, <2>1
  <2> QED
    BY <2>3, <2>4, InitialNumberLarge, FreshSound
<1> QED
  BY <1>2, <1>3 DEF Targets

(* Assigning from a table or to one leaves it as it is, or empty.           *)
LEMMA CopyStep ==
  ASSUME MapInv, Copy \/ MoveTo \/ MoveFrom
  PROVE  MapInv' /\ Contents' \in {{}, Contents}
<1>1. /\ Idle /\ it' = None /\ due' = {} /\ overflowed' = FALSE
      /\ moving' = moving /\ pending' = pending /\ attempts' = attempts
  BY DEF Copy, MoveTo, MoveFrom, Invalidate
<1>2. /\ Sound(table) /\ Contents = Nodes(table)
      /\ table.mNumElements <= calcMaxNumElementsAllowed(table.mMask + 1)
  BY <1>1, IdleIs
<1>3. PICK t, v : t = table /\ v = table'
  OBVIOUS
<1>4. Sound(t) /\ t.mNumElements <= calcMaxNumElementsAllowed(t.mMask + 1)
  BY <1>2, <1>3
<1>5. v = t \/ (Sound(v) /\ Nodes(v) = {} /\ v.mNumElements = 0)
  <2>1. CASE Copy
    <3>1. PICK to \in Targets :
            v = IF t.mNumElements # 0 THEN t
                ELSE IF to.mMask = 0 THEN to ELSE InitTable(to.mHashMultiplier)
      BY <1>3, <2>1 DEF Copy
    <3>2. Sound(to) /\ Nodes(to) = {} /\ to.mNumElements = 0
      BY TargetsSound
    <3>3. PICK m : m = to.mHashMultiplier
      OBVIOUS
    <3>4. m \in 0..(Multipliers - 1)
      BY <3>2, <3>3, MultiplierIs
    <3>5. v \in {t, to} \/ v = InitTable(m)
      BY <3>1, <3>3
    <3>6. v = InitTable(m) => Sound(v) /\ Nodes(v) = {} /\ v.mNumElements = 0
      BY <3>4, InitTableSound
    <3> QED
      BY <3>2, <3>5, <3>6
  <2>2. CASE MoveTo
    <3>1. PICK to \in Targets : v = t \/ v = Cleared(to)
      BY <1>3, <2>2 DEF MoveTo
    <3>2. Sound(to)
      BY TargetsSound
    <3>3. v = Cleared(to) => Sound(v) /\ Nodes(v) = {} /\ v.mNumElements = 0
      BY <3>2, ClearedSound
    <3> QED
      BY <3>1, <3>3
  <2>3. CASE MoveFrom
    <3>1. PICK m : m = t.mHashMultiplier
      OBVIOUS
    <3>2. m \in 0..(Multipliers - 1)
      BY <1>4, <3>1, MultiplierIs
    <3>3. v = t \/ v = InitTable(m)
      BY <1>3, <2>3, <3>1 DEF MoveFrom
    <3>4. v = InitTable(m) => Sound(v) /\ Nodes(v) = {} /\ v.mNumElements = 0
      BY <3>2, InitTableSound
    <3> QED
      BY <3>3, <3>4
  <2> QED
    BY <2>1, <2>2, <2>3
<1>6. Sound(v) /\ v.mNumElements <= calcMaxNumElementsAllowed(v.mMask + 1)
  <2>1. Sound(v)
    BY <1>4, <1>5
  <2>2. calcMaxNumElementsAllowed(v.mMask + 1) \in Nat
    BY <2>1, TableFacts
  <2> QED
    BY <1>4, <1>5, <2>1, <2>2
<1>7. MapInv' /\ Contents' = Nodes(v)
  BY <1>1, <1>3, <1>6, AtOnceInv
<1> QED
  BY <1>2, <1>3, <1>5, <1>7

(* Nothing happens.                                                         *)
LEMMA StutterStep ==
  ASSUME MapInv, UNCHANGED vars
  PROVE  MapInv' /\ Contents' = Contents
<1>1. /\ table' = table /\ pending' = pending /\ attempts' = attempts /\ moving' = moving
      /\ overflowed' = overflowed /\ it' = it /\ due' = due
  BY DEF vars
<1>2. Sound(table)' /\ Incoming(table, moving)'
  BY <1>1 DEF MapInv
<1>3. IteratorInv'
  BY <1>1 DEF MapInv, IteratorInv, Idle
<1>4. (Idle => ~Moving)'
  BY <1>1 DEF MapInv, Idle, Moving
<1>5. MapInv'
  BY <1>1, <1>2, <1>3, <1>4 DEF MapInv
<1> QED
  BY <1>1, <1>5 DEF Contents

(* The table is sound in every state: its info bytes are honest, its nodes  *)
(* in the order that searches rely on, no key is there twice, as many are   *)
(* counted as there are, and the nodes that a rehash has still to move are  *)
(* other keys' and find room; an iterator is at a node or at the end, and   *)
(* what it has still to come to is ahead of it.                             *)
THEOREM MapInvariance == Spec => []MapInv
<1>1. Init => MapInv
  BY InitInv
<1>2. MapInv /\ [Next]_vars => MapInv'
  <2> SUFFICES ASSUME MapInv, [Next]_vars
               PROVE  MapInv'
    OBVIOUS
  <2>1. CASE Call
    BY <2>1, CallStep
  <2>2. CASE KeyFound
    BY <2>2, KeyFoundStep
  <2>3. CASE Grow
    BY <2>3, GrowStep
  <2>4. CASE Place
    BY <2>4, PlaceStep
  <2>5. CASE GiveUp
    BY <2>5, GiveUpStep
  <2>6. CASE insert_move
    BY <2>6, InsertMoveStep
  <2>7. CASE insert_move_throws
    BY <2>7, InsertMoveThrowsStep
  <2>8. CASE ResizeEnd
    BY <2>8, ResizeEndStep
  <2>9. CASE Erase
    BY <2>9, EraseStep
  <2>10. CASE Begin
    BY <2>10, BeginStep
  <2>11. CASE Increment
    BY <2>11, IncrementStep
  <2>12. CASE EraseAt
    BY <2>12, EraseAtStep
  <2>13. CASE Clear
    BY <2>13, ClearStep
  <2>14. CASE Reserve \/ compact
    BY <2>14, ReserveStep
  <2>15. CASE Copy \/ MoveTo \/ MoveFrom
    BY <2>15, CopyStep
  <2>16. CASE UNCHANGED vars
    BY <2>16, StutterStep
  <2> QED
    BY <2>1, <2>2, <2>3, <2>4, <2>5, <2>6, <2>7, <2>8, <2>9, <2>10, <2>11, <2>12,
       <2>13, <2>14, <2>15, <2>16 DEF Next, Progress
<1> QED
  BY <1>1, <1>2, PTL DEF Spec

(* A key is in one slot at most.                                            *)
LEMMA NoMoreThanKeys ==
  ASSUME NEW t, Sound(t)
  PROVE  Cardinality(Used(t)) <= Cardinality(Key)
<1>1. Shaped(t) /\ Honest(t) /\ Distinct(t)
  BY DEF Sound
<1>2. \A i \in Used(t) : KeyAt(t, i) \in Key
  BY <1>1, UsedIs
<1>3. PICK f : f = [i \in Used(t) |-> KeyAt(t, i)]
  OBVIOUS
<1>4. f \in [Used(t) -> Key]
  BY <1>2, <1>3
<1>5. \A i, j \in Used(t) : f[i] = f[j] => i = j
  BY <1>1, <1>3 DEF Distinct
<1>6. f \in Injection(Used(t), Key)
  BY <1>4, <1>5 DEF Injection, IsInjective
<1> QED
  BY <1>6, RobinHoodAssumption, FS_Injection

LEMMA SoundHonest == MapInv => InfoHonest
<1> SUFFICES ASSUME MapInv
             PROVE  InfoHonest
  OBVIOUS
<1>1. PICK t : t = table
  OBVIOUS
<1>2. Sound(t) /\ attempts \in 0..MaxAttempts /\ overflowed \in BOOLEAN /\ due \subseteq Key
  BY <1>1 DEF MapInv
<1>3. /\ Shaped(t) /\ Honest(t) /\ Fields(t) /\ Sized(t) /\ t.mNumElements = Cardinality(Used(t))
  BY <1>2 DEF Sound, Shaped
<1>4. /\ t.mHashMultiplier \in 0..(Multipliers - 1)
      /\ t.mMask \in Nat /\ t.mNumElements \in Nat
      /\ \A i \in DOMAIN t.mInfo : t.mInfo[i] \in 0..(InfoByte - 1)
  BY <1>3 DEF Fields
<1>5. t.mNumElements \in 0..Cardinality(Key)
  <2>1. Cardinality(Key) \in Nat
    BY RobinHoodAssumption, FS_CardinalityType
  <2>2. Cardinality(Used(t)) <= Cardinality(Key)
    BY <1>2, NoMoreThanKeys
  <2> QED
    BY <1>3, <1>4, <2>1, <2>2
<1>6. t.mMask # 0 => /\ DOMAIN t.mKeyVals = 0..(Slots(t) - 1)
                     /\ DOMAIN t.mInfo = 0..(Slots(t) + 7)
                     /\ t.mInfo[Slots(t)] = 1
  BY <1>3 DEF Sized
<1>7. Nodes(t) \subseteq Pair
  BY <1>3 DEF Nodes, Honest
<1>8. TypeOK
  BY <1>1, <1>2, <1>4, <1>5, <1>6, <1>7 DEF TypeOK
<1>9. \A i \in Used(t) :
        /\ i >= Home(t, t.mKeyVals[i].first)
        /\ t.mInfo[i] = Info(t, t.mKeyVals[i].first, i - Home(t, t.mKeyVals[i].first))
  BY <1>3 DEF Honest, KeyAt
<1> QED
  BY <1>1, <1>3, <1>6, <1>8, <1>9 DEF InfoHonest

LEMMA SoundLookups == MapInv => LookupsRight
<1> SUFFICES ASSUME MapInv, NEW key \in Key, NEW idx, idx = findIdx(table, key)
             PROVE  /\ idx = EraseIdx(table, key)
                    /\ IF key \in Keys(table) THEN HasKey(table, idx, key)
                       ELSE idx = End(table)
  BY DEF LookupsRight
<1>1. PICK t, e : t = table /\ e = EraseIdx(t, key)
  OBVIOUS
<1>2. Sound(t) /\ Shaped(t) /\ Honest(t) /\ Ordered(t) /\ Distinct(t)
  BY <1>1 DEF MapInv, Sound
<1>3. Returns(t, key, idx)
  BY <1>1, <1>2, FindsIt DEF findIdx
<1>4. Returns(t, key, e)
  BY <1>1, <1>2, FindsIt DEF EraseIdx
<1>5. CASE key \in Keys(t)
  <2>1. idx \in Used(t) /\ KeyAt(t, idx) = key /\ e \in Used(t) /\ KeyAt(t, e) = key
    BY <1>3, <1>4, <1>5 DEF Returns
  <2>2. idx = e
    BY <1>2, <2>1 DEF Distinct
  <2>3. t.mKeyVals[idx] \in Pair /\ idx \in 0..(Slots(t) - 1) /\ Slots(t) \in Nat
    BY <1>2, <2>1, UsedIs, Geometry
  <2>4. t.mKeyVals[idx] # NoNode /\ idx < Slots(t)
    BY <2>3, RobinHoodAssumption
  <2>5. HasKey(t, idx, key)
    BY <2>1, <2>4 DEF HasKey, KeyAt
  <2> QED
    BY <1>1, <1>5, <2>2, <2>5
<1>6. CASE key \notin Keys(t)
  BY <1>1, <1>3, <1>4, <1>6 DEF Returns
<1> QED
  BY <1>5, <1>6

LEMMA SoundIterations == MapInv => IterationSeesAll
BY DEF MapInv, IteratorInv, IterationSeesAll, KeysFrom, KeyAt

(* The info bytes tell the truth in every state, for all hash functions,    *)
(* sizes and load factors: none has wrapped, whatever was moved or halved.  *)
THEOREM InfoStaysHonest == Spec => []InfoHonest
BY MapInvariance, SoundHonest, PTL

(* In every state find and erase come to the slot of a key that is there    *)
(* and to the end for one that is not.                                      *)
THEOREM LookupsStayRight == Spec => []LookupsRight
BY MapInvariance, SoundLookups, PTL

(* An iterator always has ahead of it the keys that it has not come to, and *)
(* only those, also when it erases on its way.                              *)
THEOREM IterationComplete == Spec => []IterationSeesAll
BY MapInvariance, SoundIterations, PTL

-----------------------------------------------------------------------------
(* The map that the table stands for.  A key has one node.                  *)

OneEach(S) == S \subseteq Pair /\ \A c, d \in S : c.first = d.first => c = d

LEMMA ContentsOneEach == MapInv => OneEach(Contents)
<1> SUFFICES ASSUME MapInv
             PROVE  OneEach(Contents)
  OBVIOUS
<1>1. PICK t, m : t = table /\ m = moving
  OBVIOUS
<1>2. Sound(t) /\ Incoming(t, m) /\ Contents = Nodes(t) \cup {m[i] : i \in DOMAIN m}
  BY <1>1 DEF MapInv, Contents
<1>3. /\ \A i \in Used(t) : t.mKeyVals[i] \in Pair
      /\ \A i, j \in Used(t) : t.mKeyVals[i].first = t.mKeyVals[j].first => i = j
  BY <1>2 DEF Sound, Honest, Distinct, KeyAt
<1>4. Nodes(t) \subseteq Pair /\ \A c, d \in Nodes(t) : c.first = d.first => c = d
  BY <1>3 DEF Nodes
<1>5. /\ \A i \in DOMAIN m : m[i] \in Pair
      /\ \A i, j \in DOMAIN m : m[i].first = m[j].first => i = j
      /\ \A i \in DOMAIN m : m[i].first \notin Keys(t)
  BY <1>2 DEF Incoming
<1>6. \A c \in Nodes(t) : c.first \in Keys(t)
  BY DEF Keys
<1>7. \A c \in Nodes(t), i \in DOMAIN m : c.first # m[i].first
  BY <1>5, <1>6
<1> QED
  BY <1>2, <1>4, <1>5, <1>7 DEF OneEach

LEMMA EntriesAre ==
  ASSUME NEW S, OneEach(S)
  PROVE  /\ DOMAIN Entries(S) = {c.first : c \in S}
         /\ \A c \in S : Entries(S)[c.first] = c.second
         /\ Entries(S) = [k \in {c.first : c \in S} |-> Entries(S)[k]]
<1>1. DOMAIN Entries(S) = {c.first : c \in S}
      /\ Entries(S) = [k \in {c.first : c \in S} |-> Entries(S)[k]]
  BY DEF Entries
<1>2. ASSUME NEW c \in S
      PROVE  Entries(S)[c.first] = c.second
  <2>1. PICK k : k = c.first
    OBVIOUS
  <2>2. Entries(S)[k] = (CHOOSE d \in S : d.first = k).second
    BY <2>1 DEF Entries
  <2>3. \E d \in S : d.first = k
    BY <2>1
  <2>4. PICK e : e = CHOOSE d \in S : d.first = k
    OBVIOUS
  <2>5. e \in S /\ e.first = k
    BY <2>3, <2>4
  <2>6. e = c
    BY <2>1, <2>5 DEF OneEach
  <2> QED
    BY <2>1, <2>2, <2>4, <2>6
<1> QED
  BY <1>1, <1>2

LEMMA EntriesPut ==
  ASSUME NEW S, OneEach(S), NEW node \in Pair,
         NEW R, R = {c \in S : c.first # node.first} \cup {node}
  PROVE  Entries(R) = Maps!With(Entries(S), node)
<1>1. OneEach(R)
  BY DEF OneEach
<1>2. /\ DOMAIN Entries(S) = {c.first : c \in S}
      /\ \A c \in S : Entries(S)[c.first] = c.second
  BY EntriesAre
<1>3. /\ DOMAIN Entries(R) = {c.first : c \in R}
      /\ \A c \in R : Entries(R)[c.first] = c.second
      /\ Entries(R) = [k \in {c.first : c \in R} |-> Entries(R)[k]]
  BY <1>1, EntriesAre
<1>4. PICK E, F, D : E = Entries(S) /\ F = Entries(R) /\ D = {c.first : c \in S} \cup {node.first}
  OBVIOUS
<1>5. {c.first : c \in R} = D
  BY <1>4
<1>6. \A k \in D : F[k] = IF k = node.first THEN node.second ELSE E[k]
  <2> SUFFICES ASSUME NEW k \in D
               PROVE  F[k] = IF k = node.first THEN node.second ELSE E[k]
    OBVIOUS
  <2>1. CASE k = node.first
    <3>1. node \in R
      OBVIOUS
    <3> QED
      BY <1>3, <1>4, <2>1, <3>1
  <2>2. CASE k # node.first
    <3>1. PICK c \in S : c.first = k
      BY <1>4, <2>2
    <3>2. c \in R
      BY <2>2, <3>1
    <3>3. E[k] = c.second /\ F[k] = c.second
      BY <1>2, <1>3, <1>4, <3>1, <3>2
    <3> QED
      BY <2>2, <3>3
  <2> QED
    BY <2>1, <2>2
<1>7. F = [k \in D |-> F[k]]
  BY <1>3, <1>4, <1>5
<1>8. F = [k \in D |-> IF k = node.first THEN node.second ELSE E[k]]
  BY <1>6, <1>7
<1>9. DOMAIN E \cup {node.first} = D
  BY <1>2, <1>4
<1> QED
  BY <1>4, <1>8, <1>9 DEF Maps!With

LEMMA EntriesLess ==
  ASSUME NEW S, OneEach(S), NEW R, R \subseteq S, NEW K,
         \A c \in S : c \in R <=> c.first \notin K
  PROVE  Entries(R) = Maps!Without(Entries(S), K)
<1>1. OneEach(R)
  BY DEF OneEach
<1>2. /\ DOMAIN Entries(S) = {c.first : c \in S}
      /\ \A c \in S : Entries(S)[c.first] = c.second
  BY EntriesAre
<1>3. /\ \A c \in R : Entries(R)[c.first] = c.second
      /\ Entries(R) = [k \in {c.first : c \in R} |-> Entries(R)[k]]
  BY <1>1, EntriesAre
<1>4. PICK E, F, D : E = Entries(S) /\ F = Entries(R) /\ D = {c.first : c \in R}
  OBVIOUS
<1>5. D = DOMAIN E \ K
  BY <1>2, <1>4
<1>6. \A k \in D : F[k] = E[k]
  BY <1>2, <1>3, <1>4
<1>7. F = [k \in D |-> F[k]]
  BY <1>3, <1>4
<1>8. F = [k \in D |-> E[k]]
  BY <1>6, <1>7
<1> QED
  BY <1>4, <1>5, <1>8 DEF Maps!Without

LEMMA EntriesNone == Entries({}) = Maps!Empty
BY DEF Entries, Maps!Empty

(* What the table stands for, and which of its keys are on their way.       *)
TheMap == Entries(Contents)
Away == {node.first : node \in Range(moving)}

LEMMA TheMapIs == Entries(Nodes(table) \cup Range(moving)) = TheMap
BY DEF TheMap, Contents, Range

LEMMA FirstsAre ==
  ASSUME NEW m
  PROVE  {node.first : node \in Range(m)} = {m[i].first : i \in DOMAIN m}
BY DEF Range

LEMMA NothingAway ==
  ASSUME DOMAIN moving = {}
  PROVE  Away = {}
BY DEF Away, Range

(* Old memory is left with every node on its way.                           *)
LEMMA AllAway ==
  ASSUME MapInv, DOMAIN moving = {},
         moving' = [i \in ToMove(table) |-> table.mKeyVals[i]]
  PROVE  Away' = DOMAIN TheMap
<1>1. PICK m : m = moving'
  OBVIOUS
<1>2. DOMAIN m = Used(table) /\ \A i \in DOMAIN m : m[i] = table.mKeyVals[i]
  BY <1>1 DEF ToMove
<1>3. Range(m) = Nodes(table)
  BY <1>2 DEF Range, Nodes
<1>4. Contents = Nodes(table)
  BY DEF Contents
<1>5. DOMAIN TheMap = {c.first : c \in Contents}
  BY ContentsOneEach, EntriesAre DEF TheMap
<1>6. Away' = {c.first : c \in Range(m)}
  BY <1>1 DEF Away
<1> QED
  BY <1>3, <1>4, <1>5, <1>6

LEMMA ArriveImplements ==
  ASSUME MapInv, insert_move
  PROVE  \E key \in Away : Away' = Away \ {key}
<1>1. PICK m, n, k : m = moving /\ n = moving' /\ k = Min(DOMAIN m)
  OBVIOUS
<1>2. /\ DOMAIN m # {} /\ DOMAIN m \subseteq Nat
      /\ \A i, j \in DOMAIN m : m[i].first = m[j].first => i = j
  BY <1>1 DEF MapInv, Incoming, insert_move, Moving
<1>3. k \in DOMAIN m
  BY <1>1, <1>2, LeastOf
<1>4. n = [i \in DOMAIN m \ {k} |-> m[i]]
  BY <1>1 DEF insert_move, Restrict
<1>5. DOMAIN n = DOMAIN m \ {k} /\ \A i \in DOMAIN n : n[i] = m[i]
  BY <1>4
<1>6. {n[i].first : i \in DOMAIN n} = {m[i].first : i \in DOMAIN m} \ {m[k].first}
  BY <1>2, <1>3, <1>5
<1>7. Away = {m[i].first : i \in DOMAIN m} /\ Away' = {n[i].first : i \in DOMAIN n}
  <2>1. Away = {c.first : c \in Range(m)} /\ Away' = {c.first : c \in Range(n)}
    BY <1>1 DEF Away
  <2>2. /\ {c.first : c \in Range(m)} = {m[i].first : i \in DOMAIN m}
        /\ {c.first : c \in Range(n)} = {n[i].first : i \in DOMAIN n}
    BY FirstsAre
  <2> QED
    BY <2>1, <2>2
<1> QED
  BY <1>3, <1>6, <1>7

LEMMA InsertImplements ==
  ASSUME MapInv, KeyFound \/ Place
  PROVE  /\ pending \in Insertions
         /\ TheMap' = IF pending.op = "emplace" /\ pending.node.first \in DOMAIN TheMap
                      THEN TheMap ELSE Maps!With(TheMap, pending.node)
         /\ pending' = None /\ overflowed' = overflowed
<1>1. pending \in Insertions /\ pending.node \in Pair
  BY TryingIs DEF KeyFound, Place, NewKey
<1>2. pending' = None /\ overflowed' = overflowed
  BY DEF KeyFound, Place, Return
<1>3. OneEach(Contents)
  BY ContentsOneEach
<1>4. PICK S, R, node : S = Contents /\ R = Contents' /\ node = pending.node
  OBVIOUS
<1>5. DOMAIN Entries(S) = {c.first : c \in S}
  BY <1>3, <1>4, EntriesAre
<1>6. ASSUME R = {c \in S : c.first # node.first} \cup {node}
      PROVE  Entries(R) = Maps!With(Entries(S), node)
  BY <1>1, <1>3, <1>4, <1>6, EntriesPut
<1>7. TheMap = Entries(S) /\ TheMap' = Entries(R)
  BY <1>4 DEF TheMap
<1>8. CASE KeyFound
  <2>1. \/ /\ pending.op = "emplace" /\ R = S
           /\ \E c \in S : c.first = node.first
        \/ /\ pending.op # "emplace"
           /\ R = {c \in S : c.first # node.first} \cup {node}
    BY <1>4, <1>8, KeyFoundStep DEF Inserted
  <2>2. CASE pending.op = "emplace" /\ R = S /\ \E c \in S : c.first = node.first
    <3>1. node.first \in DOMAIN Entries(S)
      BY <1>5, <2>2
    <3> QED
      BY <1>1, <1>2, <1>4, <1>7, <2>2, <3>1
  <2>3. CASE pending.op # "emplace" /\ R = {c \in S : c.first # node.first} \cup {node}
    BY <1>1, <1>2, <1>4, <1>6, <1>7, <2>3
  <2> QED
    BY <2>1, <2>2, <2>3
<1>9. CASE Place
  <2>1. /\ R = {c \in S : c.first # node.first} \cup {node}
        /\ \A c \in S : c.first # node.first
    BY <1>4, <1>9, PlaceStep DEF Inserted
  <2>2. node.first \notin DOMAIN Entries(S)
    BY <1>5, <2>1
  <2> QED
    BY <1>1, <1>2, <1>4, <1>6, <1>7, <2>1, <2>2
<1> QED
  BY <1>8, <1>9

(* An overflow costs the nodes on their way; giving up costs nothing.       *)
LEMMA OverflowImplements ==
  ASSUME MapInv, GiveUp \/ insert_move_throws
  PROVE  /\ pending # None /\ pending' = None /\ overflowed' = TRUE
         /\ TheMap' = Maps!Without(TheMap, Away) /\ Away' = {}
<1>1. pending # None
  BY InsertMoveThrowsStep, TryingIs DEF GiveUp
<1>2. pending' = None /\ overflowed' = TRUE
  BY DEF GiveUp, insert_move_throws, Return
<1>3. PICK S, R, K : S = Contents /\ R = Contents' /\ K = Away
  OBVIOUS
<1>4. OneEach(S)
  BY <1>3, ContentsOneEach
<1>5. Away' = {} /\ R \subseteq S /\ \A c \in S : c \in R <=> c.first \notin K
  <2>1. CASE GiveUp
    <3>1. DOMAIN moving = {} /\ moving' = moving
      BY <2>1, TryingIs DEF GiveUp, Return
    <3>2. K = {} /\ Away' = {}
      BY <1>3, <3>1, NothingAway DEF Away
    <3>3. R = S
      BY <1>3, <2>1, GiveUpStep
    <3> QED
      BY <3>2, <3>3
  <2>2. CASE insert_move_throws
    <3>1. PICK m : m = moving
      OBVIOUS
    <3>2. table' = table /\ DOMAIN moving' = {}
      BY <2>2 DEF insert_move_throws, NoNodes
    <3>3. R = Nodes(table) /\ Away' = {}
      BY <1>3, <3>2 DEF Contents, Away, Range
    <3>4. S = Nodes(table) \cup {m[i] : i \in DOMAIN m}
      BY <1>3, <3>1 DEF Contents
    <3>5. K = {m[i].first : i \in DOMAIN m}
      BY <1>3, <3>1, FirstsAre DEF Away
    <3>6. \A i \in DOMAIN m : m[i].first \notin Keys(table)
      BY <3>1 DEF MapInv, Incoming
    <3>7. \A c \in Nodes(table) : c.first \in Keys(table)
      BY DEF Keys
    <3>8. \A c \in Nodes(table) : c.first \notin K
      BY <3>5, <3>6, <3>7
    <3>9. \A i \in DOMAIN m : m[i].first \in K
      BY <3>5
    <3> QED
      BY <3>3, <3>4, <3>8, <3>9
  <2> QED
    BY <2>1, <2>2
<1>6. Entries(R) = Maps!Without(Entries(S), K)
  BY <1>4, <1>5, EntriesLess
<1>7. TheMap = Entries(S) /\ TheMap' = Entries(R)
  BY <1>3 DEF TheMap
<1> QED
  BY <1>1, <1>2, <1>3, <1>5, <1>6, <1>7

LEMMA EraseImplements ==
  ASSUME MapInv, Erase \/ EraseAt
  PROVE  /\ pending = None /\ pending' = pending /\ overflowed' = FALSE
         /\ \E key \in DOMAIN TheMap : TheMap' = Maps!Without(TheMap, {key})
<1>1. pending = None /\ pending' = pending /\ overflowed' = FALSE
  BY Iterating DEF Erase, EraseAt, Idle
<1>2. PICK key : /\ Contents' = {c \in Contents : c.first # key}
                 /\ \E c \in Contents : c.first = key
  BY EraseStep, EraseAtStep
<1>3. PICK S, R, K : S = Contents /\ R = Contents' /\ K = {key}
  OBVIOUS
<1>4. OneEach(S)
  BY <1>3, ContentsOneEach
<1>5. R \subseteq S /\ \A c \in S : c \in R <=> c.first \notin K
  BY <1>2, <1>3
<1>6. Entries(R) = Maps!Without(Entries(S), K)
  BY <1>4, <1>5, EntriesLess
<1>7. key \in DOMAIN Entries(S)
  <2>1. DOMAIN Entries(S) = {c.first : c \in S}
    BY <1>4, EntriesAre
  <2> QED
    BY <1>2, <1>3, <2>1
<1>8. TheMap = Entries(S) /\ TheMap' = Entries(R)
  BY <1>3 DEF TheMap
<1> QED
  BY <1>1, <1>3, <1>6, <1>7, <1>8

LEMMA RestImplements ==
  ASSUME MapInv, Begin \/ Increment \/ Clear \/ Copy \/ MoveTo \/ MoveFrom
  PROVE  /\ pending = None /\ pending' = pending /\ overflowed' = FALSE
         /\ TheMap' \in {TheMap, Maps!Empty}
<1>1. pending = None /\ pending' = pending /\ overflowed' = FALSE
  BY Iterating DEF Begin, Increment, Clear, Copy, MoveTo, MoveFrom, Idle
<1>2. Contents' \in {{}, Contents}
  BY BeginStep, IncrementStep, ClearStep, CopyStep
<1>3. Entries({}) = Maps!Empty
  BY EntriesNone
<1> QED
  BY <1>1, <1>2, <1>3 DEF TheMap

LEMMA KeepsMap ==
  ASSUME MapInv, Call \/ Reserve \/ compact \/ Grow \/ insert_move \/ ResizeEnd
                   \/ UNCHANGED vars
  PROVE  TheMap' = TheMap
<1>1. Contents' = Contents
  BY CallStep, ReserveStep, GrowStep, InsertMoveStep, ResizeEndStep, StutterStep
<1> QED
  BY <1>1 DEF TheMap

LEMMA BeginImplements ==
  ASSUME MapInv, Call \/ Reserve \/ compact
  PROVE  /\ pending = None /\ overflowed' = FALSE
         /\ \/ pending' \in Insertions /\ Away' = Away
            \/ pending' = Rehash /\ Away' = DOMAIN TheMap
<1>1. pending = None /\ overflowed' = FALSE
  BY DEF Call, Reserve, compact, Resize, Idle
<1>2. CASE Call
  BY <1>1, <1>2 DEF Call, Away
<1>3. CASE Reserve \/ compact
  <2>1. pending' = Rehash /\ moving' = [i \in ToMove(table) |-> table.mKeyVals[i]]
    BY <1>3 DEF Reserve, compact, Resize, rehashPowerOfTwo
  <2>2. DOMAIN moving = {}
    BY <1>1, IdleIs DEF Idle
  <2> QED
    BY <1>1, <2>1, <2>2, AllAway
<1> QED
  BY <1>1, <1>2, <1>3

LEMMA GrowImplements ==
  ASSUME MapInv, Grow
  PROVE  /\ pending \in Insertions /\ pending' = pending /\ overflowed' = overflowed
         /\ Away = {} /\ Away' \in {Away, DOMAIN TheMap}
<1>1. pending \in Insertions /\ DOMAIN moving = {}
  BY TryingIs DEF Grow, NewKey
<1>2. \/ moving' = moving
      \/ moving' = [i \in ToMove(table) |-> table.mKeyVals[i]]
  BY DEF Grow, increase_size, rehashPowerOfTwo
<1>3. Away = {}
  BY <1>1, NothingAway
<1>4. moving' = moving => Away' = Away
  BY DEF Away
<1>5. moving' = [i \in ToMove(table) |-> table.mKeyVals[i]] => Away' = DOMAIN TheMap
  BY <1>1, AllAway
<1> QED
  BY <1>1, <1>2, <1>3, <1>4, <1>5 DEF Grow

(* Other calls and steps find nothing on its way, and leave nothing.        *)
LEMMA AtRest ==
  ASSUME MapInv, \/ KeyFound \/ Place \/ ResizeEnd \/ Erase \/ EraseAt \/ Begin
                 \/ Increment \/ Clear \/ Copy \/ MoveTo \/ MoveFrom
  PROVE  Away = {} /\ Away' = Away
<1>1. moving' = moving
  BY DEF KeyFound, Place, ResizeEnd, Return, Erase, EraseAt, Begin, Increment, Clear,
         Copy, MoveTo, MoveFrom
<1>2. DOMAIN moving = {}
  <2>1. CASE KeyFound \/ Place
    BY <2>1, TryingIs DEF KeyFound, Place, NewKey
  <2>2. CASE ResizeEnd
    BY <2>2 DEF ResizeEnd, Moving
  <2>3. CASE \/ Erase \/ EraseAt \/ Begin \/ Increment \/ Clear
             \/ Copy \/ MoveTo \/ MoveFrom
    <3>1. Idle
      BY <2>3, Iterating DEF Erase, EraseAt, Begin, Increment, Clear, Copy, MoveTo, MoveFrom
    <3> QED
      BY <3>1, IdleIs
  <2> QED
    BY <2>1, <2>2, <2>3
<1> QED
  BY <1>1, <1>2, NothingAway DEF Away

(* The calls of a map, in terms of what the table stands for.               *)
LEMMA StepImplements ==
  ASSUME MapInv, [Next]_vars
  PROVE  [Maps!Next]_<<Entries(Nodes(table) \cup Range(moving)),
                       {node.first : node \in Range(moving)}, pending, overflowed>>
<1>1. PICK E, F, A, B : E = TheMap /\ F = TheMap' /\ A = Away /\ B = Away'
  OBVIOUS
<1>2. /\ E = Entries(Nodes(table) \cup Range(moving))
      /\ F = Entries(Nodes(table) \cup Range(moving))'
      /\ A = {node.first : node \in Range(moving)}
      /\ B = {node.first : node \in Range(moving)}'
  BY <1>1 DEF TheMap, Contents, Range, Away
<1>3. CASE Call \/ Reserve \/ compact
  <2>1. /\ F = E /\ pending = None /\ overflowed' = FALSE
        /\ \/ pending' \in Insertions /\ B = A
           \/ pending' = Rehash /\ B = DOMAIN E
    BY <1>1, <1>3, KeepsMap, BeginImplements
  <2>2. Maps!Begin
    BY <1>2, <2>1 DEF Maps!Begin
  <2> QED
    BY <2>2 DEF Maps!Next
<1>4. CASE KeyFound \/ Place
  <2>1. /\ pending \in Insertions
        /\ F = IF pending.op = "emplace" /\ pending.node.first \in DOMAIN E
               THEN E ELSE Maps!With(E, pending.node)
        /\ pending' = None /\ overflowed' = overflowed
    BY <1>1, <1>4, InsertImplements
  <2>2. A = {} /\ B = A
    BY <1>1, <1>4, AtRest
  <2>3. Maps!Insert
    BY <1>2, <2>1, <2>2 DEF Maps!Insert
  <2> QED
    BY <2>3 DEF Maps!Next
<1>5. CASE GiveUp \/ insert_move_throws
  <2>1. /\ pending # None /\ pending' = None /\ overflowed' = TRUE
        /\ F = Maps!Without(E, A) /\ B = {}
    BY <1>1, <1>5, OverflowImplements
  <2>2. Maps!Overflow
    BY <1>2, <2>1 DEF Maps!Overflow
  <2> QED
    BY <2>2 DEF Maps!Next
<1>6. CASE ResizeEnd
  <2>1. F = E /\ A = {} /\ B = A
    BY <1>1, <1>6, KeepsMap, AtRest
  <2>2. pending = Rehash /\ pending' = None /\ overflowed' = overflowed
    BY <1>6 DEF ResizeEnd, Return
  <2>3. Maps!Rehashed
    BY <1>2, <2>1, <2>2 DEF Maps!Rehashed
  <2> QED
    BY <2>3 DEF Maps!Next
<1>7. CASE Erase \/ EraseAt
  <2>1. /\ pending = None /\ pending' = pending /\ overflowed' = FALSE
        /\ \E key \in DOMAIN E : F = Maps!Without(E, {key})
    BY <1>1, <1>7, EraseImplements
  <2>2. B = A
    BY <1>1, <1>7, AtRest
  <2>3. Maps!AtOnce
    BY <1>2, <2>1, <2>2 DEF Maps!AtOnce
  <2> QED
    BY <2>3 DEF Maps!Next
<1>8. CASE Begin \/ Increment \/ Clear \/ Copy \/ MoveTo \/ MoveFrom
  <2>1. /\ pending = None /\ pending' = pending /\ overflowed' = FALSE
        /\ F \in {E, Maps!Empty}
    BY <1>1, <1>8, RestImplements
  <2>2. B = A
    BY <1>1, <1>8, AtRest
  <2>3. Maps!AtOnce
    BY <1>2, <2>1, <2>2 DEF Maps!AtOnce
  <2> QED
    BY <2>3 DEF Maps!Next
<1>9. CASE Grow
  <2>1. F = E
    BY <1>1, <1>9, KeepsMap
  <2>2. /\ pending \in Insertions /\ pending' = pending /\ overflowed' = overflowed
        /\ A = {} /\ B \in {A, DOMAIN E}
    BY <1>1, <1>9, GrowImplements
  <2>3. CASE B = A
    BY <1>2, <2>1, <2>2, <2>3
  <2>4. CASE B = DOMAIN E
    <3>1. Maps!MoveAll
      BY <1>2, <2>1, <2>2, <2>4 DEF Maps!MoveAll
    <3> QED
      BY <3>1 DEF Maps!Next
  <2> QED
    BY <2>2, <2>3, <2>4
<1>10. CASE insert_move
  <2>1. F = E /\ pending' = pending /\ overflowed' = overflowed
    BY <1>1, <1>10, KeepsMap DEF insert_move
  <2>2. \E key \in A : B = A \ {key}
    BY <1>1, <1>10, ArriveImplements
  <2>3. Maps!Arrive
    BY <1>2, <2>1, <2>2 DEF Maps!Arrive
  <2> QED
    BY <2>3 DEF Maps!Next
<1>11. CASE UNCHANGED vars
  <2>1. F = E
    BY <1>1, <1>11, KeepsMap
  <2>2. B = A /\ pending' = pending /\ overflowed' = overflowed
    BY <1>1, <1>11 DEF vars, Away
  <2> QED
    BY <1>2, <2>1, <2>2
<1> QED
  BY <1>3, <1>4, <1>5, <1>6, <1>7, <1>8, <1>9, <1>10, <1>11 DEF Next, Progress

(* The table is a map for any hash function: whatever its calls do to the   *)
(* slots, what it stands for, the nodes on their way to new memory          *)
(* included, changes as the calls of a map change it; an overflow costs it  *)
(* exactly the nodes on their way.                                          *)
THEOREM TableIsMap == Spec => IsMap
<1>1. Init => Maps!Init
  <2> SUFFICES ASSUME Init
               PROVE  Maps!Init
    OBVIOUS
  <2>1. Contents = {}
    BY InitInv
  <2>2. TheMap = Maps!Empty
    BY <2>1, EntriesNone DEF TheMap
  <2>3. Entries(Nodes(table) \cup Range(moving)) = Maps!Empty
    BY <2>2, TheMapIs
  <2>4. {node.first : node \in Range(moving)} = {}
    BY DEF Init, NoNodes, Range
  <2> QED
    BY <2>3, <2>4 DEF Init, Maps!Init
<1>2. MapInv /\ [Next]_vars
        => [Maps!Next]_<<Entries(Nodes(table) \cup Range(moving)),
                         {node.first : node \in Range(moving)}, pending, overflowed>>
  BY StepImplements
<1> QED
  BY <1>1, <1>2, MapInvariance, PTL DEF Spec, IsMap, Maps!Spec
=============================================================================

------------------------------ MODULE Induction ------------------------------
(***************************************************************************)
(* Induction over the natural numbers in a form that needs no operator as  *)
(* a parameter: about sets and functions.  It rests on the theorem of      *)
(* FiniteSetTheorems that finite sets are well-founded under inclusion.    *)
(* And what it yields for sums over finite sets, which the community       *)
(* modules define by taking out one element after another.                 *)
(***************************************************************************)
EXTENDS Integers, FiniteSetTheorems, WellFoundedInduction, TLAPS

(* A set of naturals that is not empty has a least element.                 *)
THEOREM LeastNatural ==
  ASSUME NEW T, T \subseteq Nat, T # {}
  PROVE  \E x \in T : \A y \in T : x <= y
<1> DEFINE upTo == {0..n : n \in T}
           R == StrictSubsetOrdering(Nat)
           F == FiniteSubsetsOf(Nat)
<1>1. IsWellFoundedOn(R, F)
  BY FS_StrictSubsetOrderingWellFounded
<1>2. \A n \in T : 0..n \in F
  BY FS_Interval DEF FiniteSubsetsOf
<1>3. upTo \subseteq F /\ upTo # {}
  BY <1>2
<1>4. PICK u \in upTo : \A v \in upTo : ~(<<v, u>> \in R)
  <2> HIDE DEF upTo, R, F
  <2> QED
    BY <1>1, <1>3, WFMin
<1>5. PICK x \in T : u = 0..x
  OBVIOUS
<1>6. ASSUME NEW y \in T, y < x
      PROVE  FALSE
  <2>1. /\ 0..y \in upTo /\ 0..y \subseteq 0..x
        /\ x \in 0..x /\ x \notin 0..y
    BY <1>6
  <2>2. <<0..y, 0..x>> \in R
    BY <1>2, <2>1 DEF StrictSubsetOrdering, FiniteSubsetsOf
  <2> QED
    BY <1>4, <1>5, <2>1, <2>2
<1> QED
  BY <1>6

(* Induction: a set that has 0 and the successor of each of its naturals    *)
(* has all of them.                                                         *)
THEOREM InductiveSet ==
  ASSUME NEW S, 0 \in S, \A n \in Nat : n \in S => n + 1 \in S
  PROVE  Nat \subseteq S
<1> SUFFICES ASSUME Nat \ S # {}
             PROVE  FALSE
  OBVIOUS
<1>1. PICK x \in Nat \ S : \A y \in Nat \ S : x <= y
  BY LeastNatural
<1>2. x - 1 \in Nat /\ x - 1 \in S
  BY <1>1
<1> QED
  BY <1>1, <1>2

(* The same for an interval from 0 on.                                      *)
THEOREM InductiveInterval ==
  ASSUME NEW N \in Nat, NEW S, 0 \in S,
         \A n \in 0..(N - 1) : n \in S => n + 1 \in S
  PROVE  0..N \subseteq S
<1> DEFINE T == {n \in Nat : n <= N => n \in S}
<1>1. 0 \in T /\ \A n \in Nat : n \in T => n + 1 \in T
  OBVIOUS
<1>2. Nat \subseteq T
  <2> HIDE DEF T
  <2> QED
    BY <1>1, InductiveSet
<1> QED
  BY <1>2

(* Primitive recursion over an interval: from a first value and a step      *)
(* there is a function that takes them.                                     *)
IsStep(step, N, V) == \A k \in 1..N, v \in V : step[<<k, v>>] \in V

Iterates(f, N, V, first, step) ==
    /\ f \in [0..N -> V]
    /\ f[0] = first
    /\ \A k \in 1..N : f[k] = step[<<k, f[k - 1]>>]

THEOREM PrimitiveRecursion ==
  ASSUME NEW N \in Nat, NEW V, NEW first \in V, NEW step, IsStep(step, N, V)
  PROVE  \E f : Iterates(f, N, V, first, step)
<1> USE DEF IsStep
<1> DEFINE Steps(f, n) == /\ f \in [0..n -> V]
                          /\ f[0] = first
                          /\ \A k \in 1..n : f[k] = step[<<k, f[k - 1]>>]
           S == {n \in 0..N : \E f \in [0..n -> V] : Steps(f, n)}
<1>1. 0 \in S
  <2> DEFINE f == [k \in 0..0 |-> first]
  <2>1. f \in [0..0 -> V] /\ Steps(f, 0)
    OBVIOUS
  <2> HIDE DEF f, Steps
  <2> QED
    BY <2>1
<1>2. ASSUME NEW n \in 0..(N - 1), n \in S
      PROVE  n + 1 \in S
  <2>1. PICK f \in [0..n -> V] : Steps(f, n)
    BY <1>2
  <2> DEFINE g == [k \in 0..(n + 1) |-> IF k <= n THEN f[k] ELSE step[<<n + 1, f[n]>>]]
  <2>2. f[n] \in V /\ step[<<n + 1, f[n]>>] \in V
    <3>1. n + 1 \in 1..N /\ f[n] \in V
      BY <2>1
    <3> QED
      BY <3>1
  <2>3. g \in [0..(n + 1) -> V] /\ g[0] = first
    BY <2>1, <2>2
  <2>4. \A k \in 1..(n + 1) : g[k] = step[<<k, g[k - 1]>>]
    <3> SUFFICES ASSUME NEW k \in 1..(n + 1)
                 PROVE  g[k] = step[<<k, g[k - 1]>>]
      OBVIOUS
    <3>1. CASE k = n + 1
      BY <3>1
    <3>2. CASE k # n + 1
      BY <3>2, <2>1
    <3> QED
      BY <3>1, <3>2
  <2>5. Steps(g, n + 1)
    BY <2>3, <2>4
  <2> HIDE DEF g
  <2> QED
    BY <2>5
<1>3. N \in S
  <2> HIDE DEF S
  <2>1. 0..N \subseteq S
    BY <1>1, <1>2, InductiveInterval
  <2> QED
    BY <2>1
<1>4. PICK f \in [0..N -> V] : Steps(f, N)
  BY <1>3
<1> QED
  BY <1>4 DEF Iterates

(* The same over all naturals.                                              *)
IteratesOn(f, V, first, step) ==
    /\ f \in [Nat -> V]
    /\ f[0] = first
    /\ \A k \in Nat : f[k + 1] = step[<<k + 1, f[k]>>]

THEOREM NaturalRecursion ==
  ASSUME NEW V, NEW first \in V, NEW step, \A N \in Nat : IsStep(step, N, V)
  PROVE  \E f : IteratesOn(f, V, first, step)
<1> DEFINE upto(n) == CHOOSE f : Iterates(f, n, V, first, step)
           g == [n \in Nat |-> upto(n)[n]]
<1>1. ASSUME NEW n \in Nat
      PROVE  Iterates(upto(n), n, V, first, step)
  <2>1. \E f : Iterates(f, n, V, first, step)
    BY PrimitiveRecursion
  <2> QED
    BY <2>1
<1> HIDE DEF upto
<1>2. ASSUME NEW n \in Nat
      PROVE  upto(n + 1)[n] = upto(n)[n]
  <2> DEFINE T == {k \in 0..n : upto(n + 1)[k] = upto(n)[k]}
  <2>1. 0 \in T
    BY <1>1 DEF Iterates
  <2>2. ASSUME NEW k \in 0..(n - 1), k \in T
        PROVE  k + 1 \in T
    <3>1. k + 1 \in 1..n /\ k + 1 \in 1..(n + 1) /\ (k + 1) - 1 = k /\ n + 1 \in Nat
      OBVIOUS
    <3>2. /\ upto(n)[k + 1] = step[<<k + 1, upto(n)[k]>>]
          /\ upto(n + 1)[k + 1] = step[<<k + 1, upto(n + 1)[k]>>]
      BY <1>1, <3>1 DEF Iterates
    <3> QED
      BY <2>2, <3>1, <3>2
  <2>3. 0..n \subseteq T
    <3> HIDE DEF T
    <3> QED
      BY <2>1, <2>2, InductiveInterval
  <2> QED
    BY <2>3
<1>3. g \in [Nat -> V]
  <2> SUFFICES ASSUME NEW n \in Nat PROVE upto(n)[n] \in V
    OBVIOUS
  <2> QED
    BY <1>1 DEF Iterates
<1>4. g[0] = first
  BY <1>1 DEF Iterates
<1>5. ASSUME NEW k \in Nat
      PROVE  g[k + 1] = step[<<k + 1, g[k]>>]
  <2>1. k + 1 \in Nat /\ k + 1 \in 1..(k + 1) /\ (k + 1) - 1 = k
    OBVIOUS
  <2>2. upto(k + 1)[k + 1] = step[<<k + 1, upto(k + 1)[k]>>]
    <3>1. \A j \in 1..(k + 1) : upto(k + 1)[j] = step[<<j, upto(k + 1)[j - 1]>>]
      BY <1>1, <2>1 DEF Iterates
    <3> QED
      BY <2>1, <3>1
  <2> QED
    BY <1>2, <2>1, <2>2
<1>6. IteratesOn(g, V, first, step)
  <2> HIDE DEF g
  <2> QED
    BY <1>3, <1>4, <1>5 DEF IteratesOn
<1> QED
  BY <1>6

-----------------------------------------------------------------------------
(* Sums *)

(* h sums f up over the subsets of D, taking out one element after another. *)
SumsUp(h, f, D) ==
    h = [s \in SUBSET D |->
           IF s = {} THEN 0
           ELSE LET x == CHOOSE x \in s : TRUE IN f[x] + h[s \ {x}]]

(* There is such a function.                                                *)
LEMMA SumExists ==
  ASSUME NEW D, IsFiniteSet(D), NEW f \in [D -> Nat]
  PROVE  \E h : SumsUp(h, f, D)
<1> DEFINE First(s) == CHOOSE x \in s : TRUE
           Good(h, s) == h[s] = IF s = {} THEN 0 ELSE f[First(s)] + h[s \ {First(s)}]
           T == {n \in Nat : \E h \in [SUBSET D -> Nat] :
                   \A s \in SUBSET D : Cardinality(s) <= n => Good(h, s)}
<1>0. \A s \in SUBSET D : /\ IsFiniteSet(s) /\ Cardinality(s) \in Nat
                          /\ Cardinality(s) <= Cardinality(D)
                          /\ Cardinality(s) = 0 <=> s = {}
  BY FS_Subset, FS_CardinalityType, FS_EmptySet
<1>1. \A s \in SUBSET D : s # {} =>
        /\ First(s) \in s /\ First(s) \in D
        /\ s \ {First(s)} \in SUBSET D
        /\ Cardinality(s \ {First(s)}) = Cardinality(s) - 1
  BY <1>0, FS_RemoveElement
<1> HIDE DEF First
<1>2. 0 \in T
  <2> DEFINE h == [s \in SUBSET D |-> 0]
  <2>1. h \in [SUBSET D -> Nat]
    OBVIOUS
  <2>2. \A s \in SUBSET D : Cardinality(s) <= 0 => Good(h, s)
    BY <1>0
  <2> HIDE DEF h, Good
  <2> QED
    BY <2>1, <2>2
<1>3. ASSUME NEW n \in Nat, n \in T
      PROVE  n + 1 \in T
  <2>1. PICK h \in [SUBSET D -> Nat] :
               \A s \in SUBSET D : Cardinality(s) <= n => Good(h, s)
    BY <1>3
  <2> DEFINE g == [s \in SUBSET D |-> IF s = {} THEN 0
                                      ELSE f[First(s)] + h[s \ {First(s)}]]
  <2>2. g \in [SUBSET D -> Nat]
    <3> SUFFICES ASSUME NEW s \in SUBSET D, s # {}
                 PROVE  f[First(s)] + h[s \ {First(s)}] \in Nat
      OBVIOUS
    <3>1. f[First(s)] \in Nat /\ h[s \ {First(s)}] \in Nat
      BY <1>1
    <3> QED
      BY <3>1
  <2>3. ASSUME NEW s \in SUBSET D, Cardinality(s) <= n
        PROVE  g[s] = h[s]
    BY <2>1, <2>3
  <2>4. ASSUME NEW s \in SUBSET D, Cardinality(s) <= n + 1
        PROVE  Good(g, s)
    <3>1. CASE s = {}
      BY <3>1
    <3>2. CASE s # {}
      <4>1. s \ {First(s)} \in SUBSET D /\ Cardinality(s \ {First(s)}) <= n
        BY <1>0, <1>1, <2>4, <3>2
      <4>2. g[s \ {First(s)}] = h[s \ {First(s)}]
        BY <2>3, <4>1
      <4> QED
        BY <3>2, <4>2
    <3> QED
      BY <3>1, <3>2
  <2> HIDE DEF g, Good
  <2> QED
    BY <2>2, <2>4
<1>4. Nat \subseteq T
  <2> HIDE DEF T
  <2> QED
    BY <1>2, <1>3, InductiveSet
<1>5. PICK h \in [SUBSET D -> Nat] : \A s \in SUBSET D : Good(h, s)
  <2>1. Cardinality(D) \in Nat
    BY FS_CardinalityType
  <2>2. Cardinality(D) \in T
    BY <1>4, <2>1
  <2> HIDE DEF Good
  <2> QED
    BY <1>0, <2>2
<1>6. SumsUp(h, f, D)
  BY <1>5 DEF SumsUp, First
<1> QED
  BY <1>6

(* The sums are about naturals on a finite set.                             *)
Naturals(f, D) == IsFiniteSet(D) /\ f \in [D -> Nat]

(* The elements may be taken out in any order.                              *)
AnyOrder(h, f, D) ==
    /\ h \in [SUBSET D -> Nat]
    /\ h[{}] = 0
    /\ \A s \in SUBSET D, y \in D : y \in s => h[s] = f[y] + h[s \ {y}]

LEMMA SumInAnyOrder ==
  ASSUME NEW D, NEW f, NEW h, Naturals(f, D), SumsUp(h, f, D)
  PROVE  AnyOrder(h, f, D)
<1> USE DEF Naturals, AnyOrder
<1> DEFINE First(s) == CHOOSE x \in s : TRUE
           Good(s) == /\ h[s] \in Nat
                      /\ \A y \in s : h[s] = f[y] + h[s \ {y}]
           T == {n \in Nat : \A s \in SUBSET D : Cardinality(s) <= n => Good(s)}
<1>0. \A s \in SUBSET D : /\ IsFiniteSet(s) /\ Cardinality(s) \in Nat
                          /\ Cardinality(s) <= Cardinality(D)
                          /\ Cardinality(s) = 0 <=> s = {}
  BY FS_Subset, FS_CardinalityType, FS_EmptySet
<1>1. ASSUME NEW s \in SUBSET D, NEW y \in s
      PROVE  /\ s \ {y} \in SUBSET D /\ y \in D /\ f[y] \in Nat
             /\ Cardinality(s \ {y}) = Cardinality(s) - 1
             /\ First(s) \in s
  BY <1>0, FS_RemoveElement
<1>2. /\ DOMAIN h = SUBSET D /\ h[{}] = 0
      /\ h = [s \in SUBSET D |-> h[s]]
      /\ \A s \in SUBSET D : s # {} => h[s] = f[First(s)] + h[s \ {First(s)}]
  BY DEF SumsUp
<1> HIDE DEF First
<1>3. 0 \in T
  <2>1. \A s \in SUBSET D : Cardinality(s) <= 0 => s = {}
    BY <1>0
  <2>2. Good({})
    BY <1>2
  <2> QED
    BY <2>1, <2>2
<1>4. ASSUME NEW n \in Nat, n \in T
      PROVE  n + 1 \in T
  <2>a. \A s \in SUBSET D : Cardinality(s) <= n => Good(s)
    BY <1>4
  <2> SUFFICES ASSUME NEW s \in SUBSET D, Cardinality(s) <= n + 1, s # {}
               PROVE  Good(s)
    <3>1. Good({})
      BY <1>2
    <3> HIDE DEF Good
    <3> QED
      BY <3>1
  <2>0. PICK x : x = First(s)
    OBVIOUS
  <2>1. /\ x \in s /\ h[s] = f[x] + h[s \ {x}]
        /\ s \ {x} \in SUBSET D /\ f[x] \in Nat /\ Cardinality(s \ {x}) <= n
        /\ h[s \ {x}] \in Nat
    <3>1. x \in s /\ h[s] = f[x] + h[s \ {x}]
      BY <1>1, <1>2, <2>0
    <3>2. s \ {x} \in SUBSET D /\ f[x] \in Nat /\ Cardinality(s \ {x}) <= n
      BY <1>0, <1>1, <3>1
    <3> QED
      BY <2>a, <3>1, <3>2
  <2>2. h[s] \in Nat
    BY <2>1
  <2>3. ASSUME NEW y \in s, y # x
        PROVE  h[s] = f[y] + h[s \ {y}]
    <3>1. PICK sx, sy, r : sx = s \ {x} /\ sy = s \ {y} /\ r = s \ {x, y}
      OBVIOUS
    <3>2. /\ sx \in SUBSET D /\ sy \in SUBSET D /\ f[y] \in Nat
          /\ y \in sx /\ x \in sy /\ sx \ {y} = r /\ sy \ {x} = r
          /\ Cardinality(sx) <= n /\ Cardinality(sy) <= n
      BY <1>0, <1>1, <2>1, <2>3, <3>1
    <3>3. h[sx] = f[y] + h[r] /\ h[sy] = f[x] + h[r]
      <4>1. Good(sx) /\ Good(sy)
        <5> HIDE DEF Good
        <5> QED
          BY <2>a, <3>2
      <4>2. h[sx] = f[y] + h[sx \ {y}] /\ h[sy] = f[x] + h[sy \ {x}]
        BY <3>2, <4>1
      <4> QED
        BY <3>2, <4>2
    <3>4. r \in SUBSET D /\ Cardinality(r) <= n
      <4>1. r \in SUBSET D /\ Cardinality(r) = Cardinality(sx) - 1
        BY <1>1, <3>2
      <4> QED
        BY <1>0, <3>2, <4>1
    <3>5. h[r] \in Nat
      BY <2>a, <3>4
    <3> QED
      BY <2>1, <3>1, <3>2, <3>3, <3>5
  <2> QED
    BY <2>1, <2>2, <2>3
<1>5. Nat \subseteq T
  <2> HIDE DEF T
  <2> QED
    BY <1>3, <1>4, InductiveSet
<1>6. \A s \in SUBSET D : Good(s)
  <2>1. Cardinality(D) \in T
    BY <1>5, FS_CardinalityType
  <2> QED
    BY <1>0, <2>1
<1> QED
  BY <1>2, <1>6

(* The sum of f over D is t.                                                *)
SumIs(f, D, t) == \E h : SumsUp(h, f, D) /\ t = h[D]

(* The sum of a set depends on the values of its own elements only.         *)
AgreeOn(f, g, S) == \A x \in S : f[x] = g[x]

LEMMA SumsAgree ==
  ASSUME NEW D, NEW E, NEW f, NEW g, NEW h, NEW k, NEW S,
         Naturals(f, D), Naturals(g, E), SumsUp(h, f, D), SumsUp(k, g, E),
         S \subseteq D, S \subseteq E, AgreeOn(f, g, S)
  PROVE  h[S] = k[S]
<1> USE DEF AgreeOn
<1> DEFINE T == {n \in Nat : \A s \in SUBSET S : Cardinality(s) <= n => h[s] = k[s]}
<1>0. \A s \in SUBSET S : /\ IsFiniteSet(s) /\ Cardinality(s) \in Nat
                          /\ Cardinality(s) <= Cardinality(S)
                          /\ Cardinality(s) = 0 <=> s = {}
  BY FS_Subset, FS_CardinalityType, FS_EmptySet DEF Naturals
<1>1. /\ h[{}] = 0 /\ k[{}] = 0
      /\ \A s \in SUBSET D, y \in D : y \in s => h[s] = f[y] + h[s \ {y}]
      /\ \A s \in SUBSET E, y \in E : y \in s => k[s] = g[y] + k[s \ {y}]
  <2>1. AnyOrder(h, f, D) /\ AnyOrder(k, g, E)
    BY SumInAnyOrder
  <2> QED
    BY <2>1 DEF AnyOrder
<1>2. 0 \in T
  <2>1. \A s \in SUBSET S : Cardinality(s) <= 0 => s = {}
    BY <1>0
  <2> QED
    BY <1>1, <2>1
<1>3. ASSUME NEW n \in Nat, n \in T
      PROVE  n + 1 \in T
  <2>1. \A s \in SUBSET S : Cardinality(s) <= n => h[s] = k[s]
    BY <1>3
  <2>2. ASSUME NEW s \in SUBSET S, Cardinality(s) <= n + 1
        PROVE  h[s] = k[s]
    <3>1. CASE s = {}
      BY <1>1, <3>1
    <3>2. CASE s # {}
      <4>1. PICK y \in s : TRUE
        BY <3>2
      <4>2. PICK r : r = s \ {y}
        OBVIOUS
      <4>3. r \in SUBSET S /\ Cardinality(r) <= n
        <5>1. r \in SUBSET S /\ Cardinality(r) = Cardinality(s) - 1
          BY <1>0, <4>2, FS_RemoveElement
        <5> QED
          BY <1>0, <2>2, <5>1
      <4>4. h[s] = f[y] + h[r] /\ k[s] = g[y] + k[r]
        BY <1>1, <4>2
      <4> QED
        BY <2>1, <4>3, <4>4
    <3> QED
      BY <3>1, <3>2
  <2> QED
    BY <2>2
<1>4. Nat \subseteq T
  <2> HIDE DEF T
  <2> QED
    BY <1>2, <1>3, InductiveSet
<1>5. S \in SUBSET S /\ Cardinality(S) \in T
  BY <1>0, <1>4
<1> QED
  BY <1>0, <1>5

(* One element more adds its value to the sum.                              *)
THEOREM SumGrows ==
  ASSUME NEW n \in Nat, NEW f, NEW g, NEW t, NEW u,
         f \in [1..n -> Nat], g \in [1..(n + 1) -> Nat],
         SumIs(f, 1..n, t), SumIs(g, 1..(n + 1), u),
         \A x \in 1..n : f[x] = g[x]
  PROVE  t \in Nat /\ u \in Nat /\ u = t + g[n + 1]
<1>0. PICK D, E : D = 1..n /\ E = 1..(n + 1)
  OBVIOUS
<1>1. PICK h, k : SumsUp(h, f, D) /\ t = h[D] /\ SumsUp(k, g, E) /\ u = k[E]
  BY <1>0 DEF SumIs
<1>2. Naturals(f, D) /\ Naturals(g, E)
  <2>1. IsFiniteSet(D) /\ IsFiniteSet(E)
    BY <1>0, FS_Interval
  <2> QED
    BY <1>0, <2>1 DEF Naturals
<1>3. /\ D \subseteq E /\ n + 1 \in E /\ E \ {n + 1} = D
      /\ g[n + 1] \in Nat /\ \A x \in D : f[x] = g[x]
  BY <1>0
<1>4. h[D] = k[D]
  <2>1. AgreeOn(f, g, D) /\ D \subseteq D
    BY <1>3 DEF AgreeOn
  <2> QED
    BY <1>1, <1>2, <1>3, <2>1, SumsAgree
<1>5. /\ h \in [SUBSET D -> Nat]
      /\ k \in [SUBSET E -> Nat]
      /\ \A s \in SUBSET E, y \in E : y \in s => k[s] = g[y] + k[s \ {y}]
  <2>1. AnyOrder(h, f, D) /\ AnyOrder(k, g, E)
    BY <1>1, <1>2, SumInAnyOrder
  <2> QED
    BY <2>1 DEF AnyOrder
<1>6. k[E] = g[n + 1] + k[E \ {n + 1}]
  BY <1>3, <1>5
<1>7. h[D] \in Nat /\ k[E] \in Nat /\ g[n + 1] \in Nat
  BY <1>3, <1>5
<1>8. k[E] = g[n + 1] + h[D]
  BY <1>3, <1>4, <1>6
<1> QED
  BY <1>1, <1>7, <1>8

(* A sum of naturals is one natural, and one only.                          *)
LEMMA SumIsNatural ==
  ASSUME NEW D, NEW f, NEW t, Naturals(f, D), SumIs(f, D, t)
  PROVE  t \in Nat
<1>1. PICK h : SumsUp(h, f, D) /\ t = h[D]
  BY DEF SumIs
<1>2. AnyOrder(h, f, D)
  BY <1>1, SumInAnyOrder
<1> QED
  BY <1>1, <1>2 DEF AnyOrder

LEMMA SumIsOne ==
  ASSUME NEW D, NEW f, NEW t, NEW u, Naturals(f, D), SumIs(f, D, t), SumIs(f, D, u)
  PROVE  t = u
<1>1. PICK h, k : SumsUp(h, f, D) /\ t = h[D] /\ SumsUp(k, f, D) /\ u = k[D]
  BY DEF SumIs
<1>2. AgreeOn(f, f, D) /\ D \subseteq D
  BY DEF AgreeOn
<1> QED
  BY <1>1, <1>2, SumsAgree

(* The same, when the longer sum is not known yet.                          *)
THEOREM SumWithNext ==
  ASSUME NEW n \in Nat, NEW f, NEW g, NEW t,
         f \in [1..n -> Nat], g \in [1..(n + 1) -> Nat],
         SumIs(f, 1..n, t), AgreeOn(f, g, 1..n)
  PROVE  t \in Nat /\ SumIs(g, 1..(n + 1), t + g[n + 1])
<1>0. PICK E : E = 1..(n + 1)
  OBVIOUS
<1>1. IsFiniteSet(E)
  BY <1>0, FS_Interval
<1>2. PICK k : SumsUp(k, g, E)
  BY <1>0, <1>1, SumExists
<1>3. PICK u : u = k[E]
  OBVIOUS
<1>4. SumIs(g, 1..(n + 1), u)
  BY <1>0, <1>2, <1>3 DEF SumIs
<1>5. t \in Nat /\ u = t + g[n + 1]
  BY <1>4, SumGrows DEF AgreeOn
<1> QED
  BY <1>4, <1>5

(* Appending p elements of value 1 adds p to a sum.                         *)
THEOREM SumWithOnes ==
  ASSUME NEW n \in Nat, NEW p \in Nat, NEW f, NEW g, NEW t,
         f \in [1..n -> Nat], g \in [1..(n + p) -> Nat],
         SumIs(f, 1..n, t), AgreeOn(f, g, 1..n),
         \A k \in 1..p : g[n + k] = 1
  PROVE  SumIs(g, 1..(n + p), t + p)
<1> DEFINE part(k) == [x \in 1..(n + k) |-> g[x]]
           S == {k \in 0..p : SumIs(part(k), 1..(n + k), t + k)}
<1>0. t \in Nat
  <2>1. IsFiniteSet(1..n)
    BY FS_Interval
  <2>2. PICK D : D = 1..n
    OBVIOUS
  <2>3. Naturals(f, D)
    BY <2>1, <2>2 DEF Naturals
  <2> QED
    BY <2>2, <2>3, SumIsNatural
<1>1. 0 \in S
  <2>1. part(0) = f /\ n + 0 = n
    BY DEF AgreeOn
  <2> HIDE DEF part
  <2> QED
    BY <1>0, <2>1
<1>2. ASSUME NEW k \in 0..(p - 1), k \in S
      PROVE  k + 1 \in S
  <2>1. PICK m, a, b, v : m = n + k /\ a = part(k) /\ b = part(k + 1) /\ v = t + k
    OBVIOUS
  <2>2. k \in Nat /\ m \in Nat /\ n + (k + 1) = m + 1 /\ v \in Nat /\ k + 1 \in 1..p
    BY <1>0, <1>2, <2>1
  <2>3. 1..m \subseteq 1..(n + p) /\ 1..(m + 1) \subseteq 1..(n + p)
    BY <2>1, <2>2
  <2>4. a \in [1..m -> Nat] /\ b \in [1..(m + 1) -> Nat] /\ AgreeOn(a, b, 1..m)
    BY <2>1, <2>2, <2>3 DEF AgreeOn
  <2>5. b[m + 1] = 1
    <3>1. g[n + (k + 1)] = 1
      BY <2>2
    <3>2. b[m + 1] = g[m + 1]
      BY <2>1, <2>2
    <3> QED
      BY <2>2, <3>1, <3>2
  <2>6. SumIs(a, 1..m, v)
    <3> HIDE DEF part
    <3> QED
      BY <1>2, <2>1
  <2>7. SumIs(b, 1..(m + 1), v + 1)
    <3>1. SumIs(b, 1..(m + 1), v + b[m + 1])
      BY <2>2, <2>4, <2>6, SumWithNext
    <3> QED
      BY <2>5, <3>1
  <2>8. v + 1 = t + (k + 1)
    BY <1>0, <2>1, <2>2
  <2> HIDE DEF part
  <2>9. SumIs(part(k + 1), 1..(n + (k + 1)), t + (k + 1))
    BY <2>1, <2>2, <2>7, <2>8
  <2> QED
    BY <2>2, <2>9
<1>3. p \in S
  <2> HIDE DEF S
  <2>1. 0..p \subseteq S
    BY <1>1, <1>2, InductiveInterval
  <2> QED
    BY <2>1
<1>4. part(p) = g
  OBVIOUS
<1> HIDE DEF part
<1> QED
  BY <1>3, <1>4

-----------------------------------------------------------------------------
(* Quotients *)

(* Arithmetic of quotients.                                                 *)
LEMMA QuotientIs ==
  ASSUME NEW a \in Nat, NEW d \in Nat, NEW q \in Nat, NEW r \in Nat,
         d > 0, r < d, a = d * q + r
  PROVE  a \div d = q /\ a % d = r
<1> DEFINE q2 == a \div d
           r2 == a % d
<1>1. q2 \in Nat /\ r2 \in Nat /\ r2 < d /\ a = d * q2 + r2
  OBVIOUS
<1> HIDE DEF q2, r2
<1>2. ASSUME NEW x \in Nat, NEW y \in Nat, x < y
      PROVE  d * x + d <= d * y
  <2>1. PICK z \in Nat : y = x + 1 + z
    <3> y - x - 1 \in Nat
      BY <1>2
    <3> QED
      BY <1>2
  <2>2. d * y = d * x + d + d * z /\ d * z \in Nat
    BY <2>1
  <2> QED
    BY <2>2
<1>3. ~(q2 < q)
  <2>1. q2 < q => d * q2 + d <= d * q
    BY <1>1, <1>2
  <2>2. d * q2 \in Nat /\ d * q \in Nat
    BY <1>1
  <2> QED
    BY <1>1, <2>1, <2>2
<1>4. ~(q < q2)
  <2>1. q < q2 => d * q + d <= d * q2
    BY <1>1, <1>2
  <2>2. d * q2 \in Nat /\ d * q \in Nat
    BY <1>1
  <2> QED
    BY <1>1, <2>1, <2>2
<1>5. q2 = q
  BY <1>1, <1>3, <1>4
<1>6. r2 = r
  <2> d * q \in Nat
    OBVIOUS
  <2> QED
    BY <1>1, <1>5
<1> QED
  BY <1>5, <1>6 DEF q2, r2

LEMMA Quotient ==
  ASSUME NEW a \in Nat, NEW d \in Nat, d > 0
  PROVE  /\ a \div d \in Nat /\ a % d \in Nat /\ a % d < d
         /\ a = d * (a \div d) + (a % d)
OBVIOUS

(* Dividing twice.                                                          *)
LEMMA QuotientTwice ==
  ASSUME NEW a \in Nat, NEW d \in Nat, NEW e \in Nat,
         d > 0, e > 0
  PROVE  (a \div d) \div e = a \div (d * e)
<1> DEFINE q == a \div d
           r == a % d
           q2 == q \div e
           r2 == q % e
<1>1. q \in Nat /\ r \in Nat /\ r < d /\ a = d * q + r
  BY Quotient
<1> HIDE DEF q, r
<1>2. q2 \in Nat /\ r2 \in Nat /\ r2 < e /\ q = e * q2 + r2
  BY <1>1, Quotient
<1> HIDE DEF q2, r2
<1> DEFINE rest == d * r2 + r
<1>3. a = (d * e) * q2 + rest
  <2>1. d * (e * q2 + r2) = (d * e) * q2 + d * r2
    BY <1>2
  <2> QED
    BY <1>1, <1>2, <2>1
<1>4. rest \in Nat /\ rest < d * e
  <2>1. d * r2 \in Nat /\ d * r2 + d = d * (r2 + 1)
    BY <1>2
  <2>2. PICK z \in Nat : e = r2 + 1 + z
    <3> e - r2 - 1 \in Nat
      BY <1>2
    <3> QED
      BY <1>2
  <2>3. d * e = d * r2 + d + d * z /\ d * z \in Nat
    BY <1>2, <2>2
  <2> QED
    BY <1>1, <2>1, <2>3
<1>5. d * e \in Nat /\ d * e > 0
  <2>1. PICK z \in Nat : e = 1 + z
    <3> e - 1 \in Nat
      OBVIOUS
    <3> QED
      OBVIOUS
  <2>2. d * e = d + d * z /\ d * z \in Nat
    BY <2>1
  <2> QED
    BY <2>2
<1> HIDE DEF rest
<1> DEFINE de == d * e
<1>6. a = de * q2 + rest /\ de \in Nat /\ de > 0 /\ rest < de
  BY <1>3, <1>4, <1>5
<1> HIDE DEF de
<1>7. a \div de = q2
  BY <1>2, <1>4, <1>6, QuotientIs
<1> QED
  BY <1>7 DEF q, q2, de
=============================================================================

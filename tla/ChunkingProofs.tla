--------------------------- MODULE ChunkingProofs ---------------------------
(***************************************************************************)
(* Proofs about Chunking, for every file, gear table and size limits: the  *)
(* positions tile the file with chunks of admissible size, and the loop    *)
(* that reads them skips and shortens none.                                *)
(***************************************************************************)
EXTENDS Chunking, Induction, SequenceTheorems

LEMMA Appended ==
  ASSUME NEW S, NEW s \in Seq(S), NEW e \in S, NEW t, t = Append(s, e)
  PROVE  /\ t \in Seq(S) /\ Len(t) = Len(s) + 1
         /\ \A j \in 1..Len(s) : t[j] = s[j]
         /\ t[Len(s) + 1] = e
  BY AppendProperties

ChunkingInv == TypeOK /\ SizesBounded /\ Tiles /\ FedWhole

(* The positions lie within what has been scanned.                          *)
LEMMA Positions ==
  ASSUME TypeOK, NEW k \in 1..Len(chunk_positions)
  PROVE  chunk_positions[k] \in 0..i
BY ElementOfSeq DEF TypeOK

(* The hash stays within its width.                                         *)
LEMMA HashWidth ==
  ASSUME TypeOK, i < Len(buffer)
  PROVE  NextHash \in 0..(HashSpan - 1)
<1>1. buffer[i + 1] \in Byte
  BY ElementOfSeq, LenProperties DEF TypeOK
<1>2. gearTable[buffer[i + 1]] \in Nat
  BY <1>1, ChunkingAssumption
<1>3. hash \div 2 \in Nat
  BY ChunkingAssumption DEF TypeOK
<1> QED
  BY <1>2, <1>3, ChunkingAssumption DEF NextHash

LEMMA InitChunking == Init => ChunkingInv
<1> SUFFICES ASSUME Init PROVE ChunkingInv
  OBVIOUS
<1>1. PICK l \in 0..MaxFile : buffer \in [1..l -> Byte]
  BY DEF Init
<1>2. buffer \in Seq(Byte) /\ Len(buffer) = l
  BY <1>1, ChunkingAssumption
<1>3. TypeOK
  BY <1>2, ChunkingAssumption DEF Init, TypeOK
<1>4. SizesBounded /\ Tiles /\ FedWhole
  BY <1>2 DEF Init, SizesBounded, Tiles, FedWhole
<1> QED
  BY <1>3, <1>4 DEF ChunkingInv

LEMMA StepExtend == ChunkingInv /\ Extend => ChunkingInv'
<1> SUFFICES ASSUME ChunkingInv, Extend PROVE ChunkingInv'
  OBVIOUS
<1>1. Len(buffer) \in Nat /\ i \in Nat /\ chunk_start \in Nat
  BY LenProperties DEF ChunkingInv, TypeOK
<1>2. i + 1 - chunk_start < MAX_CHUNK_SIZE /\ i + 1 # Len(buffer)
  BY <1>1, ChunkingAssumption DEF Extend, Boundary
<1>3. chunk_positions \in Seq(0..(i + 1))
  BY <1>1 DEF ChunkingInv, TypeOK
<1>4. TypeOK'
  BY <1>1, <1>2, <1>3, HashWidth DEF ChunkingInv, TypeOK, Extend
<1>5. (SizesBounded /\ Tiles /\ FedWhole)'
  BY <1>1, <1>2 DEF ChunkingInv, SizesBounded, Tiles, FedWhole, Extend
<1> QED
  BY <1>4, <1>5 DEF ChunkingInv

LEMMA StepCut == ChunkingInv /\ Cut => ChunkingInv'
<1> SUFFICES ASSUME ChunkingInv, Cut PROVE ChunkingInv'
  OBVIOUS
<1> DEFINE m == Len(chunk_positions)
<1>1. Len(buffer) \in Nat /\ i \in Nat /\ chunk_start \in 0..i /\ m \in Nat \ {0}
  BY LenProperties, EmptySeq DEF ChunkingInv, TypeOK
<1>2. chunk_positions \in Seq(0..(i + 1))
  BY <1>1 DEF ChunkingInv, TypeOK
<1>3. /\ chunk_positions' \in Seq(0..(i + 1)) /\ Len(chunk_positions') = m + 1
      /\ \A k \in 1..m : chunk_positions'[k] = chunk_positions[k]
      /\ chunk_positions'[m + 1] = i + 1
  <2>1. i + 1 \in 0..(i + 1) /\ chunk_positions' = Append(chunk_positions, i + 1)
    BY <1>1 DEF Cut
  <2> QED
    BY <1>2, <2>1, Appended
<1>4. chunk_positions' # << >>
  BY <1>1, <1>3
<1>5. TypeOK'
  <2>1. i' = i + 1 /\ hash' = 0 /\ chunk_start' = i + 1 /\ i < Len(buffer)
        /\ UNCHANGED <<buffer, n, fed>>
    BY DEF Cut
  <2>2. n' \in 1..Len(chunk_positions')
    BY <2>1, <1>1, <1>3 DEF ChunkingInv, TypeOK
  <2>3. hash' \in 0..(HashSpan - 1)
    BY <2>1, ChunkingAssumption
  <2>4. chunk_positions' \in Seq(0..i')
    BY <2>1, <1>3
  <2>5. i' \in 0..Len(buffer') /\ chunk_start' \in 0..i'
        /\ i' - chunk_start' < MAX_CHUNK_SIZE
    BY <2>1, <1>1, ChunkingAssumption
  <2>6. buffer' \in Seq(Byte) /\ fed' \in Seq(Seq(Byte))
    BY <2>1 DEF ChunkingInv, TypeOK
  <2> QED
    BY <2>2, <2>3, <2>4, <2>5, <2>6, <1>4 DEF TypeOK
<1>6. chunk_positions[m] = chunk_start
  BY DEF ChunkingInv, Tiles
<1>7. \A k \in 1..m : chunk_positions[k] \in 0..i
  BY Positions DEF ChunkingInv
<1>8. SizesBounded'
  <2> SUFFICES ASSUME NEW k \in 1..m
               PROVE  chunk_positions'[k + 1] - chunk_positions'[k]
                        \in 1..MAX_CHUNK_SIZE
    BY <1>1, <1>3 DEF SizesBounded
  <2>1. CASE k = m
    BY <2>1, <1>1, <1>3, <1>6, ChunkingAssumption DEF ChunkingInv, TypeOK
  <2>2. CASE k < m
    <3>1. k \in 1..(m - 1) /\ k \in 1..m /\ k + 1 \in 1..m
      BY <2>2, <1>1
    <3>2. chunk_positions[k + 1] - chunk_positions[k] \in 1..MAX_CHUNK_SIZE
      BY <3>1 DEF ChunkingInv, SizesBounded
    <3> QED
      BY <3>1, <3>2, <1>3
  <2> QED
    BY <1>1, <2>1, <2>2
<1>9. Tiles'
  <2>1. \A k \in 1..m : chunk_positions'[k] < chunk_positions'[k + 1]
    <3> SUFFICES ASSUME NEW k \in 1..m
                 PROVE  chunk_positions'[k] < chunk_positions'[k + 1]
      OBVIOUS
    <3>1. CASE k = m
      BY <3>1, <1>1, <1>3, <1>6
    <3>2. CASE k < m
      <4>1. k \in 1..(m - 1) /\ k \in 1..m /\ k + 1 \in 1..m
        BY <3>2, <1>1
      <4>2. chunk_positions[k] < chunk_positions[k + 1]
        BY <4>1 DEF ChunkingInv, Tiles
      <4> QED
        BY <4>1, <4>2, <1>3
    <3> QED
      BY <1>1, <3>1, <3>2
  <2> QED
    BY <2>1, <1>1, <1>3 DEF ChunkingInv, Tiles, Cut
<1>10. FedWhole'
  <2>1. UNCHANGED <<buffer, n, fed>>
    BY DEF Cut
  <2>2. n \in 1..m
    BY DEF ChunkingInv, TypeOK
  <2>3. \A k \in 1..(n - 1) :
          /\ chunk_positions'[k] = chunk_positions[k]
          /\ chunk_positions'[k + 1] = chunk_positions[k + 1]
    <3> SUFFICES ASSUME NEW k \in 1..(n - 1)
                 PROVE  /\ chunk_positions'[k] = chunk_positions[k]
                        /\ chunk_positions'[k + 1] = chunk_positions[k + 1]
      OBVIOUS
    <3>1. k \in 1..m /\ k + 1 \in 1..m
      BY <1>1, <2>2
    <3> QED
      BY <3>1, <1>3
  <2> QED
    BY <2>1, <2>3 DEF ChunkingInv, FedWhole
<1> QED
  BY <1>5, <1>8, <1>9, <1>10 DEF ChunkingInv

LEMMA StepFeed == ChunkingInv /\ Feed => ChunkingInv'
<1> SUFFICES ASSUME ChunkingInv, Feed PROVE ChunkingInv'
  OBVIOUS
<1> DEFINE start == chunk_positions[n]
           end   == chunk_positions[n + 1]
           chunk == SubSeq(buffer, start + 1, end)
<1>1. n \in 1..(Len(chunk_positions) - 1) /\ n + 1 \in 1..Len(chunk_positions)
  BY LenProperties DEF ChunkingInv, TypeOK, Feed
<1>2. start \in 0..i /\ end \in 0..i /\ i = Len(buffer)
  BY <1>1, Positions DEF ChunkingInv, Feed, TypeOK
<1>3. end - start \in 1..MAX_CHUNK_SIZE
  BY <1>1 DEF ChunkingInv, SizesBounded
<1>4. (end - start) % U16Span = end - start
  BY <1>3, ChunkingAssumption
<1>5. ValidSize(end - start) /\ start + (end - start) = end
  BY <1>2, <1>3, ChunkingAssumption DEF ValidSize
<1>6. fed' = Append(fed, chunk)
  BY <1>4, <1>5 DEF Feed
<1>7. chunk \in Seq(Byte)
  <2>1. \A k \in (start + 1)..end : buffer[k] \in Byte
    <3> SUFFICES ASSUME NEW k \in (start + 1)..end PROVE buffer[k] \in Byte
      OBVIOUS
    <3> HIDE DEF start, end
    <3>1. buffer \in Seq(Byte) /\ Len(buffer) \in Nat
      BY LenProperties DEF ChunkingInv, TypeOK
    <3>2. start \in Nat /\ end \in 0..Len(buffer)
      BY <1>2, <3>1
    <3>3. k \in 1..Len(buffer)
      BY <3>1, <3>2
    <3> QED
      BY <3>1, <3>3, ElementOfSeq
  <2>2. start + 1 \in Int /\ end \in Int
    BY <1>2
  <2> QED
    BY <2>1, <2>2, SubSeqProperties
<1>8. /\ fed' \in Seq(Seq(Byte)) /\ Len(fed') = Len(fed) + 1
      /\ \A k \in 1..Len(fed) : fed'[k] = fed[k]
      /\ fed'[Len(fed) + 1] = chunk
  <2> HIDE DEF chunk
  <2>1. fed \in Seq(Seq(Byte))
    BY DEF ChunkingInv, TypeOK
  <2> QED
    BY <2>1, <1>6, <1>7, Appended
<1>9. TypeOK'
  BY <1>1, <1>8 DEF ChunkingInv, TypeOK, Feed
<1>10. (SizesBounded /\ Tiles)'
  BY DEF ChunkingInv, SizesBounded, Tiles, Feed
<1>11. FedWhole'
  <2>1. Len(fed) = n - 1
    BY DEF ChunkingInv, FedWhole
  <2>2. Len(fed') = n' - 1
    BY <2>1, <1>1, <1>8 DEF Feed
  <2>3. \A k \in 1..n : fed'[k] = SubSeq(buffer, chunk_positions[k] + 1,
                                                 chunk_positions[k + 1])
    <3> SUFFICES ASSUME NEW k \in 1..n
                 PROVE  fed'[k] = SubSeq(buffer, chunk_positions[k] + 1,
                                                 chunk_positions[k + 1])
      OBVIOUS
    <3>1. CASE k = n
      BY <3>1, <2>1, <1>1, <1>8
    <3>2. CASE k < n
      <4>1. k \in 1..(n - 1)
        BY <3>2, <1>1
      <4> QED
        BY <4>1, <2>1, <1>8 DEF ChunkingInv, FedWhole
    <3> QED
      BY <1>1, <3>1, <3>2
  <2>4. n' - 1 = n
    BY <1>1 DEF Feed
  <2> QED
    BY <2>2, <2>3, <2>4 DEF FedWhole, Feed
<1> QED
  BY <1>9, <1>10, <1>11 DEF ChunkingInv

LEMMA StepChunking == ChunkingInv /\ [Next]_vars => ChunkingInv'
<1> SUFFICES ASSUME ChunkingInv, [Next]_vars PROVE ChunkingInv'
  OBVIOUS
<1>1. CASE Next
  BY <1>1, StepExtend, StepCut, StepFeed DEF Next
<1>2. CASE UNCHANGED vars
  BY <1>2 DEF vars, ChunkingInv, TypeOK, SizesBounded, Tiles, FedWhole
<1> QED
  BY <1>1, <1>2

THEOREM ChunkingCorrect == Spec => []ChunkingInv
<1> QED
  BY InitChunking, StepChunking, PTL DEF Spec

(* Every chunk has between one and MAX_CHUNK_SIZE bytes, whatever the       *)
(* content and however the hash falls: cdc.cpp never produces a chunk that  *)
(* process_packet would refuse or its uint16_t truncate.                    *)
THEOREM ChunkSizesBounded == Spec => []SizesBounded
<1>1. ChunkingInv => SizesBounded
  BY DEF ChunkingInv
<1> QED
  BY <1>1, ChunkingCorrect, PTL

(* The positions tile the file.                                             *)
THEOREM ChunksTile == Spec => []Tiles
<1>1. ChunkingInv => Tiles
  BY DEF ChunkingInv
<1> QED
  BY <1>1, ChunkingCorrect, PTL

(* Chunk by chunk, process_packet hands on exactly the bytes between two    *)
(* positions, and skips none.                                               *)
THEOREM ChunksFedWhole == Spec => []FedWhole
<1>1. ChunkingInv => FedWhole
  BY DEF ChunkingInv
<1> QED
  BY <1>1, ChunkingCorrect, PTL
-----------------------------------------------------------------------------
(* Chunks are defined by content *)

(* The hashes of the beginnings of a string.                                *)
Hashes(h, bytes) ==
    h = [k \in 0..Len(bytes) |->
           IF k = 0 THEN 0 ELSE (h[k - 1] \div 2 + gearTable[bytes[k]]) % HashSpan]

LEMMA HashesExist ==
  ASSUME NEW bytes \in Seq(Byte)
  PROVE  \E h \in [0..Len(bytes) -> 0..(HashSpan - 1)] : Hashes(h, bytes)
<1> DEFINE N == Len(bytes)
           V == 0..(HashSpan - 1)
           step == [p \in (1..N) \X V |->
                      (p[2] \div 2 + gearTable[bytes[p[1]]]) % HashSpan]
<1>1. N \in Nat /\ 0 \in V
  BY LenProperties, ChunkingAssumption
<1>2. ASSUME NEW k \in 1..N, NEW v \in V
      PROVE  (v \div 2 + gearTable[bytes[k]]) % HashSpan \in V
  <2>1. gearTable[bytes[k]] \in Nat
    BY ElementOfSeq, ChunkingAssumption
  <2>2. v \div 2 \in Nat
    BY ChunkingAssumption
  <2> QED
    BY <2>1, <2>2, ChunkingAssumption
<1>3. \A k \in 1..N, v \in V :
        /\ step[<<k, v>>] = (v \div 2 + gearTable[bytes[k]]) % HashSpan
        /\ step[<<k, v>>] \in V
  <2> SUFFICES ASSUME NEW k \in 1..N, NEW v \in V
               PROVE  step[<<k, v>>] = (v \div 2 + gearTable[bytes[k]]) % HashSpan
    BY <1>2
  <2> HIDE DEF N, V
  <2> QED
    OBVIOUS
<1>4. PICK h : Iterates(h, N, V, 0, step)
  <2> HIDE DEF N, V, step
  <2>1. IsStep(step, N, V)
    BY <1>3 DEF IsStep
  <2> QED
    BY <1>1, <2>1, PrimitiveRecursion
<1>5. \A k \in 1..N : h[k] = (h[k - 1] \div 2 + gearTable[bytes[k]]) % HashSpan
  <2> SUFFICES ASSUME NEW k \in 1..N
               PROVE  h[k] = (h[k - 1] \div 2 + gearTable[bytes[k]]) % HashSpan
    OBVIOUS
  <2>1. h[k - 1] \in V
    BY <1>1, <1>4 DEF Iterates
  <2> HIDE DEF step, N, V
  <2> QED
    BY <1>3, <1>4, <2>1 DEF Iterates
<1>6. \A k \in 0..N : h[k] = IF k = 0 THEN 0
                             ELSE (h[k - 1] \div 2 + gearTable[bytes[k]]) % HashSpan
  <2> HIDE DEF step, N, V
  <2>1. \A k \in 0..N : k # 0 => k \in 1..N
    BY <1>1
  <2> QED
    BY <1>4, <1>5, <2>1 DEF Iterates
<1> QED
  <2> HIDE DEF step
  <2> QED
    BY <1>4, <1>6 DEF Hashes, Iterates

LEMMA HashesAlike ==
  ASSUME NEW a, NEW b, NEW g, NEW h, Hashes(g, a), Hashes(h, b),
         NEW N \in Nat, Len(a) \in Nat, Len(b) \in Nat, N <= Len(a), N <= Len(b),
         \A k \in 1..N : a[k] = b[k]
  PROVE  \A k \in 0..N : g[k] = h[k]
<1> DEFINE S == {k \in 0..N : g[k] = h[k]}
<1>1. 0 \in S
  BY DEF Hashes
<1>2. ASSUME NEW k \in 0..(N - 1), k \in S
      PROVE  k + 1 \in S
  <2>1. /\ k + 1 \in 1..N /\ k + 1 \in 0..Len(a) /\ k + 1 \in 0..Len(b)
        /\ k + 1 # 0 /\ (k + 1) - 1 = k
    OBVIOUS
  <2>2. g[k + 1] = (g[k] \div 2 + gearTable[a[k + 1]]) % HashSpan
    BY <2>1 DEF Hashes
  <2>3. h[k + 1] = (h[k] \div 2 + gearTable[b[k + 1]]) % HashSpan
    BY <2>1 DEF Hashes
  <2> QED
    BY <1>2, <2>1, <2>2, <2>3
<1>3. 0..N \subseteq S
  <2> HIDE DEF S
  <2> QED
    BY <1>1, <1>2, InductiveInterval
<1> QED
  BY <1>3

(* HashOf is what its recursion says.                                       *)
LEMMA HashOfIs ==
  ASSUME NEW bytes \in Seq(Byte)
  PROVE  \E h : Hashes(h, bytes) /\ HashOf(bytes) = h[Len(bytes)]
<1>1. HashOf(bytes) = (CHOOSE h : Hashes(h, bytes))[Len(bytes)]
  BY DEF HashOf, Hashes
<1>2. \E h : Hashes(h, bytes)
  BY HashesExist
<1> QED
  BY <1>1, <1>2

LEMMA HashOfEmpty == HashOf(<< >>) = 0
<1>1. PICK h : Hashes(h, << >>) /\ HashOf(<< >>) = h[Len(<< >>)]
  BY HashOfIs, EmptySeq
<1> QED
  BY <1>1 DEF Hashes

LEMMA HashOfAppend ==
  ASSUME NEW bytes \in Seq(Byte), NEW b \in Byte
  PROVE  HashOf(Append(bytes, b)) = (HashOf(bytes) \div 2 + gearTable[b]) % HashSpan
<1> DEFINE longer == Append(bytes, b)
           N == Len(bytes)
<1>1. /\ longer \in Seq(Byte) /\ Len(longer) = N + 1 /\ N \in Nat
      /\ \A k \in 1..N : longer[k] = bytes[k]
      /\ longer[N + 1] = b
  BY Appended, LenProperties
<1> HIDE DEF longer
<1>2. PICK g : Hashes(g, bytes) /\ HashOf(bytes) = g[N]
  BY HashOfIs
<1>3. PICK h : Hashes(h, longer) /\ HashOf(longer) = h[N + 1]
  BY <1>1, HashOfIs
<1> HIDE DEF N
<1>4. g[N] = h[N]
  <2>1. \A k \in 0..N : g[k] = h[k]
    BY <1>1, <1>2, <1>3, HashesAlike DEF N
  <2> QED
    BY <1>1, <2>1
<1>5. h[N + 1] = (h[N] \div 2 + gearTable[b]) % HashSpan
  BY <1>1, <1>3 DEF Hashes
<1> QED
  BY <1>2, <1>3, <1>4, <1>5 DEF longer

(* The hash is that of the bytes since the chunk's start, and none of the   *)
(* places passed since was one to cut at.                                   *)
Scanned ==
    /\ hash = HashOf(SubSeq(buffer, chunk_start + 1, i))
    /\ \A e \in (chunk_start + 1)..i : ~IsCut(chunk_start, e)

ContentInv == Scanned /\ ContentDefined

(* The code's condition for a cut is the one on the content.                *)
LEMMA BoundaryIsCut ==
  ASSUME TypeOK, Scanned, i < Len(buffer)
  PROVE  /\ NextHash = HashOf(SubSeq(buffer, chunk_start + 1, i + 1))
         /\ Boundary(i + 1 - chunk_start) <=> IsCut(chunk_start, i + 1)
<1> DEFINE bytes == SubSeq(buffer, chunk_start + 1, i)
<1>1. buffer \in Seq(Byte) /\ Len(buffer) \in Nat /\ i \in Nat /\ chunk_start \in 0..i
  BY LenProperties DEF TypeOK
<1>2. \A k \in 1..Len(buffer) : buffer[k] \in Byte
  BY <1>1, ElementOfSeq
<1>3. bytes \in Seq(Byte)
  <2>1. \A k \in (chunk_start + 1)..i : buffer[k] \in Byte
    BY <1>1, <1>2
  <2>2. chunk_start + 1 \in Int /\ i \in Int
    BY <1>1
  <2> QED
    BY <2>1, <2>2, SubSeqProperties
<1>4. SubSeq(buffer, chunk_start + 1, i + 1) = Append(bytes, buffer[i + 1])
  <2>1. chunk_start + 1 \in 1..Len(buffer) /\ i + 1 \in (chunk_start + 1)..Len(buffer)
    BY <1>1
  <2>2. SubSeq(buffer, chunk_start + 1, i + 1)
          = Append(SubSeq(buffer, chunk_start + 1, i + 1 - 1), buffer[i + 1])
    BY <1>1, <2>1, SubSeqRecursiveSecond
  <2> QED
    BY <1>1, <2>2
<1>5. NextHash = HashOf(SubSeq(buffer, chunk_start + 1, i + 1))
  <2>1. buffer[i + 1] \in Byte
    BY <1>1, <1>2
  <2> HIDE DEF bytes
  <2>2. HashOf(Append(bytes, buffer[i + 1]))
          = (HashOf(bytes) \div 2 + gearTable[buffer[i + 1]]) % HashSpan
    BY <1>3, <2>1, HashOfAppend
  <2> QED
    BY <1>4, <2>2 DEF NextHash, Scanned, bytes
<1>6. Boundary(i + 1 - chunk_start) <=> IsCut(chunk_start, i + 1)
  <2> DEFINE hashed == HashOf(SubSeq(buffer, chunk_start + 1, i + 1))
             width == i + 1 - chunk_start
  <2>1. NextHash = hashed
    BY <1>5
  <2> HIDE DEF hashed, width
  <2>2. Boundary(width) <=> \/ hashed % MODULUS = TARGET /\ width >= MIN_CHUNK_SIZE
                          \/ width >= MAX_CHUNK_SIZE
                          \/ i + 1 = Len(buffer)
    BY <2>1 DEF Boundary
  <2>3. IsCut(chunk_start, i + 1)
          <=> \/ hashed % MODULUS = TARGET /\ width >= MIN_CHUNK_SIZE
              \/ width >= MAX_CHUNK_SIZE
              \/ i + 1 = Len(buffer)
    <3>1. PICK end, start : end = i + 1 /\ start = chunk_start
      OBVIOUS
    <3>2. IsCut(start, end)
            <=> \/ HashOf(SubSeq(buffer, start + 1, end)) % MODULUS = TARGET
                     /\ end - start >= MIN_CHUNK_SIZE
                \/ end - start >= MAX_CHUNK_SIZE
                \/ end = Len(buffer)
      BY DEF IsCut
    <3>3. /\ hashed = HashOf(SubSeq(buffer, start + 1, end)) /\ width = end - start
          /\ IsCut(chunk_start, i + 1) <=> IsCut(start, end)
      BY <1>1, <3>1 DEF hashed, width
    <3>4. width \in Int
      BY <1>1 DEF width
    <3> QED
      BY <1>1, <3>1, <3>2, <3>3, <3>4, ChunkingAssumption
  <2>4. Boundary(width) <=> IsCut(chunk_start, i + 1)
    BY <2>2, <2>3
  <2> QED
    BY <2>4 DEF width
<1> QED
  BY <1>5, <1>6

LEMMA StepContent ==
  ChunkingInv /\ ContentInv /\ [Next]_vars => ContentInv'
<1> SUFFICES ASSUME ChunkingInv, ContentInv, [Next]_vars
             PROVE  ContentInv'
  OBVIOUS
<1> DEFINE m == Len(chunk_positions)
<1>0. /\ i \in Nat /\ chunk_start \in 0..i /\ m \in Nat \ {0} /\ Len(buffer) \in Nat
      /\ chunk_positions \in Seq(0..i) /\ i <= Len(buffer)
  BY LenProperties, EmptySeq DEF ChunkingInv, TypeOK
<1>1. CASE Extend
  <2>1. /\ i < Len(buffer) /\ ~Boundary(i + 1 - chunk_start)
        /\ i' = i + 1 /\ hash' = NextHash
        /\ UNCHANGED <<buffer, chunk_start, chunk_positions>>
    BY <1>1 DEF Extend
  <2>2. /\ NextHash = HashOf(SubSeq(buffer, chunk_start + 1, i + 1))
        /\ ~IsCut(chunk_start, i + 1)
    BY <2>1, BoundaryIsCut DEF ChunkingInv, ContentInv
  <2>3. \A e \in (chunk_start + 1)..(i + 1) : ~IsCut(chunk_start, e)
    BY <1>0, <2>2 DEF ContentInv, Scanned
  <2>4. Scanned'
    BY <2>1, <2>2, <2>3 DEF Scanned, IsCut
  <2>5. ContentDefined'
    BY <2>1 DEF ContentInv, ContentDefined, IsCut
  <2> QED
    BY <2>4, <2>5 DEF ContentInv
<1>2. CASE Cut
  <2>1. /\ i < Len(buffer) /\ Boundary(i + 1 - chunk_start)
        /\ i' = i + 1 /\ hash' = 0 /\ chunk_start' = i + 1
        /\ chunk_positions' = Append(chunk_positions, i + 1)
        /\ UNCHANGED buffer
    BY <1>2 DEF Cut
  <2>2. IsCut(chunk_start, i + 1)
    BY <2>1, BoundaryIsCut DEF ChunkingInv, ContentInv
  <2>3. /\ Len(chunk_positions') = m + 1
        /\ \A k \in 1..m : chunk_positions'[k] = chunk_positions[k]
        /\ chunk_positions'[m + 1] = i + 1
    <3>1. chunk_positions \in Seq(0..(i + 1)) /\ i + 1 \in 0..(i + 1)
      BY <1>0
    <3> QED
      BY <2>1, <3>1, Appended
  <2>4. chunk_positions[m] = chunk_start
    BY DEF ChunkingInv, Tiles
  <2>5. Scanned'
    <3>1. SubSeq(buffer, (i + 1) + 1, i + 1) = << >>
      BY <1>0, SubSeqEmpty
    <3>2. (i + 1 + 1)..(i + 1) = {}
      BY <1>0
    <3> QED
      BY <2>1, <3>1, <3>2, HashOfEmpty DEF Scanned
  <2>6. \A s, e : IsCut(s, e)' <=> IsCut(s, e)
    BY <2>1 DEF IsCut
  <2>7. ASSUME NEW k \in 1..m
        PROVE  /\ IsCut(chunk_positions'[k], chunk_positions'[k + 1])
               /\ \A e \in (chunk_positions'[k] + 1)..(chunk_positions'[k + 1] - 1) :
                    ~IsCut(chunk_positions'[k], e)
    <3>1. CASE k = m
      <4>1. chunk_positions'[k] = chunk_start /\ chunk_positions'[k + 1] = i + 1
        BY <1>0, <2>3, <2>4, <3>1
      <4>2. \A e \in (chunk_start + 1)..(i + 1 - 1) : ~IsCut(chunk_start, e)
        BY <1>0 DEF ContentInv, Scanned
      <4>3. IsCut(chunk_positions'[k], chunk_positions'[k + 1])
        BY <2>2, <4>1
      <4>4. \A e \in (chunk_positions'[k] + 1)..(chunk_positions'[k + 1] - 1) :
              ~IsCut(chunk_positions'[k], e)
        <5>1. PICK s : s = chunk_start
          OBVIOUS
        <5>2. \A e \in (s + 1)..(i + 1 - 1) : ~IsCut(s, e)
          BY <4>2, <5>1
        <5> QED
          BY <1>0, <4>1, <5>1, <5>2
      <4> QED
        BY <4>3, <4>4
    <3>2. CASE k # m
      <4>1. k \in 1..(m - 1) /\ k + 1 \in 1..m
        BY <1>0, <3>2
      <4>2. /\ chunk_positions'[k] = chunk_positions[k]
            /\ chunk_positions'[k + 1] = chunk_positions[k + 1]
        BY <2>3, <4>1
      <4> QED
        BY <4>1, <4>2 DEF ContentInv, ContentDefined
    <3> QED
      BY <3>1, <3>2
  <2>8. ContentDefined'
    <3>1. Len(chunk_positions') - 1 = m
      BY <1>0, <2>3
    <3> HIDE DEF m
    <3> QED
      BY <2>1, <2>7, <3>1 DEF ContentDefined, IsCut
  <2> QED
    BY <2>5, <2>8 DEF ContentInv
<1>3. CASE Feed
  BY <1>3 DEF Feed, ContentInv, Scanned, ContentDefined, IsCut
<1>4. CASE UNCHANGED vars
  BY <1>4 DEF vars, ContentInv, Scanned, ContentDefined, IsCut
<1> QED
  BY <1>1, <1>2, <1>3, <1>4 DEF Next

LEMMA InitContent == Init => ContentInv
<1> SUFFICES ASSUME Init PROVE ContentInv
  OBVIOUS
<1>1. i = 0 /\ hash = 0 /\ chunk_start = 0 /\ chunk_positions = <<0>>
  BY DEF Init
<1>2. SubSeq(buffer, 0 + 1, 0) = << >>
  BY SubSeqEmpty
<1>3. Scanned
  <2>1. hash = HashOf(SubSeq(buffer, chunk_start + 1, i))
    BY <1>1, <1>2, HashOfEmpty
  <2>2. (chunk_start + 1)..i = {}
    BY <1>1
  <2> QED
    BY <2>1, <2>2 DEF Scanned
<1>4. ContentDefined
  <2>1. Len(chunk_positions) = 1
    BY <1>1
  <2> QED
    BY <2>1 DEF ContentDefined
<1> QED
  BY <1>3, <1>4 DEF ContentInv

(* A chunk ends where the content since its start says so, and nowhere      *)
(* before: the running hash of content_defined_chunking, which it sets to 0 *)
(* at each cut, is the hash of just these bytes.                            *)
THEOREM ChunksContentDefined == Spec => []ContentDefined
<1>1. ContentInv => ContentDefined
  BY DEF ContentInv
<1> QED
  BY <1>1, InitContent, StepContent, ChunkingCorrect, PTL DEF Spec
=============================================================================

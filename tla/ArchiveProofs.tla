--------------------------- MODULE ArchiveProofs ---------------------------
(***************************************************************************)
(* Proofs about Archive, for every set of chunks, every bound, with or     *)
(* without failing kernels and short writes: the invariant of              *)
(* ArchiveInvariant is inductive, and from it follow the properties that   *)
(* TLC checks on a small instance.                                         *)
(***************************************************************************)
EXTENDS ArchiveInvariant, Induction, SequenceTheorems

-----------------------------------------------------------------------------
(* Headers *)

(* The header of a block says that it is one, and how long: no size that    *)
(* the encoder can produce wraps or loses a bit.                            *)
LEMMA HeaderOfSize ==
  ASSUME NEW size \in 0..MaxPacked
  PROVE  /\ SizeHeader(size) \in 0..(HeaderSpan - 1)
         /\ IsBlock(SizeHeader(size))
         /\ Operand(SizeHeader(size)) = size
<1>1. 2 * size \in 0..(HeaderSpan - 1)
  BY FormatAssumption
<1>2. SizeHeader(size) = 2 * size
  BY <1>1, FormatAssumption DEF SizeHeader
<1> QED
  BY <1>1, <1>2 DEF IsBlock, Operand

(* The header of a reference says that it is one, and to which block.       *)
LEMMA HeaderOfIndex ==
  ASSUME NEW index \in 0..(MaxChunks - 1)
  PROVE  /\ IndexHeader(index) \in 0..(HeaderSpan - 1)
         /\ ~IsBlock(IndexHeader(index))
         /\ Operand(IndexHeader(index)) = index
<1>1. 2 * index + 1 \in 0..(HeaderSpan - 1)
  BY FormatAssumption
<1>2. IndexHeader(index) = 2 * index + 1
  BY <1>1, FormatAssumption DEF IndexHeader
<1> QED
  BY <1>1, <1>2 DEF IsBlock, Operand

-----------------------------------------------------------------------------
(* Sequences and types *)

LEMMA Appended ==
  ASSUME NEW S, NEW s \in Seq(S), NEW e \in S, NEW t, t = Append(s, e)
  PROVE  /\ t \in Seq(S) /\ Len(t) = Len(s) + 1
         /\ \A j \in 1..Len(s) : t[j] = s[j]
         /\ t[Len(s) + 1] = e
  BY AppendProperties

LEMMA Joined ==
  ASSUME NEW S, NEW s \in Seq(S), NEW e \in Seq(S), NEW t, t = s \o e
  PROVE  /\ t \in Seq(S) /\ Len(t) = Len(s) + Len(e)
         /\ \A j \in 1..Len(s) : t[j] = s[j]
         /\ \A j \in 1..Len(e) : t[Len(s) + j] = e[j]
  BY ConcatProperties, LenProperties

Mark == [at : Nat \ {0}, seen : Nat]

(* What the type invariant says of the members of each sequence.            *)
LEMMA Members ==
  ASSUME TypeOK
  PROVE  /\ i \in Nat \ {0} /\ Len(file) \in 0..MaxChunks /\ i <= Len(file) + 1
         /\ \A j \in 1..Len(file) : /\ file[j] \in Chunk
                                    /\ PackedSize[file[j]] \in 1..MaxPacked
                                    /\ Length[file[j]] \in Nat
         /\ MaxPacked \in Nat /\ MaxChunks \in Nat
         /\ Len(output_data) \in Nat /\ Len(disk) \in Nat
         /\ Len(mark) = i /\ mark \in Seq(Mark)
         /\ \A j \in 1..i : mark[j].at \in Nat \ {0} /\ mark[j].seen \in Nat
         /\ Len(Chunks) \in Nat /\ Len(Output) \in Nat
         /\ lzw_chunk_index \in 0..Len(file)
         /\ pos \in Nat \ {0} /\ pos <= Len(disk) + 1
<1>1. /\ Len(file) \in Nat /\ Len(output_data) \in Nat /\ Len(disk) \in Nat
      /\ Len(Chunks) \in Nat /\ Len(Output) \in Nat
  BY LenProperties DEF TypeOK
<1>2. i \in Nat \ {0} /\ Len(file) \in 0..MaxChunks /\ i <= Len(file) + 1
  BY <1>1 DEF TypeOK
<1>3. ASSUME NEW j \in 1..Len(file)
      PROVE  /\ file[j] \in Chunk
             /\ PackedSize[file[j]] \in 1..MaxPacked
             /\ Length[file[j]] \in Nat
  BY ElementOfSeq, FormatAssumption DEF TypeOK
<1>4. mark \in Seq(Mark) /\ Len(mark) = i
  BY DEF TypeOK, Mark
<1>5. ASSUME NEW j \in 1..i
      PROVE  mark[j].at \in Nat \ {0} /\ mark[j].seen \in Nat
  <2>1. mark[j] \in Mark
    BY <1>4, ElementOfSeq
  <2> QED BY <2>1 DEF Mark
<1> QED
  BY <1>1, <1>2, <1>3, <1>4, <1>5, FormatAssumption DEF TypeOK

-----------------------------------------------------------------------------
(* The initial state *)

LEMMA InitInv == Init => ArchiveInv
<1> SUFFICES ASSUME Init PROVE ArchiveInv
  OBVIOUS
<1> USE DEF Init, EncInit, DecInit
<1>1. file \in Seq(Chunk) /\ Len(file) \in 0..MaxChunks
  BY FormatAssumption
<1>2. DOMAIN chunk_hash_map = {}
  OBVIOUS
<1>3. TypeOK
  BY <1>1, <1>2, FormatAssumption DEF TypeOK, Stats, Cell
<1>4. EncoderInv
  BY <1>2 DEF EncoderInv, IndicesDiffer, Known
<1>5. DecoderInv
  BY DEF DecoderInv, InTurn, Restored, IndexAgreement
<1>6. PhaseInv
  BY DEF PhaseInv
<1> QED
  BY <1>3, <1>4, <1>5, <1>6 DEF ArchiveInv

-----------------------------------------------------------------------------
(* The encoder's steps *)

(* What every encoder step does to the stream and to the marks.             *)
LEMMA Emitted ==
  ASSUME TypeOK, NEW cells \in Seq(Cell), Emit(cells),
         lzw_chunk_index' \in Nat
  PROVE  /\ output_data' \in Seq(Cell)
         /\ Len(output_data') = Len(output_data) + Len(cells)
         /\ \A k \in 1..Len(output_data) : output_data'[k] = output_data[k]
         /\ \A k \in 1..Len(cells) :
              output_data'[Len(output_data) + k] = cells[k]
         /\ mark' \in Seq(Mark) /\ Len(mark') = i + 1
         /\ \A j \in 1..i : mark'[j] = mark[j]
         /\ mark'[i + 1] = [at   |-> Len(output_data) + Len(cells) + 1,
                            seen |-> lzw_chunk_index']
         /\ i' = i + 1 /\ file' = file
<1> DEFINE m == [at   |-> Len(output_data) + Len(cells) + 1,
                 seen |-> lzw_chunk_index']
<1>1. output_data \in Seq(Cell) /\ mark \in Seq(Mark) /\ Len(mark) = i
  BY Members DEF TypeOK
<1>2. Len(output_data) \in Nat /\ Len(cells) \in Nat
  BY Members, LenProperties
<1>3. m \in Mark
  BY <1>2 DEF Mark
<1>4. /\ output_data' \in Seq(Cell)
      /\ Len(output_data') = Len(output_data) + Len(cells)
      /\ \A k \in 1..Len(output_data) : output_data'[k] = output_data[k]
      /\ \A k \in 1..Len(cells) : output_data'[Len(output_data) + k] = cells[k]
  BY <1>1, Joined DEF Emit
<1>5. mark' = Append(mark, m)
  BY DEF Emit
<1> HIDE DEF m
<1>6. /\ mark' \in Seq(Mark) /\ Len(mark') = i + 1
      /\ \A j \in 1..i : mark'[j] = mark[j]
      /\ mark'[i + 1] = m
  BY <1>1, <1>3, <1>5, Appended
<1> QED
  BY <1>4, <1>6 DEF Emit, m

(* Entries already in the stream stay what they are while the map grows.    *)
LEMMA OldEntriesStay ==
  ASSUME ArchiveInv, NEW cells \in Seq(Cell), Emit(cells),
         lzw_chunk_index' \in Nat,
         \A d \in DOMAIN chunk_hash_map :
           /\ d \in DOMAIN chunk_hash_map'
           /\ chunk_hash_map'[d] = chunk_hash_map[d]
  PROVE  \A j \in 1..(i - 1) : Entry(j)'
<1> SUFFICES ASSUME NEW j \in 1..(i - 1) PROVE Entry(j)'
  OBVIOUS
<1>1. TypeOK /\ Entry(j)
  BY DEF ArchiveInv, EncoderInv
<1>2. /\ i \in Nat /\ j \in 1..i /\ j + 1 \in 1..i /\ j \in 1..Len(file)
      /\ Len(output_data) \in Nat /\ Len(cells) \in Nat
  BY <1>1, Members, LenProperties
<1>3. /\ Len(output_data') = Len(output_data) + Len(cells)
      /\ \A k \in 1..Len(output_data) : output_data'[k] = output_data[k]
      /\ mark'[j] = mark[j] /\ mark'[j + 1] = mark[j + 1]
      /\ file' = file
  BY <1>1, <1>2, Emitted
<1>4. Known(SHA[file[j]])' /\ IndexOf(file[j])' = IndexOf(file[j])
  BY <1>1, <1>3 DEF Entry, Known, IndexOf
<1>5. /\ mark[j].at \in 1..Len(output_data)
      /\ mark[j + 1].at <= Len(output_data) + 1
      /\ mark[j + 1].at \in Nat
  BY <1>1, <1>2, Members DEF Entry
<1>6. PackedSize[file[j]] \in 1..MaxPacked /\ MaxPacked \in Nat
  BY <1>1, <1>2, Members
<1>7. ASSUME IsNew(j) PROVE IsNew(j)'
  <2>1. \A k \in 1..PackedSize[file[j]] : mark[j].at + k \in 1..Len(output_data)
    <3>1. PICK a, p, b, n : /\ a = mark[j].at /\ p = PackedSize[file[j]]
                            /\ b = mark[j + 1].at /\ n = Len(output_data)
      OBVIOUS
    <3>2. a \in Nat \ {0} /\ p \in Nat /\ b \in Nat /\ n \in Nat
      BY <1>2, <1>5, <1>6, <3>1
    <3>3. b = a + p + 1 /\ b <= n + 1
      BY <1>5, <1>7, <3>1 DEF IsNew
    <3>4. \A k \in 1..p : a + k \in 1..n
      BY <3>2, <3>3
    <3> QED BY <3>1, <3>4
  <2> QED
    BY <1>3, <1>4, <1>5, <1>7, <2>1 DEF IsNew
<1>8. ASSUME IsFailed(j) PROVE IsFailed(j)'
  BY <1>3, <1>5, <1>8 DEF IsFailed, Alone
<1>9. ASSUME IsDuplicate(j) PROVE IsDuplicate(j)'
  BY <1>3, <1>4, <1>5, <1>9 DEF IsDuplicate, Alone
<1>10. /\ mark'[j].at \in 1..Len(output_data')
       /\ mark'[j + 1].at <= Len(output_data') + 1
  BY <1>2, <1>3, <1>5
<1> QED
  BY <1>1, <1>4, <1>7, <1>8, <1>9, <1>10 DEF Entry

(* What an encoder step must show about its own entry, given that its map   *)
(* only grew.                                                               *)
LEMMA EncoderStep ==
  ASSUME ArchiveInv, phase = "encode", UNCHANGED <<decVars, phase>>,
         i <= Len(file), NEW cells \in Seq(Cell), Emit(cells),
         lzw_chunk_index' \in {lzw_chunk_index, lzw_chunk_index + 1},
         stats' \in Stats,
         DOMAIN chunk_hash_map' \subseteq {SHA[c] : c \in Chunk},
         \A d \in DOMAIN chunk_hash_map' :
           chunk_hash_map'[d] \in 0..(lzw_chunk_index' - 1),
         \A d \in DOMAIN chunk_hash_map :
           /\ d \in DOMAIN chunk_hash_map'
           /\ chunk_hash_map'[d] = chunk_hash_map[d],
         IndicesDiffer', NEW n \in Nat, n = i, Entry(n)'
  PROVE  ArchiveInv'
<1>1. TypeOK /\ EncoderInv /\ DecoderInv /\ PhaseInv
  BY DEF ArchiveInv
<1>2. /\ i \in Nat \ {0} /\ lzw_chunk_index \in Nat /\ lzw_chunk_index <= i - 1
      /\ Len(output_data) \in Nat /\ Len(cells) \in Nat
      /\ Len(file) \in Nat
  BY <1>1, Members, LenProperties DEF EncoderInv
<1>3. /\ lzw_chunk_index' \in Nat /\ lzw_chunk_index' <= i
      /\ lzw_chunk_index' \in 0..Len(file)
  BY <1>2
<1>4. /\ output_data' \in Seq(Cell)
      /\ Len(output_data') = Len(output_data) + Len(cells)
      /\ mark' \in Seq(Mark) /\ Len(mark') = i + 1
      /\ \A j \in 1..i : mark'[j] = mark[j]
      /\ mark'[i + 1] = [at   |-> Len(output_data) + Len(cells) + 1,
                         seen |-> lzw_chunk_index']
      /\ i' = i + 1 /\ file' = file
  BY <1>1, <1>3, Emitted
<1>5. TypeOK'
  BY <1>1, <1>2, <1>3, <1>4 DEF TypeOK, decVars, Mark
<1>6. EncoderInv'
  <2>1. \A j \in 1..(i - 1) : Entry(j)'
    BY <1>3, OldEntriesStay
  <2>2. \A j \in 1..(i' - 1) : Entry(j)'
    <3> SUFFICES ASSUME NEW j \in 1..(i' - 1) PROVE Entry(j)'
      OBVIOUS
    <3>1. CASE j \in 1..(i - 1)
      BY <2>1, <3>1
    <3>2. CASE j = n
      BY <3>2 DEF Entry, IsNew, IsFailed, IsDuplicate, Alone, IndexOf, Known
    <3> QED
      BY <1>2, <1>4, <3>1, <3>2
  <2>3. mark'[1] = mark[1]
    BY <1>2, <1>4
  <2>4. mark'[i'].at = Len(output_data') + 1 /\ mark'[i'].seen = lzw_chunk_index'
    BY <1>4
  <2>5. mark'[1].at = 1 /\ mark'[1].seen = 0 /\ lzw_chunk_index' <= i' - 1
    BY <1>1, <1>2, <1>3, <1>4, <2>3 DEF EncoderInv
  <2> QED
    BY <2>2, <2>4, <2>5 DEF EncoderInv
<1>7. DecoderInv'
  <2>1. total_chunks_in_header = 0 /\ InTurn
    BY <1>1 DEF PhaseInv, DecoderInv, CutShort
  <2>2. mark'[total_chunks_in_header + 1] = mark[total_chunks_in_header + 1]
    BY <1>2, <1>4, <2>1
  <2>3. IndexAgreement'
    BY <2>1 DEF InTurn, IndexAgreement, Known, decVars
  <2>4. InTurn'
    BY <1>1, <1>2, <1>4, <2>1, <2>2, <2>3 DEF InTurn, Restored, decVars
  <2> QED
    BY <1>1, <2>4 DEF DecoderInv, decVars
<1>8. PhaseInv'
  BY <1>1, <1>4 DEF PhaseInv, decVars
<1> QED
  BY <1>5, <1>6, <1>7, <1>8 DEF ArchiveInv

LEMMA HeaderCell ==
  ASSUME NEW h \in 0..(HeaderSpan - 1)
  PROVE  Header(h) \in Cell /\ <<Header(h)>> \in Seq(Cell)
  BY DEF Header, Cell

LEMMA BlockCells ==
  ASSUME NEW c \in Chunk
  PROVE  /\ PackedSize[c] \in Nat
         /\ Block(c) \in Seq(Cell)
         /\ Len(Block(c)) = PackedSize[c]
         /\ \A k \in 1..PackedSize[c] : Block(c)[k] = Packed(c, k)
<1>1. PackedSize[c] \in 1..MaxPacked /\ PackedSize[c] \in Nat
  BY FormatAssumption
<1>2. \A k \in 1..PackedSize[c] : Packed(c, k) \in Cell
  BY <1>1, FormatAssumption DEF Packed, Cell
<1>3. Block(c) \in [1..PackedSize[c] -> Cell]
  BY <1>2 DEF Block
<1> QED
  BY <1>1, <1>3 DEF Block

(* The cells of a new chunk: its header and then its block.                 *)
LEMMA NewCells ==
  ASSUME NEW c \in Chunk, NEW cells,
         cells = <<Header(SizeHeader(PackedSize[c]))>> \o Block(c)
  PROVE  /\ cells \in Seq(Cell) /\ Len(cells) = PackedSize[c] + 1
         /\ cells[1] = Header(SizeHeader(PackedSize[c]))
         /\ \A k \in 1..PackedSize[c] : cells[k + 1] = Packed(c, k)
<1>1. PackedSize[c] \in 0..MaxPacked /\ PackedSize[c] \in Nat
  BY FormatAssumption
<1>2. PICK a, b : /\ a = <<Header(SizeHeader(PackedSize[c]))>>
                  /\ b = Block(c)
  OBVIOUS
<1>3. /\ a \in Seq(Cell) /\ Len(a) = 1
      /\ a[1] = Header(SizeHeader(PackedSize[c]))
  BY <1>1, <1>2, HeaderOfSize, HeaderCell
<1>4. /\ b \in Seq(Cell) /\ Len(b) = PackedSize[c]
      /\ \A k \in 1..PackedSize[c] : b[k] = Packed(c, k)
  BY <1>2, BlockCells
<1>5. /\ cells \in Seq(Cell) /\ Len(cells) = Len(a) + Len(b)
      /\ \A k \in 1..Len(a) : cells[k] = a[k]
      /\ \A k \in 1..Len(b) : cells[Len(a) + k] = b[k]
  <2>1. PICK t : t = a \o b
    OBVIOUS
  <2>2. /\ t \in Seq(Cell) /\ Len(t) = Len(a) + Len(b)
        /\ \A k \in 1..Len(a) : t[k] = a[k]
        /\ \A k \in 1..Len(b) : t[Len(a) + k] = b[k]
    <3>1. a \in Seq(Cell) /\ b \in Seq(Cell)
      BY <1>3, <1>4
    <3> QED
      BY <2>1, <3>1, Joined
  <2>3. cells = t
    BY <1>2, <2>1
  <2> QED
    BY <2>2, <2>3
<1>6. Len(cells) = PackedSize[c] + 1 /\ cells[1] = a[1]
  BY <1>1, <1>3, <1>4, <1>5
<1>7. \A k \in 1..PackedSize[c] : cells[1 + k] = Packed(c, k)
  BY <1>3, <1>4, <1>5
<1>8. \A k \in 1..PackedSize[c] : k + 1 = 1 + k
  BY <1>1
<1> QED
  BY <1>3, <1>5, <1>6, <1>7, <1>8

(* dedup() on a new chunk: the next index becomes the chunk's.              *)
LEMMA Emplaced ==
  ASSUME ArchiveInv, i <= Len(file), ~Known(SHA[file[i]]),
         Emplace(SHA[file[i]])
  PROVE  /\ lzw_chunk_index' = lzw_chunk_index + 1
         /\ DOMAIN chunk_hash_map' \subseteq {SHA[c] : c \in Chunk}
         /\ \A d \in DOMAIN chunk_hash_map' :
              chunk_hash_map'[d] \in 0..(lzw_chunk_index' - 1)
         /\ \A d \in DOMAIN chunk_hash_map :
              /\ d \in DOMAIN chunk_hash_map'
              /\ chunk_hash_map'[d] = chunk_hash_map[d]
         /\ SHA[file[i]] \in DOMAIN chunk_hash_map'
         /\ chunk_hash_map'[SHA[file[i]]] = lzw_chunk_index
         /\ IndicesDiffer'
<1> DEFINE D == SHA[file[i]]
<1>1. TypeOK /\ IndicesDiffer
  BY DEF ArchiveInv, EncoderInv
<1>2. /\ file[i] \in Chunk /\ lzw_chunk_index \in Nat
      /\ D \in {SHA[c] : c \in Chunk}
  BY <1>1, Members
<1>3. /\ DOMAIN chunk_hash_map' = DOMAIN chunk_hash_map \cup {D}
      /\ \A d \in DOMAIN chunk_hash_map \cup {D} :
           chunk_hash_map'[d] = IF d = D THEN lzw_chunk_index
                                         ELSE chunk_hash_map[d]
      /\ lzw_chunk_index' = lzw_chunk_index + 1
  BY DEF Emplace
<1>4. D \notin DOMAIN chunk_hash_map
  BY DEF Known
<1>5. \A d \in DOMAIN chunk_hash_map :
        chunk_hash_map[d] \in 0..(lzw_chunk_index - 1)
  BY <1>1 DEF TypeOK
<1>6. IndicesDiffer'
  <2> SUFFICES ASSUME NEW c \in Chunk, NEW d \in Chunk,
                      SHA[c] \in DOMAIN chunk_hash_map',
                      SHA[d] \in DOMAIN chunk_hash_map',
                      chunk_hash_map'[SHA[c]] = chunk_hash_map'[SHA[d]]
               PROVE  c = d
    BY DEF IndicesDiffer, Known
  <2>1. CASE SHA[c] # D /\ SHA[d] # D
    BY <1>1, <1>3, <2>1 DEF IndicesDiffer, Known
  <2>2. CASE SHA[c] = D /\ SHA[d] = D
    BY <2>2, DigestAssumption
  <2>3. CASE SHA[c] = D /\ SHA[d] # D
    BY <1>2, <1>3, <1>5, <2>3
  <2>4. CASE SHA[c] # D /\ SHA[d] = D
    BY <1>2, <1>3, <1>5, <2>4
  <2> QED
    BY <2>1, <2>2, <2>3, <2>4
<1>7. \A d \in DOMAIN chunk_hash_map' :
        chunk_hash_map'[d] \in 0..(lzw_chunk_index' - 1)
  BY <1>2, <1>3, <1>5
<1> QED
  BY <1>1, <1>2, <1>3, <1>4, <1>6, <1>7 DEF TypeOK

LEMMA StatsType ==
  ASSUME TypeOK, NEW c \in Chunk, NEW size \in Nat,
         CountBlock(c, size) \/ CountDuplicate(c)
  PROVE  stats' \in Stats
<1>1. Length[c] \in Nat /\ stats \in Stats
  BY FormatAssumption DEF TypeOK
<1>2. CASE CountBlock(c, size)
  <2>1. stats' = [dedup |-> stats.dedup, lzw |-> stats.lzw + 4 + size,
                 total |-> stats.total + 4 + size,
                 input_dedup |-> stats.input_dedup,
                 input_lzw |-> stats.input_lzw + Length[c],
                 dedup_chunk |-> stats.dedup_chunk,
                 lzw_chunk |-> stats.lzw_chunk + 1]
    BY <1>1, <1>2 DEF Stats, CountBlock
  <2> QED
    BY <1>1, <2>1 DEF Stats
<1>3. CASE CountDuplicate(c)
  <2>1. stats' = [dedup |-> stats.dedup + 4, lzw |-> stats.lzw,
                 total |-> stats.total + 4,
                 input_dedup |-> stats.input_dedup + Length[c],
                 input_lzw |-> stats.input_lzw,
                 dedup_chunk |-> stats.dedup_chunk + 1,
                 lzw_chunk |-> stats.lzw_chunk]
    BY <1>1, <1>3 DEF Stats, CountDuplicate
  <2> QED
    BY <1>1, <2>1 DEF Stats
<1> QED
  BY <1>2, <1>3

LEMMA NewKeepsInv ==
  ASSUME ArchiveInv, phase = "encode", UNCHANGED <<decVars, phase>>, EncodeNew
  PROVE  ArchiveInv'
<1>0. PICK n, c : n = i /\ c = file[i]
  OBVIOUS
<1>1. PICK cells : cells = <<Header(SizeHeader(PackedSize[c]))>> \o Block(c)
  OBVIOUS
<1>2. TypeOK /\ EncoderInv
  BY DEF ArchiveInv
<1>3. /\ i <= Len(file) /\ ~Known(SHA[c]) /\ Emplace(SHA[c]) /\ Emit(cells)
      /\ CountBlock(c, PackedSize[c])
  BY <1>0, <1>1 DEF EncodeNew
<1>4. /\ c \in Chunk /\ PackedSize[c] \in 0..MaxPacked /\ Length[c] \in Nat
      /\ n \in Nat /\ n \in 1..i /\ Len(output_data) \in Nat
      /\ file[n] = c
      /\ PackedSize[c] \in Nat
  BY <1>0, <1>2, <1>3, Members
<1>5. /\ cells \in Seq(Cell) /\ Len(cells) = PackedSize[c] + 1
      /\ cells[1] = Header(SizeHeader(PackedSize[c]))
      /\ \A k \in 1..PackedSize[c] : cells[k + 1] = Packed(c, k)
  BY <1>4, <1>1, NewCells
<1>6. /\ lzw_chunk_index' = lzw_chunk_index + 1
      /\ DOMAIN chunk_hash_map' \subseteq {SHA[d] : d \in Chunk}
      /\ \A d \in DOMAIN chunk_hash_map' :
           chunk_hash_map'[d] \in 0..(lzw_chunk_index' - 1)
      /\ \A d \in DOMAIN chunk_hash_map :
           /\ d \in DOMAIN chunk_hash_map'
           /\ chunk_hash_map'[d] = chunk_hash_map[d]
      /\ SHA[c] \in DOMAIN chunk_hash_map'
      /\ chunk_hash_map'[SHA[c]] = lzw_chunk_index
      /\ IndicesDiffer'
  BY <1>0, <1>3, Emplaced
<1>7. lzw_chunk_index' \in Nat
  BY <1>2, <1>6, Members
<1>8. /\ file'[n] = c
      /\ Len(output_data') = Len(output_data) + PackedSize[c] + 1
      /\ \A k \in 1..(PackedSize[c] + 1) :
           output_data'[Len(output_data) + k] = cells[k]
      /\ mark'[n] = mark[n]
      /\ mark'[n + 1].at = Len(output_data) + PackedSize[c] + 2
      /\ mark'[n + 1].seen = lzw_chunk_index'
  <2>1. /\ Len(output_data') = Len(output_data) + Len(cells)
        /\ \A k \in 1..Len(cells) :
             output_data'[Len(output_data) + k] = cells[k]
        /\ \A j \in 1..i : mark'[j] = mark[j]
        /\ mark'[i + 1] = [at   |-> Len(output_data) + Len(cells) + 1,
                           seen |-> lzw_chunk_index']
        /\ file' = file
    BY <1>2, <1>3, <1>5, <1>7, Emitted
  <2>2. mark'[n + 1].at = Len(output_data) + PackedSize[c] + 2
    BY <1>0, <1>4, <1>5, <2>1
  <2>3. Len(output_data') = Len(output_data) + PackedSize[c] + 1
    BY <1>4, <1>5, <2>1
  <2> QED
    BY <1>0, <1>4, <1>5, <2>1, <2>2, <2>3
<1>9. mark[n].at = Len(output_data) + 1 /\ mark[n].seen = lzw_chunk_index
  BY <1>0, <1>2 DEF EncoderInv
<1>10. IsNew(n)'
  <2>1. output_data'[mark'[n].at] = Header(SizeHeader(PackedSize[c]))
    BY <1>4, <1>5, <1>8, <1>9
  <2>2. ASSUME NEW k \in 1..PackedSize[c]
        PROVE  output_data'[mark'[n].at + k] = Packed(c, k)
    <3>1. k + 1 \in 1..(PackedSize[c] + 1)
      BY <1>4
    <3>2. mark'[n].at + k = Len(output_data) + (k + 1)
      BY <1>4, <1>8, <1>9
    <3> QED BY <1>5, <1>8, <3>1, <3>2
  <2>3. mark'[n + 1].at = mark'[n].at + PackedSize[c] + 1
    <3>1. mark'[n].at = Len(output_data) + 1
      BY <1>8, <1>9
    <3>2. mark'[n + 1].at = Len(output_data) + PackedSize[c] + 2
      BY <1>8
    <3>3. Len(output_data) \in Nat /\ PackedSize[c] \in Nat
      BY <1>4
    <3> QED BY <3>1, <3>2, <3>3
  <2>4. IndexOf(c)' = mark'[n].seen /\ mark'[n + 1].seen = mark'[n].seen + 1
    BY <1>6, <1>8, <1>9 DEF IndexOf
  <2> QED
    BY <1>8, <2>1, <2>2, <2>3, <2>4 DEF IsNew
<1>11. Entry(n)'
  <2>1. /\ mark'[n].at \in 1..Len(output_data')
        /\ mark'[n + 1].at <= Len(output_data') + 1
    BY <1>4, <1>8, <1>9
  <2> QED
    BY <1>6, <1>8, <1>10, <2>1 DEF Entry, Known
<1>12. stats' \in Stats
  BY <1>2, <1>3, <1>4, StatsType
<1> QED
  BY <1>3, <1>5, <1>6, <1>11, <1>12, <1>0, <1>4, EncoderStep

LEMMA FailedKeepsInv ==
  ASSUME ArchiveInv, phase = "encode", UNCHANGED <<decVars, phase>>, EncodeFailed
  PROVE  ArchiveInv'
<1>0. PICK n, c : n = i /\ c = file[i]
  OBVIOUS
<1> DEFINE cells == <<Header(SizeHeader(0))>>
<1>1. TypeOK /\ EncoderInv
  BY DEF ArchiveInv
<1>2. /\ i <= Len(file) /\ ~Known(SHA[c]) /\ Emplace(SHA[c]) /\ Emit(cells)
      /\ CountBlock(c, 0)
  BY <1>0 DEF EncodeFailed
<1>3. /\ c \in Chunk /\ 0 \in 0..MaxPacked /\ Length[c] \in Nat
      /\ n \in Nat /\ n \in 1..i /\ Len(output_data) \in Nat
      /\ file[n] = c
  BY <1>0, <1>1, <1>2, Members
<1>5. /\ cells \in Seq(Cell) /\ Len(cells) = 1
      /\ cells[1] = Header(SizeHeader(0))
  BY <1>3, HeaderOfSize, HeaderCell
<1> HIDE DEF cells
<1>6. /\ lzw_chunk_index' = lzw_chunk_index + 1
      /\ DOMAIN chunk_hash_map' \subseteq {SHA[d] : d \in Chunk}
      /\ \A d \in DOMAIN chunk_hash_map' :
           chunk_hash_map'[d] \in 0..(lzw_chunk_index' - 1)
      /\ \A d \in DOMAIN chunk_hash_map :
           /\ d \in DOMAIN chunk_hash_map'
           /\ chunk_hash_map'[d] = chunk_hash_map[d]
      /\ SHA[c] \in DOMAIN chunk_hash_map'
      /\ IndicesDiffer'
  BY <1>0, <1>2, Emplaced
<1>7. lzw_chunk_index' \in Nat
  BY <1>1, <1>6, Members
<1>8. /\ file'[n] = c
      /\ Len(output_data') = Len(output_data) + 1
      /\ output_data'[Len(output_data) + 1] = Header(SizeHeader(0))
      /\ mark'[n] = mark[n]
      /\ mark'[n + 1] = [at   |-> Len(output_data) + 1 + 1,
                         seen |-> lzw_chunk_index']
  <2>1. /\ Len(output_data') = Len(output_data) + Len(cells)
        /\ \A k \in 1..Len(cells) :
             output_data'[Len(output_data) + k] = cells[k]
        /\ \A j \in 1..i : mark'[j] = mark[j]
        /\ mark'[i + 1] = [at   |-> Len(output_data) + Len(cells) + 1,
                           seen |-> lzw_chunk_index']
        /\ file' = file
    BY <1>1, <1>2, <1>5, <1>7, Emitted
  <2> QED
    BY <1>0, <1>3, <1>5, <2>1
<1>9. mark[n].at = Len(output_data) + 1 /\ mark[n].seen = lzw_chunk_index
  BY <1>0, <1>1 DEF EncoderInv
<1>10. IsFailed(n)'
  BY <1>3, <1>6, <1>8, <1>9 DEF IsFailed, Alone
<1>11. Entry(n)'
  BY <1>3, <1>6, <1>8, <1>9, <1>10 DEF Entry, Known
<1>12. stats' \in Stats
  BY <1>1, <1>2, <1>3, StatsType
<1> QED
  BY <1>2, <1>5, <1>6, <1>11, <1>12, <1>0, <1>3, EncoderStep

LEMMA DuplicateKeepsInv ==
  ASSUME ArchiveInv, phase = "encode", UNCHANGED <<decVars, phase>>,
         EncodeDuplicate
  PROVE  ArchiveInv'
<1>0. PICK n, c : n = i /\ c = file[i]
  OBVIOUS
<1> DEFINE cells == <<Header(IndexHeader(IndexOf(c)))>>
<1>1. TypeOK /\ EncoderInv
  BY DEF ArchiveInv
<1>2. /\ i <= Len(file) /\ Known(SHA[c]) /\ Emit(cells)
      /\ CountDuplicate(c)
      /\ chunk_hash_map' = chunk_hash_map /\ lzw_chunk_index' = lzw_chunk_index
  BY <1>0 DEF EncodeDuplicate, IndexOf
<1>3. /\ c \in Chunk /\ Length[c] \in Nat
      /\ n \in Nat /\ n \in 1..i /\ Len(output_data) \in Nat
      /\ file[n] = c
      /\ lzw_chunk_index \in Nat /\ lzw_chunk_index <= MaxChunks
      /\ MaxChunks \in Nat
  BY <1>0, <1>1, <1>2, Members
<1>4. /\ IndexOf(c) \in Nat /\ IndexOf(c) < lzw_chunk_index
      /\ IndexOf(c) \in 0..(MaxChunks - 1)
  <2>1. IndexOf(c) \in 0..(lzw_chunk_index - 1)
    BY <1>1, <1>2 DEF TypeOK, Known, IndexOf
  <2> QED BY <1>3, <2>1
<1>5. /\ cells \in Seq(Cell) /\ Len(cells) = 1
      /\ cells[1] = Header(IndexHeader(IndexOf(c)))
  BY <1>4, HeaderOfIndex, HeaderCell
<1> HIDE DEF cells
<1>7. lzw_chunk_index' \in Nat
  BY <1>2, <1>3
<1>8. /\ file'[n] = c
      /\ Len(output_data') = Len(output_data) + 1
      /\ output_data'[Len(output_data) + 1] = Header(IndexHeader(IndexOf(c)))
      /\ mark'[n] = mark[n]
      /\ mark'[n + 1] = [at   |-> Len(output_data) + 1 + 1,
                         seen |-> lzw_chunk_index]
  <2>1. /\ Len(output_data') = Len(output_data) + Len(cells)
        /\ \A k \in 1..Len(cells) :
             output_data'[Len(output_data) + k] = cells[k]
        /\ \A j \in 1..i : mark'[j] = mark[j]
        /\ mark'[i + 1] = [at   |-> Len(output_data) + Len(cells) + 1,
                           seen |-> lzw_chunk_index']
        /\ file' = file
    BY <1>1, <1>2, <1>5, <1>7, Emitted
  <2> QED
    BY <1>0, <1>2, <1>3, <1>5, <2>1
<1>9. mark[n].at = Len(output_data) + 1 /\ mark[n].seen = lzw_chunk_index
  BY <1>0, <1>1 DEF EncoderInv
<1>10. IsDuplicate(n)'
  <2>1. IndexOf(c)' = IndexOf(c)
    BY <1>2, <1>8 DEF IndexOf
  <2>2. Alone(n, IndexHeader(IndexOf(file[n])))'
    BY <1>3, <1>8, <1>9, <2>1 DEF Alone
  <2> QED
    BY <1>4, <1>8, <1>9, <2>1, <2>2 DEF IsDuplicate
<1>11. Entry(n)'
  BY <1>2, <1>3, <1>8, <1>9, <1>10 DEF Entry, Known
<1>12. stats' \in Stats
  BY <1>1, <1>2, <1>3, StatsType
<1>13. /\ DOMAIN chunk_hash_map' \subseteq {SHA[d] : d \in Chunk}
       /\ \A d \in DOMAIN chunk_hash_map' :
            chunk_hash_map'[d] \in 0..(lzw_chunk_index' - 1)
       /\ \A d \in DOMAIN chunk_hash_map :
            /\ d \in DOMAIN chunk_hash_map'
            /\ chunk_hash_map'[d] = chunk_hash_map[d]
       /\ IndicesDiffer'
  BY <1>1, <1>2 DEF TypeOK, EncoderInv, IndicesDiffer, Known
<1> QED
  BY <1>2, <1>5, <1>11, <1>12, <1>13, <1>0, <1>3, EncoderStep

-----------------------------------------------------------------------------
(* From the encoder to the decoder *)

LEMMA WriteKeepsInv ==
  ASSUME ArchiveInv, WriteFile
  PROVE  ArchiveInv'
<1>1. TypeOK /\ EncoderInv /\ DecoderInv /\ PhaseInv
  BY DEF ArchiveInv
<1>2. /\ phase = "encode" /\ phase' = "decode" /\ i > Len(file)
      /\ UNCHANGED <<encVars, pos, Chunks, Output, total_chunks_in_header,
                     successful_chunks, failed_chunks>>
  BY DEF WriteFile
<1>3. i = Len(file) + 1 /\ Len(output_data) \in Nat /\ output_data \in Seq(Cell)
  <2>1. output_data \in Seq(Cell)
    BY <1>1 DEF TypeOK
  <2>2. i \in Nat /\ Len(file) \in Nat /\ i <= Len(file) + 1 /\ Len(output_data) \in Nat
    BY <1>1, Members
  <2> QED
    BY <1>2, <2>1, <2>2
<1>4. PICK n \in 0..Len(output_data) : /\ n = Len(output_data) \/ WriteMayBeShort
                                       /\ disk' = SubSeq(output_data, 1, n)
  BY DEF WriteFile
<1>5. /\ disk' \in Seq(Cell) /\ Len(disk') = n
      /\ \A k \in 1..n : disk'[k] = output_data[k]
      /\ disk' # output_data => WriteMayBeShort
  <2>1. /\ disk' \in Seq(Cell) /\ Len(disk') = n
        /\ \A k \in 1..n : disk'[k] = output_data[k]
    BY <1>3, <1>4, SubSeqProperties
  <2>2. n = Len(output_data) => disk' = output_data
    BY <1>3, <1>4, SubSeqFull
  <2> QED
    BY <1>4, <2>1, <2>2
<1>6. total_chunks_in_header = 0 /\ InTurn
  BY <1>1, <1>2 DEF PhaseInv, DecoderInv, CutShort
<1>7. pos = 1
  BY <1>1, <1>6 DEF InTurn, EncoderInv
<1>8. TypeOK'
  BY <1>1, <1>2, <1>3, <1>4, <1>5, <1>7 DEF TypeOK, encVars
<1>9. EncoderInv'
  BY <1>1, <1>2 DEF EncoderInv, IndicesDiffer, Known, Entry, IsNew, IsFailed,
                    IsDuplicate, Alone, IndexOf, encVars
<1>10. DecoderInv'
  BY <1>1, <1>2, <1>6 DEF DecoderInv, InTurn, Restored, IndexAgreement, Known, encVars
<1>11. PhaseInv'
  BY <1>2, <1>3, <1>4, <1>5 DEF PhaseInv, Written, encVars
<1> QED
  BY <1>8, <1>9, <1>10, <1>11 DEF ArchiveInv

(* A decoder that is not at the end of the file is at the start of an entry.*)
LEMMA AtEntry ==
  ASSUME ArchiveInv, phase = "decode", ~Eof,
         NEW j, j = total_chunks_in_header + 1
  PROVE  /\ j \in 1..(i - 1) /\ j \in 1..Len(file) /\ i = Len(file) + 1
         /\ Entry(j) /\ InTurn
         /\ disk[pos] = output_data[mark[j].at]
         /\ pos = mark[j].at /\ pos \in 1..Len(disk)
         /\ Len(disk) \in Nat
<1>1. TypeOK /\ EncoderInv /\ DecoderInv /\ PhaseInv
  BY DEF ArchiveInv
<1>2. /\ InTurn /\ Written /\ i = Len(file) + 1 /\ pos = mark[j].at
      /\ total_chunks_in_header \in Nat /\ total_chunks_in_header < i
      /\ mark[i].at = Len(output_data) + 1
  BY <1>1 DEF PhaseInv, Written, DecoderInv, InTurn, CutShort, EncoderInv, TypeOK
<1>3. /\ i \in Nat /\ Len(file) \in Nat /\ Len(disk) \in Nat /\ pos \in Nat \ {0}
      /\ Len(output_data) \in Nat
  BY <1>1, Members
<1>4. pos <= Len(disk) /\ Len(disk) <= Len(output_data)
  BY <1>2, <1>3 DEF Eof, Written
<1>5. j # i
  BY <1>2, <1>3, <1>4
<1>6. disk[pos] = output_data[mark[j].at]
  BY <1>2, <1>3, <1>4 DEF Written
<1> QED
  BY <1>1, <1>2, <1>3, <1>4, <1>5, <1>6 DEF EncoderInv

(* The entry the decoder is at is a compressed chunk: Decompress gets all   *)
(* of it and nothing else, or, when the file was cut within it, the rest of *)
(* the file.                                                                *)
LEMMA AtNew ==
  ASSUME ArchiveInv, phase = "decode", ~Eof,
         NEW j, j = total_chunks_in_header + 1, IsNew(j),
         NEW h \in Words
  PROVE  /\ IsBlock(h) /\ Operand(h) = PackedSize[file[j]]
         /\ ValidSize(Operand(h))
         /\ pos + Operand(h) <= Len(disk) =>
              /\ Decompressed(Operand(h)) = {file[j]}
              /\ AfterBlock(Operand(h)) = mark[j + 1].at
         /\ pos + Operand(h) > Len(disk) =>
              /\ Decompressed(Operand(h)) \subseteq Chunk \cup {Garbage}
              /\ AfterBlock(Operand(h)) = Len(disk) + 1
              /\ Len(disk) < Len(output_data)
<1> DEFINE c == file[j]  P == PackedSize[c]
<1>1. /\ j \in 1..(i - 1) /\ j \in 1..Len(file)
      /\ Entry(j) /\ disk[pos] = output_data[mark[j].at]
      /\ pos = mark[j].at /\ pos \in 1..Len(disk) /\ Len(disk) \in Nat
  BY AtEntry
<1>2. /\ c \in Chunk /\ P \in 1..MaxPacked /\ MaxPacked \in Nat
      /\ Len(output_data) \in Nat
  BY <1>1, Members DEF ArchiveInv
<1>3. h = SizeHeader(P)
  BY <1>1 DEF Words, IsNew, Header
<1>4. P \in Nat \ {0} /\ P \in 0..MaxPacked
  BY <1>2
<1>5. IsBlock(h) /\ Operand(h) = P
  BY <1>3, <1>4, HeaderOfSize
<1>6. /\ mark[j + 1].at = pos + P + 1
      /\ mark[j + 1].at <= Len(output_data) + 1
      /\ \A k \in 1..P : output_data[pos + k] = Packed(c, k)
  BY <1>1 DEF IsNew, Entry
<1>7. Written
  BY DEF ArchiveInv, PhaseInv
<1> HIDE DEF c, P
<1>8. ASSUME pos + P <= Len(disk)
      PROVE  Decompressed(P) = {c} /\ AfterBlock(P) = mark[j + 1].at
  <2>1. \A k \in 1..P : disk[pos + k] = Packed(c, k)
    <3>1. \A k \in 1..P : pos + k \in 1..Len(disk)
      BY <1>1, <1>4, <1>8
    <3> QED
      BY <1>6, <1>7, <3>1 DEF Written
  <2>2. BlockAhead(c, P)
    BY <1>8, <2>1 DEF BlockAhead, P
  <2>3. ASSUME NEW d \in Chunk, BlockAhead(d, P) PROVE d = c
    <3>1. 1 \in 1..P
      BY <1>4
    <3>2. disk[pos + 1] = Packed(d, 1)
      BY <2>3, <3>1 DEF BlockAhead
    <3>3. disk[pos + 1] = Packed(c, 1)
      BY <2>1, <3>1
    <3> QED
      BY <3>2, <3>3 DEF Packed
  <2>4. Decompressed(P) = {c}
    BY <1>2, <2>2, <2>3 DEF Decompressed
  <2>5. AfterBlock(P) = mark[j + 1].at
    BY <1>1, <1>4, <1>6, <1>8 DEF AfterBlock
  <2> QED
    BY <2>4, <2>5
<1>9. ASSUME pos + P > Len(disk)
      PROVE  /\ Decompressed(P) \subseteq Chunk \cup {Garbage}
             /\ AfterBlock(P) = Len(disk) + 1
             /\ Len(disk) < Len(output_data)
  <2>1. Decompressed(P) \subseteq Chunk \cup {Garbage}
    BY DEF Decompressed
  <2>2. AfterBlock(P) = Len(disk) + 1
    BY <1>1, <1>4, <1>9 DEF AfterBlock
  <2>3. Len(disk) < Len(output_data)
    BY <1>1, <1>2, <1>4, <1>6, <1>9
  <2> QED
    BY <2>1, <2>2, <2>3
<1>10. ValidSize(P)
  BY <1>2, <1>4 DEF ValidSize
<1> QED
  BY <1>5, <1>8, <1>9, <1>10 DEF c, P

(* The entry is a header of size 0.                                         *)
LEMMA AtFailed ==
  ASSUME ArchiveInv, phase = "decode", ~Eof,
         NEW j, j = total_chunks_in_header + 1, IsFailed(j),
         NEW h \in Words
  PROVE  IsBlock(h) /\ ~ValidSize(Operand(h)) /\ pos + 1 = mark[j + 1].at
<1>1. disk[pos] = output_data[mark[j].at] /\ pos = mark[j].at
  BY AtEntry
<1>2. h = SizeHeader(0) /\ pos + 1 = mark[j + 1].at
  BY <1>1 DEF Words, IsFailed, Alone, Header
<1>3. 0 \in 0..MaxPacked
  BY FormatAssumption
<1>4. IsBlock(h) /\ Operand(h) = 0
  BY <1>2, <1>3, HeaderOfSize
<1> QED
  BY <1>2, <1>4 DEF ValidSize

(* The entry is a reference.                                                *)
LEMMA AtDuplicate ==
  ASSUME ArchiveInv, phase = "decode", ~Eof,
         NEW j, j = total_chunks_in_header + 1, IsDuplicate(j),
         NEW h \in Words
  PROVE  /\ ~IsBlock(h) /\ Operand(h) = IndexOf(file[j])
         /\ Operand(h) \in Nat /\ pos + 1 = mark[j + 1].at
<1>1. /\ disk[pos] = output_data[mark[j].at] /\ pos = mark[j].at /\ Entry(j)
      /\ j \in 1..Len(file)
  BY AtEntry
<1>2. h = IndexHeader(IndexOf(file[j])) /\ pos + 1 = mark[j + 1].at
  BY <1>1 DEF Words, IsDuplicate, Alone, Header
<1>3. IndexOf(file[j]) \in 0..(MaxChunks - 1)
  <2>1. IndexOf(file[j]) \in 0..(lzw_chunk_index - 1)
    BY <1>1 DEF Entry, Known, IndexOf, ArchiveInv, TypeOK
  <2>2. /\ lzw_chunk_index \in Nat /\ MaxChunks \in Nat
        /\ lzw_chunk_index <= MaxChunks
    BY Members DEF ArchiveInv
  <2> QED BY <2>1, <2>2
<1> QED
  BY <1>2, <1>3, HeaderOfIndex

-----------------------------------------------------------------------------
(* The decoder's steps *)

(* What a decoder step must show: that it is between two entries again, or  *)
(* at the cut.                                                              *)
LEMMA DecoderStep ==
  ASSUME ArchiveInv, phase = "decode", ~Eof,
         UNCHANGED <<encVars, disk, phase>>,
         total_chunks_in_header' = total_chunks_in_header + 1,
         pos' \in 1..(Len(disk) + 1),
         \/ /\ successful_chunks' = successful_chunks + 1
            /\ failed_chunks' = failed_chunks
         \/ /\ successful_chunks' = successful_chunks
            /\ failed_chunks' = failed_chunks + 1,
         Chunks' \in Seq(Chunk \cup {Garbage}),
         Output' \in Seq(Chunk \cup {Garbage}),
         InTurn' \/ CutShort'
  PROVE  ArchiveInv'
<1>1. TypeOK /\ EncoderInv /\ DecoderInv /\ PhaseInv
  BY DEF ArchiveInv
<1>2. /\ total_chunks_in_header \in Nat
      /\ successful_chunks \in Nat /\ failed_chunks \in Nat
  BY <1>1 DEF TypeOK
<1>3. TypeOK'
  <2>1. /\ total_chunks_in_header' \in Nat
        /\ successful_chunks' \in Nat /\ failed_chunks' \in Nat
    BY <1>2
  <2> QED
    BY <1>1, <2>1 DEF TypeOK, encVars
<1>4. EncoderInv'
  BY <1>1 DEF EncoderInv, IndicesDiffer, Known, Entry, IsNew, IsFailed,
              IsDuplicate, Alone, IndexOf, encVars
<1>5. DecoderInv'
  <2>1. successful_chunks' + failed_chunks' = total_chunks_in_header'
    BY <1>1, <1>2 DEF DecoderInv
  <2> QED
    BY <2>1 DEF DecoderInv
<1>6. PhaseInv'
  BY <1>1 DEF PhaseInv, Written, encVars
<1> QED
  BY <1>3, <1>4, <1>5, <1>6 DEF ArchiveInv

(* A step that moves to the next mark: what it restored, if nothing has     *)
(* failed, is one entry more.                                               *)
LEMMA EntryStep ==
  ASSUME ArchiveInv, phase = "decode", ~Eof,
         UNCHANGED <<encVars, disk, phase>>,
         NEW j, j = total_chunks_in_header + 1,
         total_chunks_in_header' = j,
         pos' = mark[j + 1].at, pos' <= Len(disk) + 1,
         \/ /\ successful_chunks' = successful_chunks + 1
            /\ failed_chunks' = failed_chunks
         \/ /\ successful_chunks' = successful_chunks
            /\ failed_chunks' = failed_chunks + 1,
         Chunks' \in Seq(Chunk \cup {Garbage}),
         Output' \in Seq(Chunk \cup {Garbage}),
         failed_chunks' = 0 => Restored' /\ IndexAgreement'
  PROVE  ArchiveInv'
<1>1. TypeOK /\ j \in 1..(i - 1) /\ Len(disk) \in Nat
  BY AtEntry DEF ArchiveInv
<1>2. i \in Nat /\ j + 1 \in 1..i /\ failed_chunks \in Nat
  BY <1>1, Members DEF TypeOK
<1>3. pos' \in 1..(Len(disk) + 1)
  <2>1. mark[j + 1].at \in Nat \ {0}
    BY <1>1, <1>2, Members
  <2> QED
    BY <1>1, <2>1
<1>4. InTurn'
  <2>1. total_chunks_in_header' < i'
    BY <1>1, <1>2 DEF encVars
  <2>2. pos' = mark'[total_chunks_in_header' + 1].at
    BY DEF encVars
  <2>3. IndexAgreement'
    BY <1>2 DEF IndexAgreement
  <2> QED
    BY <2>1, <2>2, <2>3 DEF InTurn
<1> QED
  BY <1>3, <1>4, DecoderStep

(* The counters after Counted.                                              *)
LEMMA CountedSteps ==
  ASSUME TypeOK, NEW ok \in BOOLEAN, Counted(ok)
  PROVE  /\ total_chunks_in_header' = total_chunks_in_header + 1
         /\ IF ok THEN /\ successful_chunks' = successful_chunks + 1
                       /\ failed_chunks' = failed_chunks
                  ELSE /\ successful_chunks' = successful_chunks
                       /\ failed_chunks' = failed_chunks + 1
                       /\ failed_chunks' # 0
         /\ disk' = disk
  BY DEF Counted, TypeOK

LEMMA BlockStepKeepsInv ==
  ASSUME ArchiveInv, phase = "decode", UNCHANGED <<encVars, phase>>, DecodeBlock
  PROVE  ArchiveInv'
<1>0. PICK j : j = total_chunks_in_header + 1
  OBVIOUS
<1> DEFINE V == Chunk \cup {Garbage}
<1>1. TypeOK /\ DecoderInv /\ PhaseInv /\ ~Eof
  BY DEF ArchiveInv, DecodeBlock
<1>2. /\ j \in 1..(i - 1) /\ j \in 1..Len(file) /\ Entry(j) /\ InTurn
      /\ pos \in 1..Len(disk) /\ Len(disk) \in Nat
  BY <1>0, <1>1, AtEntry
<1>3. PICK h \in Words :
        /\ IsBlock(h) /\ ValidSize(Operand(h))
        /\ \E d \in Decompressed(Operand(h)) :
             Chunks' = Append(Chunks, d) /\ Output' = Append(Output, d)
        /\ pos' = AfterBlock(Operand(h))
  BY DEF DecodeBlock
<1>4. PICK chunk \in Decompressed(Operand(h)) :
        Chunks' = Append(Chunks, chunk) /\ Output' = Append(Output, chunk)
  BY <1>3
<1>5. IsNew(j)
  BY <1>0, <1>1, <1>2, <1>3, AtFailed, AtDuplicate DEF Entry
<1>6. /\ file[j] \in Chunk /\ Chunks \in Seq(V) /\ Output \in Seq(V)
      /\ Len(Chunks) \in Nat /\ Len(Output) \in Nat
      /\ total_chunks_in_header \in Nat /\ PackedSize[file[j]] \in Nat
  <2>1. Chunks \in Seq(V) /\ Output \in Seq(V) /\ total_chunks_in_header \in Nat
    BY <1>1 DEF TypeOK
  <2>2. /\ \A k \in 1..Len(file) : /\ file[k] \in Chunk
                                   /\ PackedSize[file[k]] \in 1..MaxPacked
        /\ MaxPacked \in Nat
        /\ Len(Chunks) \in Nat /\ Len(Output) \in Nat
    BY <1>1, Members
  <2>3. file[j] \in Chunk /\ PackedSize[file[j]] \in Nat
    BY <1>2, <2>2
  <2> QED
    BY <2>1, <2>2, <2>3
<1>7. /\ Operand(h) = PackedSize[file[j]]
      /\ pos + Operand(h) <= Len(disk) =>
            chunk = file[j] /\ pos' = mark[j + 1].at
      /\ pos + Operand(h) > Len(disk) =>
            pos' = Len(disk) + 1 /\ Len(disk) < Len(output_data)
      /\ chunk \in V
  <2>1. /\ Operand(h) = PackedSize[file[j]]
        /\ pos + Operand(h) <= Len(disk) =>
              /\ Decompressed(Operand(h)) = {file[j]}
              /\ AfterBlock(Operand(h)) = mark[j + 1].at
        /\ pos + Operand(h) > Len(disk) =>
              /\ Decompressed(Operand(h)) \subseteq V
              /\ AfterBlock(Operand(h)) = Len(disk) + 1
              /\ Len(disk) < Len(output_data)
    BY <1>0, <1>1, <1>3, <1>5, AtNew
  <2>2. pos + Operand(h) <= Len(disk) \/ pos + Operand(h) > Len(disk)
    BY <1>2, <1>6, <2>1
  <2> QED
    BY <1>3, <1>4, <1>6, <2>1, <2>2
<1> HIDE DEF V
<1>8. /\ Chunks' \in Seq(V) /\ Len(Chunks') = Len(Chunks) + 1
      /\ \A k \in 1..Len(Chunks) : Chunks'[k] = Chunks[k]
      /\ Chunks'[Len(Chunks) + 1] = chunk
  BY <1>4, <1>6, <1>7, Appended
<1>9. /\ Output' \in Seq(V) /\ Len(Output') = Len(Output) + 1
      /\ \A k \in 1..Len(Output) : Output'[k] = Output[k]
      /\ Output'[Len(Output) + 1] = chunk
  BY <1>4, <1>6, <1>7, Appended
<1>10. /\ total_chunks_in_header' = j /\ disk' = disk
       /\ successful_chunks' = successful_chunks + 1
       /\ failed_chunks' = failed_chunks
  BY <1>0, <1>1, CountedSteps DEF DecodeBlock
<1>11. CASE pos + Operand(h) <= Len(disk)
  <2>1. chunk = file[j] /\ pos' = mark[j + 1].at /\ pos' <= Len(disk) + 1
    BY <1>2, <1>3, <1>6, <1>7, <1>11 DEF AfterBlock
  <2>2. ASSUME failed_chunks' = 0 PROVE Restored' /\ IndexAgreement'
    <3>1. Restored /\ IndexAgreement /\ failed_chunks = 0
      BY <1>2, <1>10, <2>2 DEF InTurn
    <3>2. /\ Len(Output) = total_chunks_in_header
          /\ \A k \in 1..Len(Output) : Output[k] = file[k]
          /\ Len(Chunks) = mark[j].seen
      BY <1>0, <3>1 DEF Restored
    <3>3. /\ IndexOf(file[j]) = Len(Chunks)
          /\ mark[j + 1].seen = Len(Chunks) + 1
          /\ Known(SHA[file[j]])
      BY <1>2, <1>5, <3>2 DEF IsNew, Entry
    <3>4. Len(Output') = j /\ Len(Chunks') = mark[j + 1].seen
      BY <1>0, <1>6, <1>8, <1>9, <3>2, <3>3
    <3>5. \A k \in 1..Len(Output') : Output'[k] = file[k]
      BY <1>0, <1>6, <1>9, <2>1, <3>2
    <3>6. Restored'
      BY <1>10, <3>4, <3>5 DEF Restored, encVars
    <3>7. \A k \in 1..Len(Chunks) :
            /\ Chunks[k] \in Chunk
            /\ SHA[Chunks[k]] \in DOMAIN chunk_hash_map
            /\ chunk_hash_map[SHA[Chunks[k]]] = k - 1
      BY <3>1 DEF IndexAgreement, Known
    <3>8. \A k \in 1..Len(Chunks') :
            /\ Chunks'[k] \in Chunk
            /\ SHA[Chunks'[k]] \in DOMAIN chunk_hash_map
            /\ chunk_hash_map[SHA[Chunks'[k]]] = k - 1
      <4> SUFFICES ASSUME NEW k \in 1..Len(Chunks')
                   PROVE  /\ Chunks'[k] \in Chunk
                          /\ SHA[Chunks'[k]] \in DOMAIN chunk_hash_map
                          /\ chunk_hash_map[SHA[Chunks'[k]]] = k - 1
        OBVIOUS
      <4>1. CASE k \in 1..Len(Chunks)
        BY <1>8, <3>7, <4>1
      <4>2. CASE k = Len(Chunks) + 1
        BY <1>6, <1>8, <2>1, <3>3, <4>2 DEF IndexOf, Known
      <4> QED
        BY <1>6, <1>8, <4>1, <4>2
    <3>9. IndexAgreement'
      BY <3>8 DEF IndexAgreement, Known, encVars
    <3> QED
      BY <3>6, <3>9
  <2> QED
    BY <1>0, <1>1, <1>8, <1>9, <1>10, <2>1, <2>2, EntryStep DEF V
<1>12. CASE pos + Operand(h) > Len(disk)
  <2>1. pos' = Len(disk) + 1 /\ disk # output_data
    BY <1>7, <1>2, <1>12
  <2>2. ASSUME failed_chunks' = 0
        PROVE  /\ Len(Output') = j
               /\ \A k \in 1..(Len(Output') - 1) : Output'[k] = file[k]
    <3>1. Restored
      BY <1>2, <1>10, <2>2 DEF InTurn
    <3> QED
      BY <1>0, <1>6, <1>9, <3>1 DEF Restored
  <2>3. CutShort'
    BY <1>1, <1>2, <1>10, <2>1, <2>2 DEF CutShort, Eof, encVars
  <2>4. pos' \in 1..(Len(disk) + 1)
    BY <1>2, <2>1
  <2> QED
    BY <1>0, <1>1, <1>8, <1>9, <1>10, <2>3, <2>4, DecoderStep DEF V
<1> QED
  BY <1>2, <1>6, <1>7, <1>11, <1>12

LEMMA ReferenceStepKeepsInv ==
  ASSUME ArchiveInv, phase = "decode", UNCHANGED <<encVars, phase>>,
         DecodeReference
  PROVE  ArchiveInv'
<1>0. PICK j : j = total_chunks_in_header + 1
  OBVIOUS
<1> DEFINE V == Chunk \cup {Garbage}
<1>1. TypeOK /\ DecoderInv /\ EncoderInv /\ ~Eof
  BY DEF ArchiveInv, DecodeReference
<1>2. /\ j \in 1..(i - 1) /\ j \in 1..Len(file) /\ Entry(j) /\ InTurn
      /\ pos \in 1..Len(disk) /\ Len(disk) \in Nat
  BY <1>0, <1>1, AtEntry
<1>3. PICK h \in Words :
        /\ ~IsBlock(h) /\ Operand(h) < Len(Chunks)
        /\ Output' = Append(Output, Chunks[Operand(h) + 1])
  BY DEF DecodeReference
<1>4. IsDuplicate(j)
  BY <1>0, <1>1, <1>2, <1>3, AtNew, AtFailed DEF Entry
<1>5. /\ Operand(h) = IndexOf(file[j]) /\ Operand(h) \in Nat
      /\ pos' = mark[j + 1].at /\ pos' <= Len(disk) + 1 /\ Chunks' = Chunks
  BY <1>0, <1>1, <1>2, <1>3, <1>4, AtDuplicate DEF DecodeReference
<1>6. /\ file[j] \in Chunk /\ Chunks \in Seq(V) /\ Output \in Seq(V)
      /\ Len(Chunks) \in Nat /\ Len(Output) \in Nat
      /\ total_chunks_in_header \in Nat
  BY <1>1, <1>2, Members DEF TypeOK
<1>7. Operand(h) + 1 \in 1..Len(Chunks)
  BY <1>3, <1>5, <1>6
<1> HIDE DEF V
<1>8. Chunks[Operand(h) + 1] \in V
  BY <1>6, <1>7, ElementOfSeq
<1>9. /\ Output' \in Seq(V) /\ Len(Output') = Len(Output) + 1
      /\ \A k \in 1..Len(Output) : Output'[k] = Output[k]
      /\ Output'[Len(Output) + 1] = Chunks[Operand(h) + 1]
  BY <1>3, <1>6, <1>8, Appended
<1>10. /\ total_chunks_in_header' = j /\ disk' = disk
       /\ successful_chunks' = successful_chunks + 1
       /\ failed_chunks' = failed_chunks
  BY <1>0, <1>1, CountedSteps DEF DecodeReference
<1>11. ASSUME failed_chunks' = 0 PROVE Restored' /\ IndexAgreement'
  <2>1. Restored /\ IndexAgreement /\ failed_chunks = 0
    BY <1>2, <1>10, <1>11 DEF InTurn
  <2>2. /\ Len(Output) = total_chunks_in_header
        /\ \A k \in 1..Len(Output) : Output[k] = file[k]
        /\ Len(Chunks) = mark[j].seen
    BY <1>0, <2>1 DEF Restored
  <2>3. Chunks[Operand(h) + 1] = file[j]
    <3>1. /\ Chunks[Operand(h) + 1] \in Chunk
          /\ Known(SHA[Chunks[Operand(h) + 1]])
          /\ IndexOf(Chunks[Operand(h) + 1]) = (Operand(h) + 1) - 1
      BY <1>7, <2>1 DEF IndexAgreement, IndexOf
    <3>2. IndexOf(Chunks[Operand(h) + 1]) = IndexOf(file[j])
      BY <1>5, <3>1
    <3> QED
      BY <1>1, <1>2, <1>6, <3>1, <3>2 DEF EncoderInv, IndicesDiffer, Entry, IndexOf
  <2>4. Len(Output') = j /\ Len(Chunks') = mark[j + 1].seen
    BY <1>0, <1>4, <1>5, <1>6, <1>9, <2>2 DEF IsDuplicate
  <2>5. \A k \in 1..Len(Output') : Output'[k] = file[k]
    BY <1>0, <1>6, <1>9, <2>2, <2>3
  <2>6. Restored'
    BY <1>10, <2>4, <2>5 DEF Restored, encVars
  <2>7. IndexAgreement'
    BY <1>5, <2>1 DEF IndexAgreement, Known, encVars
  <2> QED
    BY <2>6, <2>7
<1> QED
  BY <1>0, <1>1, <1>5, <1>6, <1>9, <1>10, <1>11, EntryStep DEF V

(* Both rejections count a failure, after which nothing is promised of the  *)
(* chunks; the decoder still moves to the next entry.                       *)
LEMMA RejectStepKeepsInv ==
  ASSUME ArchiveInv, phase = "decode", UNCHANGED <<encVars, phase>>,
         RejectSize \/ RejectReference
  PROVE  ArchiveInv'
<1>0. PICK j : j = total_chunks_in_header + 1
  OBVIOUS
<1>1. TypeOK /\ ~Eof
  BY DEF ArchiveInv, RejectSize, RejectReference
<1>2. Entry(j) /\ pos \in 1..Len(disk) /\ Len(disk) \in Nat
  BY <1>0, <1>1, AtEntry
<1>3. PICK h \in Words : \/ IsBlock(h) /\ ~ValidSize(Operand(h))
                         \/ ~IsBlock(h)
  BY DEF RejectSize, RejectReference
<1>4. pos + 1 = mark[j + 1].at
  BY <1>0, <1>1, <1>2, <1>3, AtNew, AtFailed, AtDuplicate DEF Entry
<1>5. /\ pos' = pos + 1 /\ Chunks' = Chunks /\ Output' = Output
      /\ Counted(FALSE)
  BY DEF RejectSize, RejectReference
<1>6. /\ total_chunks_in_header' = j /\ disk' = disk
      /\ successful_chunks' = successful_chunks
      /\ failed_chunks' = failed_chunks + 1
      /\ failed_chunks' # 0
  BY <1>0, <1>1, <1>5, CountedSteps
<1>7. pos' <= Len(disk) + 1
  BY <1>2, <1>5
<1> QED
  BY <1>0, <1>1, <1>4, <1>5, <1>6, <1>7, EntryStep DEF TypeOK

-----------------------------------------------------------------------------
(* The invariant *)

LEMMA StutterKeepsInv == ArchiveInv /\ UNCHANGED vars => ArchiveInv'
  BY DEF ArchiveInv, TypeOK, EncoderInv, DecoderInv, PhaseInv, Written,
         InTurn, CutShort, Restored, IndexAgreement, IndicesDiffer, Known, Entry, IsNew, IsFailed,
         IsDuplicate, Alone, IndexOf, Eof, vars, encVars, decVars

(* The decoder runs past the end of the file only if it was cut.            *)
LEMMA OutOfTableKeepsInv ==
  ASSUME ArchiveInv, DecodeOutOfTable
  PROVE  WriteMayBeShort /\ ArchiveInv'
<1>0. PICK j : j = total_chunks_in_header + 1
  OBVIOUS
<1>1. /\ phase = "decode" /\ phase' = "crashed" /\ ~Eof
      /\ UNCHANGED <<encVars, decVars>>
  BY DEF DecodeOutOfTable
<1>2. PICK h \in Words : /\ IsBlock(h) /\ ValidSize(Operand(h))
                         /\ pos + Operand(h) > Len(disk)
  BY DEF DecodeOutOfTable
<1>3. Entry(j) /\ InTurn
  BY <1>0, <1>1, AtEntry
<1>4. IsNew(j)
  BY <1>0, <1>1, <1>2, <1>3, AtFailed, AtDuplicate DEF Entry
<1>5. Len(disk) < Len(output_data)
  BY <1>0, <1>1, <1>2, <1>4, AtNew
<1>6. TypeOK /\ EncoderInv /\ DecoderInv /\ PhaseInv
      /\ Len(disk) \in Nat /\ Len(output_data) \in Nat
  BY Members DEF ArchiveInv
<1>7. Written /\ WriteMayBeShort
  BY <1>1, <1>5, <1>6 DEF PhaseInv, Written
<1>8. TypeOK'
  BY <1>1, <1>6 DEF TypeOK, encVars, decVars
<1>9. EncoderInv'
  BY <1>1, <1>6 DEF EncoderInv, IndicesDiffer, Known, Entry, IsNew, IsFailed,
                    IsDuplicate, Alone, IndexOf, encVars
<1>10. DecoderInv'
  BY <1>1, <1>3, <1>6 DEF DecoderInv, InTurn, Restored, IndexAgreement, Known,
                          encVars, decVars
<1>11. PhaseInv'
  BY <1>1, <1>7 DEF PhaseInv, Written, encVars, decVars
<1> QED
  BY <1>7, <1>8, <1>9, <1>10, <1>11 DEF ArchiveInv

LEMMA EndKeepsInv ==
  ASSUME ArchiveInv, DecodeEnd
  PROVE  ArchiveInv'
<1> USE DEF DecodeEnd, encVars, decVars
<1>1. TypeOK' /\ PhaseInv'
  BY DEF ArchiveInv, TypeOK, PhaseInv, Written, Eof
<1>2. EncoderInv'
  BY DEF ArchiveInv, EncoderInv, IndicesDiffer, Known, Entry, IsNew, IsFailed,
         IsDuplicate, Alone, IndexOf
<1>3. DecoderInv'
  BY DEF ArchiveInv, DecoderInv, InTurn, CutShort, Eof, Restored, IndexAgreement, Known
<1> QED
  BY <1>1, <1>2, <1>3 DEF ArchiveInv

LEMMA NextKeepsInv ==
  ASSUME ArchiveInv, [Next]_vars
  PROVE  ArchiveInv'
<1>1. CASE Encode
  BY <1>1, NewKeepsInv, FailedKeepsInv, DuplicateKeepsInv DEF Encode, EncNext
<1>2. CASE WriteFile
  BY <1>2, WriteKeepsInv
<1>3. CASE Decode
  BY <1>3, BlockStepKeepsInv, ReferenceStepKeepsInv, RejectStepKeepsInv
  DEF Decode, DecNext
<1>4. CASE DecodeOutOfTable
  BY <1>4, OutOfTableKeepsInv
<1>5. CASE DecodeEnd
  BY <1>5, EndKeepsInv
<1>6. CASE Stopped \/ UNCHANGED vars
  BY <1>6, StutterKeepsInv DEF Stopped
<1> QED
  BY <1>1, <1>2, <1>3, <1>4, <1>5, <1>6 DEF Next

(* The invariant holds of every behaviour, whether the archive was written  *)
(* whole or not.                                                            *)
THEOREM ArchiveInvariance == Safety => []ArchiveInv
<1>1. Init => ArchiveInv
  BY InitInv
<1>2. ArchiveInv /\ [Next]_vars => ArchiveInv'
  BY NextKeepsInv
<1> QED
  BY <1>1, <1>2, PTL DEF Safety

-----------------------------------------------------------------------------
(* What the invariant says at the end of the file *)

LEMMA AtTheEnd ==
  ASSUME ArchiveInv, phase \in {"decode", "done"}, Eof, disk = output_data
  PROVE  /\ total_chunks_in_header = Len(file)
         /\ failed_chunks = 0 => Output = file
<1>1. TypeOK /\ EncoderInv /\ DecoderInv /\ PhaseInv
  BY DEF ArchiveInv
<1>2. InTurn /\ i = Len(file) + 1
  BY <1>1 DEF PhaseInv, Written, DecoderInv, CutShort
<1>3. /\ total_chunks_in_header \in Nat /\ total_chunks_in_header < i
      /\ pos = mark[total_chunks_in_header + 1].at
      /\ Len(disk) \in Nat /\ Len(file) \in Nat /\ pos \in Nat
  <2>1. total_chunks_in_header \in Nat
    BY <1>1 DEF TypeOK
  <2>2. Len(disk) \in Nat /\ Len(file) \in Nat /\ pos \in Nat
    BY <1>1, Members
  <2> QED
    BY <1>2, <2>1, <2>2 DEF InTurn
<1>4. total_chunks_in_header = Len(file)
  <2> SUFFICES ASSUME total_chunks_in_header # Len(file) PROVE FALSE
    OBVIOUS
  <2> DEFINE j == total_chunks_in_header + 1
  <2>1. j \in 1..(i - 1)
    BY <1>2, <1>3
  <2>2. Entry(j)
    BY <1>1, <2>1 DEF EncoderInv
  <2>3. mark[j].at <= Len(disk)
    BY <1>2, <2>2 DEF Entry
  <2> QED
    BY <1>3, <2>3 DEF Eof
<1>5. ASSUME failed_chunks = 0 PROVE Output = file
  <2> DEFINE V == Chunk \cup {Garbage}
  <2>1. Output \in Seq(V) /\ file \in Seq(Chunk)
    BY <1>1 DEF TypeOK
  <2>2. file \in Seq(V)
    <3>1. \A k \in 1..Len(file) : file[k] \in V
      BY <2>1, ElementOfSeq
    <3> QED BY <2>1, <3>1, <1>3, LenProperties
  <2>3. Len(Output) = Len(file) /\ \A k \in 1..Len(Output) : Output[k] = file[k]
    BY <1>2, <1>4, <1>5 DEF InTurn, Restored
  <2> HIDE DEF V
  <2> QED
    BY <2>1, <2>2, <2>3, SeqEqual
<1> QED
  BY <1>4, <1>5

LEMMA InvImpliesWhole == ArchiveInv /\ ~WriteMayBeShort => SuccessMeansWhole
<1> SUFFICES ASSUME ArchiveInv, ~WriteMayBeShort, phase = "done", AllProcessed PROVE Output = file
  BY DEF SuccessMeansWhole
<1>1. Eof /\ disk = output_data
  BY DEF ArchiveInv, PhaseInv, Written
<1>2. failed_chunks = 0
  BY DEF ArchiveInv, DecoderInv, AllProcessed, TypeOK
<1> QED
  BY <1>1, <1>2, AtTheEnd

LEMMA InvImpliesInStep == ArchiveInv => InStep
<1> SUFFICES ASSUME ArchiveInv, phase = "decode", ~Eof
             PROVE  disk[pos].kind = "header"
  BY DEF InStep
<1>1. PICK j : j = total_chunks_in_header + 1
  OBVIOUS
<1>2. Entry(j) /\ disk[pos] = output_data[mark[j].at]
  BY <1>1, AtEntry
<1> QED
  BY <1>2 DEF Entry, IsNew, IsFailed, IsDuplicate, Alone, Header

-----------------------------------------------------------------------------
(* Theorems *)

(* Every variable of the two programs keeps its type.                       *)
THEOREM TypeCorrect == Safety => []TypeOK
<1>1. ArchiveInv => TypeOK
  BY DEF ArchiveInv
<1> QED
  BY <1>1, ArchiveInvariance, PTL

(* A decoder that reports success has restored the encoder's file, on the   *)
(* CPU and on an FPGA whose kernel runs may fail.                           *)
THEOREM SuccessIsWhole ==
  ASSUME ~WriteMayBeShort
  PROVE  Safety => []SuccessMeansWhole
  BY InvImpliesWhole, ArchiveInvariance, PTL

(* The decoder's list of chunks and the encoder's map agree on every index, *)
(* as long as nothing has failed.                                           *)
THEOREM IndicesAgree ==
  ASSUME ~WriteMayBeShort
  PROVE  Safety => []IndexAgreement
<1>1. ArchiveInv => IndexAgreement
  BY DEF ArchiveInv, DecoderInv, InTurn, CutShort, PhaseInv, Written
<1> QED
  BY <1>1, ArchiveInvariance, PTL

(* The decoder never takes a block's bytes for a header, however much of    *)
(* the archive it has got.                                                  *)
THEOREM StaysInStep == Safety => []InStep
  BY InvImpliesInStep, ArchiveInvariance, PTL

(* No entry of the archive is overlooked.                                   *)
THEOREM SeesEveryEntry == Safety => []EveryEntrySeen
<1>1. ArchiveInv => EveryEntrySeen
  <2> SUFFICES ASSUME ArchiveInv, phase = "done", disk = output_data
               PROVE  total_chunks_in_header = Len(file)
    BY DEF EveryEntrySeen
  <2>1. Eof
    BY DEF ArchiveInv, PhaseInv
  <2> QED
    BY <2>1, AtTheEnd
<1> QED
  BY <1>1, ArchiveInvariance, PTL

(* The decoder rejects an entry only if it is the mark of a failed run, or  *)
(* if it has rejected such a mark before.                                   *)
LEMMA RejectedForFailure ==
  ASSUME ArchiveInv, phase = "decode", RejectSize \/ RejectReference,
         failed_chunks = 0
  PROVE  RunFailed
<1>0. PICK j : j = total_chunks_in_header + 1
  OBVIOUS
<1>1. TypeOK /\ ~Eof /\ DecoderInv
  BY DEF ArchiveInv, RejectSize, RejectReference
<1>2. Entry(j) /\ InTurn
  BY <1>0, <1>1, AtEntry
<1>3. PICK h \in Words : \/ IsBlock(h) /\ ~ValidSize(Operand(h))
                         \/ ~IsBlock(h) /\ Operand(h) >= Len(Chunks)
  BY DEF RejectSize, RejectReference
<1>4. CASE IsNew(j)
  BY <1>0, <1>1, <1>3, <1>4, AtNew
<1>5. CASE IsFailed(j)
  BY <1>2, <1>5 DEF Entry, IsFailed, Alone, RunFailed
<1>6. CASE IsDuplicate(j)
  <2>1. Operand(h) = IndexOf(file[j]) /\ Operand(h) \in Nat /\ Operand(h) >= Len(Chunks)
    BY <1>0, <1>1, <1>3, <1>6, AtDuplicate
  <2>2. IndexOf(file[j]) < mark[j].seen
    BY <1>6 DEF IsDuplicate
  <2>3. Len(Chunks) = mark[j].seen
    BY <1>0, <1>2 DEF InTurn, Restored
  <2>4. Len(Chunks) \in Nat
    BY <1>1, LenProperties DEF TypeOK
  <2> QED
    BY <2>1, <2>2, <2>3, <2>4
<1> QED
  BY <1>2, <1>4, <1>5, <1>6 DEF Entry

LEMMA RejectionStep ==
  ASSUME ArchiveInv, NothingRejected, [Next]_vars
  PROVE  NothingRejected'
<1>1. TypeOK /\ DecoderInv /\ PhaseInv
  BY DEF ArchiveInv
<1>2. CASE Encode \/ WriteFile
  <2>1. failed_chunks' = failed_chunks /\ total_chunks_in_header = 0
    BY <1>1, <1>2 DEF Encode, WriteFile, decVars, PhaseInv
  <2>2. failed_chunks' = 0
    BY <1>1, <2>1 DEF DecoderInv, TypeOK
  <2> QED
    BY <2>2 DEF NothingRejected
<1>3. CASE Decode
  <2>1. output_data' = output_data /\ phase = "decode"
    BY <1>3 DEF Decode, encVars
  <2>2. RunFailed => RunFailed'
    BY <2>1 DEF RunFailed
  <2>3. CASE DecodeBlock \/ DecodeReference
    <3>1. failed_chunks' = failed_chunks
      BY <1>1, <2>3, CountedSteps DEF DecodeBlock, DecodeReference
    <3> QED
      BY <2>2, <3>1 DEF NothingRejected
  <2>4. CASE RejectSize \/ RejectReference
    <3>1. RunFailed
      BY <1>1, <2>1, <2>4, RejectedForFailure DEF NothingRejected, TypeOK
    <3> QED
      BY <2>2, <3>1 DEF NothingRejected
  <2> QED
    BY <1>3, <2>3, <2>4 DEF Decode, DecNext
<1>4. CASE UNCHANGED <<encVars, decVars>>
  BY <1>4 DEF encVars, decVars, NothingRejected, RunFailed
<1> QED
  BY <1>2, <1>3, <1>4 DEF Next, vars, DecodeOutOfTable, DecodeEnd, Stopped

(* Without a failed kernel run the decoder has nothing to complain of.      *)
THEOREM NothingIsRejected == Safety => []NothingRejected
<1>1. Init => NothingRejected
  BY DEF Init, DecInit, NothingRejected
<1>2. ArchiveInv /\ NothingRejected /\ [Next]_vars => NothingRejected'
  BY RejectionStep
<1> QED
  BY <1>1, <1>2, ArchiveInvariance, PTL DEF Safety

-----------------------------------------------------------------------------
(* An archive that was cut *)

(* The headers of the stream that does not tell of a failed run.            *)
LEMMA SizeNotZero ==
  ASSUME NEW size \in 1..MaxPacked
  PROVE  Header(SizeHeader(size)) # Header(SizeHeader(0))
<1>1. size \in 0..MaxPacked /\ 0 \in 0..MaxPacked
  BY FormatAssumption
<1>2. Operand(SizeHeader(size)) = size /\ Operand(SizeHeader(0)) = 0
  BY <1>1, HeaderOfSize
<1>3. SizeHeader(size) # SizeHeader(0)
  BY <1>2
<1> QED
  BY <1>3 DEF Header

LEMMA IndexIsNoSize ==
  ASSUME NEW index \in 0..(MaxChunks - 1)
  PROVE  Header(IndexHeader(index)) # Header(SizeHeader(0))
<1>1. 0 \in 0..MaxPacked
  BY FormatAssumption
<1>2. ~IsBlock(IndexHeader(index)) /\ IsBlock(SizeHeader(0))
  BY <1>1, HeaderOfSize, HeaderOfIndex
<1>3. IndexHeader(index) # SizeHeader(0)
  BY <1>2
<1> QED
  BY <1>3 DEF Header

(* Where no kernel run fails, none is marked as failed.                     *)
LEMMA NoneFailsStep ==
  ASSUME ~KernelMayFail, ArchiveInv, ~RunFailed, [Next]_vars
  PROVE  ~RunFailed'
<1>1. TypeOK /\ EncoderInv
  BY DEF ArchiveInv
<1>2. CASE Encode
  <2>1. PICK cells \in Seq(Cell) :
          /\ Emit(cells) /\ lzw_chunk_index' \in Nat
          /\ \A k \in 1..Len(cells) : cells[k] # Header(SizeHeader(0))
    <3>1. i <= Len(file) /\ file[i] \in Chunk /\ lzw_chunk_index \in 0..MaxChunks
          /\ PackedSize[file[i]] \in 1..MaxPacked /\ MaxPacked \in Nat
          /\ MaxChunks \in Nat
      <4>1. i <= Len(file)
        BY <1>2 DEF Encode, EncNext, EncodeDuplicate, EncodeNew, EncodeFailed
      <4> QED
        BY <1>1, <4>1, Members
    <3>2. CASE EncodeDuplicate
      <4> DEFINE index == IndexOf(file[i])
                 cells == <<Header(IndexHeader(index))>>
      <4>1. Emit(cells) /\ lzw_chunk_index' = lzw_chunk_index
        BY <3>2 DEF EncodeDuplicate, IndexOf
      <4>2. index \in 0..(lzw_chunk_index - 1)
        BY <1>1, <3>2 DEF EncodeDuplicate, TypeOK, Known, IndexOf
      <4>3. index \in 0..(MaxChunks - 1)
        BY <3>1, <4>2
      <4> HIDE DEF index
      <4>4. cells \in Seq(Cell) /\ Len(cells) = 1 /\ cells[1] = Header(IndexHeader(index))
        BY <4>3, HeaderOfIndex, HeaderCell
      <4>5. \A k \in 1..Len(cells) : cells[k] # Header(SizeHeader(0))
        BY <4>3, <4>4, IndexIsNoSize
      <4> HIDE DEF cells
      <4> QED
        BY <3>1, <4>1, <4>4, <4>5
    <3>3. CASE EncodeNew
      <4>0. PICK c : c = file[i]
        OBVIOUS
      <4>1. PICK cells : cells = <<Header(SizeHeader(PackedSize[c]))>> \o Block(c)
        OBVIOUS
      <4>2. /\ PackedSize[c] \in 1..MaxPacked /\ PackedSize[c] \in Nat
            /\ c \in Chunk
        BY <3>1, <4>0
      <4>3. Emit(cells) /\ lzw_chunk_index' = lzw_chunk_index + 1
        BY <3>3, <4>0, <4>1 DEF EncodeNew, Emplace
      <4>4. /\ cells \in Seq(Cell) /\ Len(cells) = PackedSize[c] + 1
            /\ cells[1] = Header(SizeHeader(PackedSize[c]))
            /\ \A k \in 1..PackedSize[c] : cells[k + 1] = Packed(c, k)
        BY <4>1, <4>2, NewCells
      <4>5. ASSUME NEW k \in 1..Len(cells)
            PROVE  cells[k] # Header(SizeHeader(0))
        <5>1. CASE k = 1
          BY <4>2, <4>4, <5>1, SizeNotZero
        <5>2. CASE k # 1
          <6>1. k - 1 \in 1..PackedSize[c] /\ (k - 1) + 1 = k
            BY <4>2, <4>4, <5>2
          <6>2. cells[k] = Packed(c, k - 1)
            BY <4>4, <6>1
          <6> QED
            BY <6>2 DEF Packed, Header
        <5> QED
          BY <5>1, <5>2
      <4> QED
        BY <3>1, <4>3, <4>4, <4>5
    <3> QED
      BY <1>2, <3>2, <3>3 DEF Encode, EncNext, EncodeFailed
  <2>2. /\ Len(output_data') = Len(output_data) + Len(cells)
        /\ \A k \in 1..Len(output_data) : output_data'[k] = output_data[k]
        /\ \A k \in 1..Len(cells) : output_data'[Len(output_data) + k] = cells[k]
    BY <1>1, <2>1, Emitted
  <2>3. Len(output_data) \in Nat /\ Len(cells) \in Nat
    BY <1>1, Members, LenProperties
  <2> SUFFICES ASSUME NEW k \in 1..Len(output_data')
               PROVE  output_data'[k] # Header(SizeHeader(0))
    BY DEF RunFailed, Header, SizeHeader
  <2>4. CASE k \in 1..Len(output_data)
    BY <2>2, <2>4 DEF RunFailed
  <2>5. CASE k \notin 1..Len(output_data)
    <3>1. k - Len(output_data) \in 1..Len(cells) /\ Len(output_data) + (k - Len(output_data)) = k
      BY <2>2, <2>3, <2>5
    <3> QED
      BY <2>1, <2>2, <3>1
  <2> QED
    BY <2>4, <2>5
<1>3. CASE ~Encode
  <2>1. output_data' = output_data
    BY <1>3 DEF Next, WriteFile, Decode, DecodeOutOfTable, DecodeEnd, Stopped, vars, encVars
  <2> QED
    BY <2>1 DEF RunFailed
<1> QED
  BY <1>2, <1>3

LEMMA InvImpliesDamageIsLast ==
  ASSUME ArchiveInv, failed_chunks = 0
  PROVE  DamageIsLast
<1>1. TypeOK /\ DecoderInv
  BY DEF ArchiveInv
<1>2. /\ Output \in Seq(Chunk \cup {Garbage}) /\ file \in Seq(Chunk)
      /\ total_chunks_in_header \in Nat
  BY <1>1 DEF TypeOK
<1>3. /\ Len(Output) \in Nat /\ Len(file) \in Nat /\ i \in Nat
      /\ i <= Len(file) + 1
  BY <1>1, Members
<1>4. CASE InTurn
  <2>1. /\ Len(Output) <= Len(file)
        /\ \A k \in 1..Len(Output) : Output[k] = file[k]
    BY <1>2, <1>3, <1>4 DEF InTurn, Restored
  <2>2. SubSeq(Output, 1, Len(Output)) = SubSeq(file, 1, Len(Output))
    BY <1>3, <2>1
  <2> QED
    BY <2>1, <2>2 DEF DamageIsLast, IsPrefix
<1>5. CASE CutShort
  <2>0. PICK n : n = Len(Output) - 1
    OBVIOUS
  <2>1. /\ Eof /\ n \in 0..(Len(file) - 1) /\ Len(Output) > 0
        /\ \A k \in 1..n : Output[k] = file[k]
    BY <1>2, <1>3, <1>5, <2>0 DEF CutShort
  <2>2. PICK f : f = Front(Output)
    OBVIOUS
  <2>3. f = [k \in 1..n |-> Output[k]]
    BY <1>2, <1>3, <2>0, <2>1, <2>2 DEF Front
  <2>4. Len(f) = n
    BY <1>3, <2>1, <2>3
  <2>5. SubSeq(f, 1, Len(f)) = SubSeq(file, 1, Len(f))
    BY <1>3, <2>1, <2>3, <2>4
  <2>6. IsPrefix(f, file)
    BY <1>3, <2>1, <2>4, <2>5 DEF IsPrefix
  <2>7. Output # << >>
    BY <2>1
  <2> QED
    BY <2>1, <2>2, <2>6, <2>7 DEF DamageIsLast
<1> QED
  BY <1>1, <1>4, <1>5 DEF DecoderInv

(* However much of the archive reaches the disk: where no kernel run fails, *)
(* all that was written to the output before the cut is right.              *)
THEOREM DamageAtTheEnd ==
  ASSUME ~KernelMayFail
  PROVE  Safety => []DamageIsLast
<1>1. Init => ~RunFailed
  BY DEF Init, EncInit, RunFailed
<1>2. ArchiveInv /\ ~RunFailed /\ [Next]_vars => ~RunFailed'
  BY NoneFailsStep
<1>3. ArchiveInv /\ NothingRejected /\ ~RunFailed => DamageIsLast
  <2> SUFFICES ASSUME ArchiveInv, NothingRejected, ~RunFailed
               PROVE  DamageIsLast
    OBVIOUS
  <2>1. failed_chunks = 0
    BY DEF NothingRejected, ArchiveInv, TypeOK
  <2> QED
    BY <2>1, InvImpliesDamageIsLast
<1> QED
  BY <1>1, <1>2, <1>3, ArchiveInvariance, NothingIsRejected, PTL DEF Safety

-----------------------------------------------------------------------------
(* The statistics *)

(* The bytes of every cell of the stream, and of every chunk encoded.       *)
StreamBytes == [k \in 1..Len(output_data) |-> Bytes(output_data[k])]
FileBytes == [k \in 1..(i - 1) |-> Length[file[k]]]

(* The counters are sums, taken as the encoder goes.                        *)
StatsInv ==
    /\ SumIs(StreamBytes, 1..Len(output_data), stats.total)
    /\ stats.total = stats.dedup + stats.lzw
    /\ SumIs(FileBytes, 1..(i - 1), stats.input_dedup + stats.input_lzw)
    /\ stats.lzw_chunk = lzw_chunk_index

LEMMA SumsOfNaturals ==
  ASSUME TypeOK
  PROVE  /\ Naturals(StreamBytes, 1..Len(output_data))
         /\ Naturals(FileBytes, 1..(i - 1))
         /\ i \in Nat \ {0} /\ i - 1 \in Nat /\ Len(output_data) \in Nat
         /\ i - 1 <= Len(file)
<1>1. /\ i \in Nat \ {0} /\ i - 1 \in Nat /\ Len(output_data) \in Nat
      /\ i - 1 <= Len(file) /\ Len(file) \in Nat
      /\ \A j \in 1..Len(file) : Length[file[j]] \in Nat
  BY Members
<1>2. IsFiniteSet(1..Len(output_data)) /\ IsFiniteSet(1..(i - 1))
  BY <1>1, FS_Interval
<1>3. StreamBytes \in [1..Len(output_data) -> Nat]
  BY DEF StreamBytes, Bytes
<1>4. FileBytes \in [1..(i - 1) -> Nat]
  <2>1. \A k \in 1..(i - 1) : Length[file[k]] \in Nat
    BY <1>1
  <2> QED
    BY <2>1 DEF FileBytes
<1> QED
  BY <1>1, <1>2, <1>3, <1>4 DEF Naturals

(* A fold over a set is the sum that the counters keep, whatever the order   *)
(* in which it takes the elements.                                          *)
LEMMA StatsFromInv ==
  ASSUME ArchiveInv, StatsInv
  PROVE  StatsAddUp
<1>1. TypeOK
  BY DEF ArchiveInv
<1> DEFINE size(k) == Bytes(output_data[k])
           bytes(k) == Length[file[k]]
<1>2. DOMAIN output_data = 1..Len(output_data)
  BY <1>1, LenProperties DEF TypeOK
<1>3. PICK D, E, f, g : /\ D = 1..Len(output_data) /\ E = 1..(i - 1)
                        /\ f = StreamBytes /\ g = FileBytes
  OBVIOUS
<1>4. Naturals(f, D) /\ Naturals(g, E)
  BY <1>1, <1>3, SumsOfNaturals
<1>5. PICK t : t = MapThenSumSet(size, D)
  OBVIOUS
<1>6. SumIs(f, D, t)
  <2> DEFINE Body(h) == [s \in SUBSET D |->
               IF s = {} THEN 0
               ELSE LET x == CHOOSE x \in s : TRUE IN size(x) + h[s \ {x}]]
  <2>1. PICK h : SumsUp(h, f, D)
    BY <1>4, SumExists DEF Naturals
  <2>2. \A x \in D : f[x] = size(x)
    BY <1>3 DEF StreamBytes
  <2> HIDE DEF size
  <2>3. h = Body(h)
    BY <2>1, <2>2 DEF SumsUp
  <2>4. PICK k : k = CHOOSE l : l = Body(l)
    OBVIOUS
  <2>5. k = Body(k)
    <3> HIDE DEF Body
    <3> QED
      BY <2>3, <2>4
  <2>6. SumsUp(k, f, D)
    BY <2>2, <2>5 DEF SumsUp
  <2>7. t = k[D]
    BY <1>5, <2>4 DEF MapThenSumSet, MapThenFoldSet
  <2> QED
    BY <2>6, <2>7 DEF SumIs
<1>7. PICK u : u = MapThenSumSet(bytes, E)
  OBVIOUS
<1>8. SumIs(g, E, u)
  <2> DEFINE Body(h) == [s \in SUBSET E |->
               IF s = {} THEN 0
               ELSE LET x == CHOOSE x \in s : TRUE IN bytes(x) + h[s \ {x}]]
  <2>1. PICK h : SumsUp(h, g, E)
    BY <1>4, SumExists DEF Naturals
  <2>2. \A x \in E : g[x] = bytes(x)
    BY <1>3 DEF FileBytes
  <2> HIDE DEF bytes
  <2>3. h = Body(h)
    BY <2>1, <2>2 DEF SumsUp
  <2>4. PICK k : k = CHOOSE l : l = Body(l)
    OBVIOUS
  <2>5. k = Body(k)
    <3> HIDE DEF Body
    <3> QED
      BY <2>3, <2>4
  <2>6. SumsUp(k, g, E)
    BY <2>2, <2>5 DEF SumsUp
  <2>7. u = k[E]
    BY <1>7, <2>4 DEF MapThenSumSet, MapThenFoldSet
  <2> QED
    BY <2>6, <2>7 DEF SumIs
<1>9. t = stats.total /\ u = stats.input_dedup + stats.input_lzw
  <2>1. PICK v, w : v = stats.total /\ w = stats.input_dedup + stats.input_lzw
    OBVIOUS
  <2>2. SumIs(f, D, v) /\ SumIs(g, E, w)
    BY <1>3, <2>1 DEF StatsInv
  <2>3. t = v /\ u = w
    BY <1>4, <1>6, <1>8, <2>2, SumIsOne
  <2> QED
    BY <2>1, <2>3
<1> QED
  BY <1>2, <1>3, <1>5, <1>7, <1>9 DEF StatsAddUp, StatsInv

(* A header and p bytes more: 4 + p.                                        *)
LEMMA StreamSumGrows ==
  ASSUME TypeOK, NEW cells \in Seq(Cell), Emit(cells), lzw_chunk_index' \in Nat,
         NEW p \in Nat, Len(cells) = p + 1,
         cells[1].kind = "header", \A k \in 1..p : cells[k + 1].kind # "header",
         NEW t, SumIs(StreamBytes, 1..Len(output_data), t)
  PROVE  t \in Nat /\ SumIs(StreamBytes', 1..Len(output_data'), t + 4 + p)
<1>1. /\ Len(output_data') = Len(output_data) + Len(cells)
      /\ \A k \in 1..Len(output_data) : output_data'[k] = output_data[k]
      /\ \A k \in 1..Len(cells) : output_data'[Len(output_data) + k] = cells[k]
  BY Emitted
<1>2. /\ Naturals(StreamBytes, 1..Len(output_data))
      /\ Len(output_data) \in Nat
  BY SumsOfNaturals
<1>3. PICK n, D, f, g : /\ n = Len(output_data) /\ D = 1..n
                        /\ f = StreamBytes /\ g = StreamBytes'
  OBVIOUS
<1>4. /\ n \in Nat /\ Len(output_data') = n + 1 + p
      /\ f \in [1..n -> Nat]
  BY <1>1, <1>2, <1>3 DEF Naturals
<1>5. /\ g \in [1..(n + 1 + p) -> Nat]
      /\ \A k \in 1..(n + 1 + p) : g[k] = Bytes(output_data'[k])
  BY <1>3, <1>4 DEF StreamBytes, Bytes
<1>6. /\ AgreeOn(f, g, 1..n)
      /\ g[n + 1] = 4
      /\ \A k \in 1..p : g[n + 1 + k] = 1
  <2>1. \A k \in 1..n : k \in 1..(n + 1 + p)
    BY <1>4
  <2>2. \A k \in 1..n : f[k] = Bytes(output_data[k])
    BY <1>3 DEF StreamBytes
  <2>3. AgreeOn(f, g, 1..n)
    BY <1>1, <1>3, <1>5, <2>1, <2>2 DEF AgreeOn
  <2>4. n + 1 \in 1..(n + 1 + p) /\ 1 \in 1..Len(cells)
    BY <1>4
  <2>5. g[n + 1] = 4
    BY <1>1, <1>3, <1>5, <2>4 DEF Bytes
  <2>6. ASSUME NEW k \in 1..p PROVE g[n + 1 + k] = 1
    <3>1. n + 1 + k \in 1..(n + 1 + p) /\ k + 1 \in 1..Len(cells) /\ n + 1 + k = n + (k + 1)
      BY <1>4
    <3>2. output_data'[n + 1 + k] = cells[k + 1]
      BY <1>1, <1>3, <3>1
    <3> QED
      BY <1>5, <3>1, <3>2 DEF Bytes
  <2> QED
    BY <2>3, <2>5, <2>6
<1>7. SumIs(f, 1..n, t)
  BY <1>3
<1>8. PICK m, h : m = n + 1 /\ h = [k \in 1..m |-> g[k]]
  OBVIOUS
<1>9. /\ m \in Nat /\ h \in [1..m -> Nat] /\ AgreeOn(f, h, 1..n) /\ h[n + 1] = 4
      /\ AgreeOn(h, g, 1..m)
  <2>1. 1..m \subseteq 1..(n + 1 + p) /\ 1..n \subseteq 1..m /\ n + 1 \in 1..m /\ m \in Nat
    BY <1>4, <1>8
  <2> QED
    BY <1>5, <1>6, <1>8, <2>1 DEF AgreeOn
<1>10. t \in Nat /\ SumIs(h, 1..m, t + 4)
  <2>1. t \in Nat /\ SumIs(h, 1..(n + 1), t + h[n + 1])
    BY <1>4, <1>7, <1>8, <1>9, SumWithNext
  <2> QED
    BY <1>8, <1>9, <2>1
<1>11. SumIs(g, 1..(m + p), t + 4 + p)
  <2>1. PICK u : u = t + 4
    OBVIOUS
  <2>2. g \in [1..(m + p) -> Nat] /\ \A k \in 1..p : g[m + k] = 1
    BY <1>5, <1>6, <1>8
  <2>3. SumIs(g, 1..(m + p), u + p)
    BY <1>9, <1>10, <2>1, <2>2, SumWithOnes
  <2> QED
    BY <2>1, <2>3
<1> QED
  BY <1>3, <1>4, <1>8, <1>10, <1>11

(* One more chunk of the file.                                              *)
LEMMA FileSumGrows ==
  ASSUME TypeOK, i <= Len(file), file' = file, i' = i + 1,
         NEW t, SumIs(FileBytes, 1..(i - 1), t)
  PROVE  t \in Nat /\ SumIs(FileBytes', 1..(i' - 1), t + Length[file[i]])
<1>1. PICK n, f, g : n = i - 1 /\ f = FileBytes /\ g = FileBytes'
  OBVIOUS
<1>2. Naturals(f, 1..n) /\ n \in Nat /\ n + 1 = i /\ i' - 1 = n + 1
  <2>1. Naturals(FileBytes, 1..(i - 1)) /\ i \in Nat \ {0} /\ i - 1 \in Nat
    BY SumsOfNaturals
  <2>2. n \in Nat /\ n + 1 = i /\ i' - 1 = n + 1
    BY <1>1, <2>1
  <2> QED
    BY <1>1, <2>1, <2>2
<1>3. \A j \in 1..(n + 1) : Length[file[j]] \in Nat
  <2>1. /\ \A j \in 1..Len(file) : Length[file[j]] \in Nat
        /\ Len(file) \in Nat /\ n + 1 <= Len(file)
    BY <1>2, Members
  <2> QED
    BY <1>2, <2>1
<1>4. g = [k \in 1..(n + 1) |-> Length[file[k]]] /\ f = [k \in 1..n |-> Length[file[k]]]
  BY <1>1, <1>2 DEF FileBytes
<1>5. f \in [1..n -> Nat] /\ g \in [1..(n + 1) -> Nat]
  BY <1>2, <1>3, <1>4 DEF Naturals
<1>6. AgreeOn(f, g, 1..n) /\ g[n + 1] = Length[file[i]]
  BY <1>2, <1>4 DEF AgreeOn
<1>7. t \in Nat /\ SumIs(g, 1..(n + 1), t + g[n + 1])
  BY <1>1, <1>2, <1>5, <1>6, SumWithNext
<1> QED
  BY <1>1, <1>2, <1>6, <1>7

(* What every encoder step adds to the stream it adds to the counters.      *)
LEMMA CountedAll ==
  ASSUME TypeOK, StatsInv, i <= Len(file), NEW cells \in Seq(Cell), Emit(cells),
         lzw_chunk_index' \in Nat,
         NEW p \in Nat, Len(cells) = p + 1,
         cells[1].kind = "header", \A k \in 1..p : cells[k + 1].kind # "header",
         \/ /\ CountDuplicate(file[i])
            /\ p = 0 /\ lzw_chunk_index' = lzw_chunk_index
         \/ /\ CountBlock(file[i], p)
            /\ lzw_chunk_index' = lzw_chunk_index + 1
  PROVE  StatsInv'
<1>1. stats.total \in Nat /\ SumIs(StreamBytes', 1..Len(output_data'), stats.total + 4 + p)
  <2>1. PICK t : t = stats.total
    OBVIOUS
  <2>2. SumIs(StreamBytes, 1..Len(output_data), t)
    BY <2>1 DEF StatsInv
  <2> QED
    BY <2>1, <2>2, StreamSumGrows
<1>2. /\ stats.input_dedup + stats.input_lzw \in Nat
      /\ SumIs(FileBytes', 1..(i' - 1),
               stats.input_dedup + stats.input_lzw + Length[file[i]])
  <2>1. PICK t : t = stats.input_dedup + stats.input_lzw
    OBVIOUS
  <2>2. SumIs(FileBytes, 1..(i - 1), t)
    BY <2>1 DEF StatsInv
  <2>3. file' = file /\ i' = i + 1
    BY DEF Emit
  <2> QED
    BY <2>1, <2>2, <2>3, FileSumGrows
<1>3. file[i] \in Chunk /\ Length[file[i]] \in Nat /\ stats \in Stats
  <2>1. i \in 1..Len(file)
    BY Members
  <2> QED
    BY <2>1, Members DEF TypeOK
<1>4. PICK d, z, x, y, n, l :
          /\ d = stats.dedup /\ z = stats.lzw /\ x = stats.input_dedup
          /\ y = stats.input_lzw /\ n = stats.lzw_chunk /\ l = Length[file[i]]
  OBVIOUS
<1>5. /\ d \in Nat /\ z \in Nat /\ x \in Nat /\ y \in Nat /\ n \in Nat /\ l \in Nat
      /\ stats.total = d + z /\ n = lzw_chunk_index
  BY <1>3, <1>4 DEF Stats, StatsInv
<1>6. /\ stats'.total = d + z + 4 + p
      /\ stats'.dedup + stats'.lzw = d + z + 4 + p
      /\ stats'.input_dedup + stats'.input_lzw = x + y + l
      /\ stats'.lzw_chunk = lzw_chunk_index'
  <2>1. CASE CountBlock(file[i], p) /\ lzw_chunk_index' = lzw_chunk_index + 1
    <3>1. /\ stats'.dedup = d /\ stats'.lzw = z + 4 + p
          /\ stats'.total = d + z + 4 + p
          /\ stats'.input_dedup = x /\ stats'.input_lzw = y + l
          /\ stats'.lzw_chunk = n + 1
      BY <1>3, <1>4, <1>5, <2>1 DEF Stats, CountBlock
    <3>2. d + (z + 4 + p) = d + z + 4 + p /\ x + (y + l) = x + y + l
      BY <1>5
    <3> QED
      BY <1>5, <2>1, <3>1, <3>2
  <2>2. CASE CountDuplicate(file[i]) /\ p = 0 /\ lzw_chunk_index' = lzw_chunk_index
    <3>1. /\ stats'.dedup = d + 4 /\ stats'.lzw = z
          /\ stats'.total = d + z + 4
          /\ stats'.input_dedup = x + l /\ stats'.input_lzw = y
          /\ stats'.lzw_chunk = n
      BY <1>3, <1>4, <1>5, <2>2 DEF Stats, CountDuplicate
    <3>2. d + 4 + z = d + z + 4 + p /\ x + l + y = x + y + l /\ d + z + 4 = d + z + 4 + p
      BY <1>5, <2>2
    <3> QED
      BY <1>5, <2>2, <3>1, <3>2
  <2> QED
    BY <2>1, <2>2
<1>7. /\ SumIs(StreamBytes', 1..Len(output_data'), stats'.total)
      /\ SumIs(FileBytes', 1..(i' - 1), stats'.input_dedup + stats'.input_lzw)
  BY <1>1, <1>2, <1>4, <1>5, <1>6
<1> QED
  BY <1>6, <1>7 DEF StatsInv

LEMMA StatsInit == Init => StatsInv
<1> SUFFICES ASSUME Init PROVE StatsInv
  OBVIOUS
<1>1. TypeOK
  BY InitInv DEF ArchiveInv
<1>2. /\ output_data = << >> /\ i = 1 /\ lzw_chunk_index = 0
      /\ stats.total = 0 /\ stats.dedup = 0 /\ stats.lzw = 0
      /\ stats.input_dedup = 0 /\ stats.input_lzw = 0 /\ stats.lzw_chunk = 0
  BY DEF Init, EncInit
<1>3. ASSUME NEW f, Naturals(f, {})
      PROVE  SumIs(f, {}, 0)
  <2>1. PICK h : SumsUp(h, f, {})
    BY <1>3, SumExists DEF Naturals
  <2>2. h[{}] = 0
    BY <2>1 DEF SumsUp
  <2> QED
    BY <2>1, <2>2 DEF SumIs
<1>4. 1..Len(output_data) = {} /\ 1..(i - 1) = {}
  BY <1>2
<1>5. PICK f, g : f = StreamBytes /\ g = FileBytes
  OBVIOUS
<1>6. Naturals(f, {}) /\ Naturals(g, {})
  BY <1>1, <1>4, <1>5, SumsOfNaturals
<1>7. SumIs(StreamBytes, 1..Len(output_data), 0) /\ SumIs(FileBytes, 1..(i - 1), 0)
  BY <1>3, <1>4, <1>5, <1>6
<1> QED
  BY <1>2, <1>7 DEF StatsInv

LEMMA StatsStep ==
  ASSUME ArchiveInv, StatsInv, [Next]_vars
  PROVE  StatsInv'
<1>1. TypeOK
  BY DEF ArchiveInv
<1>2. CASE EncodeDuplicate
  <2>1. i <= Len(file) /\ Known(SHA[file[i]]) /\ lzw_chunk_index \in 0..MaxChunks
    BY <1>1, <1>2, Members DEF EncodeDuplicate
  <2>2. PICK index : index = IndexOf(file[i])
    OBVIOUS
  <2>3. index \in 0..(lzw_chunk_index - 1)
    BY <1>1, <2>1, <2>2 DEF TypeOK, Known, IndexOf
  <2>4. index \in 0..(MaxChunks - 1)
    BY <2>1, <2>3, FormatAssumption
  <2>5. PICK cells : cells = <<Header(IndexHeader(index))>>
    OBVIOUS
  <2>6. /\ cells \in Seq(Cell) /\ Len(cells) = 0 + 1 /\ cells[1].kind = "header"
        /\ \A k \in 1..0 : cells[k + 1].kind # "header"
    <3>1. cells \in Seq(Cell)
      BY <2>4, <2>5, HeaderOfIndex, HeaderCell
    <3> QED
      BY <2>5, <3>1 DEF Header
  <2>7. Emit(cells) /\ lzw_chunk_index' = lzw_chunk_index /\ CountDuplicate(file[i])
    BY <1>2, <2>2, <2>5 DEF EncodeDuplicate, IndexOf
  <2>8. lzw_chunk_index' \in Nat
    BY <2>1, <2>7, FormatAssumption
  <2> QED
    BY <1>1, <2>1, <2>6, <2>7, <2>8, CountedAll
<1>3. CASE EncodeNew
  <2>1. /\ i <= Len(file) /\ file[i] \in Chunk /\ lzw_chunk_index \in Nat
        /\ PackedSize[file[i]] \in Nat
    <3>1. i <= Len(file)
      BY <1>3 DEF EncodeNew
    <3> QED
      BY <1>1, <3>1, Members
  <2>2. PICK c, p, cells : /\ c = file[i] /\ p = PackedSize[c]
                           /\ cells = <<Header(SizeHeader(p))>> \o Block(c)
    OBVIOUS
  <2>3. /\ cells \in Seq(Cell) /\ Len(cells) = p + 1
        /\ cells[1].kind = "header"
        /\ \A k \in 1..p : cells[k + 1].kind # "header"
    <3>1. c \in Chunk /\ cells = <<Header(SizeHeader(PackedSize[c]))>> \o Block(c)
      BY <2>1, <2>2
    <3>2. /\ cells \in Seq(Cell) /\ Len(cells) = PackedSize[c] + 1
          /\ cells[1] = Header(SizeHeader(PackedSize[c]))
          /\ \A k \in 1..PackedSize[c] : cells[k + 1] = Packed(c, k)
      BY <3>1, NewCells
    <3>3. /\ cells[1].kind = "header"
          /\ \A k \in 1..PackedSize[c] : cells[k + 1].kind # "header"
      <4>1. ASSUME NEW k PROVE Packed(c, k).kind = "data"
        BY DEF Packed
      <4> QED
        BY <3>2, <4>1 DEF Header
    <3> QED
      BY <2>2, <3>2, <3>3
  <2>4. /\ Emit(cells) /\ lzw_chunk_index' = lzw_chunk_index + 1
        /\ CountBlock(file[i], p)
    BY <1>3, <2>2 DEF EncodeNew, Emplace
  <2>5. lzw_chunk_index' \in Nat /\ p \in Nat
    BY <2>1, <2>2, <2>4
  <2> QED
    BY <1>1, <2>1, <2>3, <2>4, <2>5, CountedAll
<1>4. CASE EncodeFailed
  <2>1. i <= Len(file) /\ lzw_chunk_index \in Nat
    BY <1>1, <1>4, Members DEF EncodeFailed
  <2>2. PICK cells : cells = <<Header(SizeHeader(0))>>
    OBVIOUS
  <2>3. /\ cells \in Seq(Cell) /\ Len(cells) = 0 + 1 /\ cells[1].kind = "header"
        /\ \A k \in 1..0 : cells[k + 1].kind # "header"
    <3>1. 0 \in 0..MaxPacked
      BY FormatAssumption
    <3>2. cells \in Seq(Cell)
      BY <2>2, <3>1, HeaderOfSize, HeaderCell
    <3> QED
      BY <2>2, <3>2 DEF Header
  <2>4. /\ Emit(cells) /\ lzw_chunk_index' = lzw_chunk_index + 1
        /\ CountBlock(file[i], 0)
    BY <1>4, <2>2 DEF EncodeFailed, Emplace
  <2>5. lzw_chunk_index' \in Nat
    BY <2>1, <2>4
  <2> QED
    BY <1>1, <2>1, <2>3, <2>4, <2>5, CountedAll
<1>5. CASE ~Encode
  <2>1. UNCHANGED <<output_data, file, i, stats, lzw_chunk_index>>
    BY <1>5 DEF Next, WriteFile, Decode, DecodeOutOfTable, DecodeEnd, Stopped,
                vars, encVars
  <2>2. StreamBytes' = StreamBytes /\ FileBytes' = FileBytes
    BY <2>1 DEF StreamBytes, FileBytes
  <2> QED
    BY <2>1, <2>2 DEF StatsInv
<1> QED
  BY <1>2, <1>3, <1>4, <1>5 DEF Encode, EncNext

(* The statistics are the truth after every step of every encoding: the     *)
(* totals that process_packet keeps are those of the stream and the file.   *)
THEOREM StatisticsAddUp == Safety => []StatsAddUp
<1>1. Init => ArchiveInv /\ StatsInv
  BY InitInv, StatsInit
<1>2. ArchiveInv /\ StatsInv /\ [Next]_vars => ArchiveInv' /\ StatsInv'
  BY NextKeepsInv, StatsStep
<1>3. ArchiveInv /\ StatsInv => StatsAddUp
  BY StatsFromInv
<1> QED
  BY <1>1, <1>2, <1>3, PTL DEF Safety

-----------------------------------------------------------------------------
(* Refinement of FileCopy *)

LEMMA CopyInit == Init => Copy!Init
  BY DEF Init, EncInit, DecInit, Copy!Init

(* A decoder step that fails, or follows a failure, loses a chunk; one that *)
(* does not delivers the next.                                              *)
LEMMA DecodeCopies ==
  ASSUME ~WriteMayBeShort, ArchiveInv, ArchiveInv', Decode
  PROVE  Copy!Next
<1>1. TypeOK /\ TypeOK' /\ InTurn /\ InTurn'
  BY DEF ArchiveInv, DecoderInv, CutShort, PhaseInv, Written
<1>2. /\ phase = "decode" /\ phase' = "decode" /\ file' = file /\ i' = i
      /\ i <= Len(file) + 1 /\ Len(file) \in Nat /\ i \in Nat
  BY <1>1, Members DEF Decode, encVars
<1>3. /\ failed_chunks \in Nat /\ failed_chunks' \in Nat
      /\ failed_chunks' >= failed_chunks
  <2>1. PICK ok \in BOOLEAN : Counted(ok)
    BY DEF Decode, DecNext, DecodeBlock, DecodeReference, RejectSize,
           RejectReference
  <2>2. failed_chunks' \in {failed_chunks, failed_chunks + 1}
    BY <1>1, <2>1, CountedSteps
  <2>3. failed_chunks \in Nat
    BY <1>1 DEF TypeOK
  <2> QED
    BY <2>2, <2>3
<1>4. CASE failed_chunks' > 0
  BY <1>2, <1>4 DEF Copy!Next, Copy!Lose
<1>5. CASE failed_chunks' = 0
  <2>1. failed_chunks = 0 /\ Restored /\ Restored'
    BY <1>1, <1>3, <1>5 DEF InTurn
  <2>2. DecodeBlock \/ DecodeReference
    <3>1. Counted(FALSE) => failed_chunks' # 0
      BY <1>1, CountedSteps
    <3> QED
      BY <1>5, <3>1 DEF Decode, DecNext, RejectSize, RejectReference
  <2>3. PICK c : Output' = Append(Output, c)
    BY <2>2 DEF DecodeBlock, DecodeReference
  <2> DEFINE V == Chunk \cup {Garbage}
  <2>4. Output \in Seq(V) /\ Output' \in Seq(V) /\ Len(Output) \in Nat
    BY <1>1, Members DEF TypeOK
  <2> HIDE DEF V
  <2>5. Len(Output') = Len(Output) + 1 /\ Output'[Len(Output) + 1] = c
    BY <2>3, <2>4
  <2>6. c = file[Len(Output) + 1]
    BY <1>2, <2>1, <2>4, <2>5 DEF Restored
  <2>7. Len(Output) < Len(file)
    <3>1. Len(Output') < i
      BY <1>1, <1>2, <2>1 DEF Restored, InTurn
    <3> QED BY <1>2, <2>4, <2>5, <3>1
  <2>8. Copy!Deliver
    BY <1>2, <1>5, <2>1, <2>3, <2>6, <2>7 DEF Copy!Deliver
  <2> QED
    BY <2>8 DEF Copy!Next
<1> QED
  BY <1>3, <1>4, <1>5

LEMMA EndFinishes ==
  ASSUME ~WriteMayBeShort, ArchiveInv, DecodeEnd
  PROVE  Copy!Next
<1>1. /\ phase = "decode" /\ Eof /\ phase' = "done"
      /\ UNCHANGED <<encVars, decVars>>
  BY DEF DecodeEnd
<1>2. failed_chunks = 0 => Output = file
  BY <1>1, AtTheEnd DEF ArchiveInv, PhaseInv, Written
<1>3. /\ failed_chunks \in Nat /\ successful_chunks \in Nat
      /\ successful_chunks + failed_chunks = total_chunks_in_header
  BY DEF ArchiveInv, TypeOK, DecoderInv
<1>4. AllProcessed' <=> failed_chunks = 0
  BY <1>1, <1>3 DEF AllProcessed, decVars
<1>5. Copy!Finish
  BY <1>1, <1>2, <1>3, <1>4 DEF Copy!Finish, encVars, decVars
<1> QED
  BY <1>5 DEF Copy!Next

(* Encoding and then decoding a file is a FileCopy: whatever fails on the   *)
(* way, the decoder's verdict is right.                                     *)
THEOREM ImplementsFileCopy ==
  ASSUME ~WriteMayBeShort
  PROVE  Safety => Copy!Safety
<1>1. Init => Copy!Init
  BY CopyInit
<1>2. ArchiveInv /\ ArchiveInv' /\ [Next]_vars => [Copy!Next]_(Copy!vars)
  <2> SUFFICES ASSUME ArchiveInv, ArchiveInv', [Next]_vars
               PROVE  [Copy!Next]_(Copy!vars)
    OBVIOUS
  <2>1. CASE Encode \/ WriteFile
    BY <2>1 DEF Encode, EncNext, EncodeNew, EncodeFailed, EncodeDuplicate, Emit,
                WriteFile, decVars, encVars, Copy!vars
  <2>2. CASE Decode
    BY <2>2, DecodeCopies
  <2>3. CASE DecodeOutOfTable
    BY <2>3, OutOfTableKeepsInv
  <2>4. CASE DecodeEnd
    BY <2>4, EndFinishes
  <2>5. CASE Stopped \/ UNCHANGED vars
    BY <2>5 DEF Stopped, vars, encVars, decVars, Copy!vars, AllProcessed
  <2> QED
    BY <2>1, <2>2, <2>3, <2>4, <2>5 DEF Next
<1> QED
  BY <1>1, <1>2, ArchiveInvariance, PTL DEF Safety, Copy!Safety
=============================================================================

------------------------------ MODULE LzwProofs ------------------------------
(***************************************************************************)
(* Chunks come back from their blocks, for every alphabet, width of code   *)
(* words and bound on the dictionary, and for chunks of every length.      *)
(* First the sizes of blocks: a block has room, and the decoder, which     *)
(* ends by arithmetic on bit positions, consumes all of it and nothing     *)
(* else; what the code words say does not matter for that.  Then bits:     *)
(* Read_code reads the words that were packed.  Then strings: the encoder  *)
(* keeps a parse of what it has read, and the decoder follows it.          *)
(* Last the first lzw_encode, for every hash function and size of its      *)
(* tables: it finds what it inserted, and its codes stand for the input.   *)
(***************************************************************************)
EXTENDS LzwInvariant, LzwOldInvariant, LzwVersions, Induction, SequenceTheorems

IsSequence(s) == \E S : s \in Seq(S)

(* A code word for every byte that is read, but for the string that is      *)
(* still open.                                                              *)
CodeInv ==
    /\ IsSequence(input_data) /\ IsSequence(code_words)
    /\ i \in Nat /\ i <= Len(input_data)
    /\ Len(code_words) <= i
    /\ stage = "read" => Len(code_words) < i /\ packed = 0
    /\ stage \in {"pack", "decode"} => Len(code_words) > 0

(* The bits of the code words packed so far are in the block or in the      *)
(* buffer; the block, once complete, has less than a byte more than these.  *)
BitInv ==
    /\ IsSequence(compressed_data)
    /\ packed \in Nat /\ packed <= Len(code_words) /\ bit_count \in 0..7
    /\ stage \in {"read", "pack"} =>
         8 * Len(compressed_data) + bit_count = CODE_LENGTH * packed
    /\ stage = "decode" =>
         /\ CODE_LENGTH * Len(code_words) <= 8 * Len(compressed_data)
         /\ 8 * Len(compressed_data) <= CODE_LENGTH * Len(code_words) + 7
    /\ 8 * Len(compressed_data) <= CODE_LENGTH * Len(code_words) + 7

(* The decoder is between two code words.                                   *)
PositionInv ==
    stage = "decode" =>
      \E d \in 1..Len(code_words) : Input_position = CODE_LENGTH * d

SizeInv ==
    /\ stage \in {"idle", "read", "pack", "decode"}
    /\ CodeInv /\ BitInv /\ PositionInv
-----------------------------------------------------------------------------
LEMMA Width == CODE_LENGTH \in Nat /\ CODE_LENGTH >= 9
BY LzwAssumption

LEMMA LengthOf ==
  ASSUME NEW s, IsSequence(s)
  PROVE  Len(s) \in Nat
BY LenProperties DEF IsSequence

LEMMA AppendOne ==
  ASSUME NEW s, IsSequence(s), NEW e
  PROVE  IsSequence(Append(s, e)) /\ Len(Append(s, e)) = Len(s) + 1
<1>1. PICK S : s \in Seq(S)
  BY DEF IsSequence
<1>2. s \in Seq(S \cup {e}) /\ e \in S \cup {e}
  BY <1>1
<1> QED
  BY <1>2, AppendProperties DEF IsSequence

LEMMA AppendMany ==
  ASSUME NEW s, IsSequence(s), NEW size \in Nat, NEW f, DOMAIN f = 1..size,
         f = [k \in 1..size |-> f[k]]
  PROVE  IsSequence(s \o f) /\ Len(s \o f) = Len(s) + size
<1>1. PICK S : s \in Seq(S)
  BY DEF IsSequence
<1> DEFINE T == S \cup {f[k] : k \in 1..size}
<1>2. f \in [1..size -> T]
  OBVIOUS
<1>3. s \in Seq(T)
  BY <1>1
<1> HIDE DEF T
<1>4. f \in Seq(T) /\ Len(f) = size
  BY <1>2, SeqDef
<1> QED
  BY <1>3, <1>4, ConcatProperties DEF IsSequence

LEMMA Times ==
  ASSUME NEW a \in Nat
  PROVE  CODE_LENGTH * (a + 1) = CODE_LENGTH * a + CODE_LENGTH /\ CODE_LENGTH * a \in Nat
BY Width

LEMMA TimesMonotone ==
  ASSUME NEW a \in Nat, NEW b \in Nat, a <= b
  PROVE  CODE_LENGTH * a <= CODE_LENGTH * b
BY Width

LEMMA ByEight ==
  ASSUME NEW a \in Nat
  PROVE  /\ a \div 8 \in Nat /\ a % 8 \in 0..7
         /\ 8 * (a \div 8) + (a % 8) = a
OBVIOUS
-----------------------------------------------------------------------------
(* What one code word more makes of block and buffer.                       *)
LEMMA PackStep ==
  ASSUME CodeInv, BitInv, stage = "pack", Pack
  PROVE  CodeInv' /\ BitInv'
<1>1. /\ packed < Len(code_words) /\ packed' = packed + 1
      /\ UNCHANGED <<input_data, i, code_words, stage>>
  BY DEF Pack, PackCode
<1> DEFINE count == bit_count + CODE_LENGTH
<1>2. PICK buffer : /\ bit_count' = count % 8
                    /\ compressed_data' = compressed_data \o Extracted(buffer, count)
  BY DEF Pack, PackCode
<1>3. count \in Nat
  BY Width DEF BitInv
<1> HIDE DEF count
<1>4. /\ count \div 8 \in Nat /\ count % 8 \in 0..7
      /\ 8 * (count \div 8) + (count % 8) = count
  BY <1>3, ByEight
<1>5. IsSequence(compressed_data') /\ Len(compressed_data') = Len(compressed_data) + (count \div 8)
  <2>1. /\ DOMAIN Extracted(buffer, count) = 1..(count \div 8)
        /\ Extracted(buffer, count) = [k \in 1..(count \div 8) |-> Extracted(buffer, count)[k]]
    BY DEF Extracted
  <2> QED
    BY <1>2, <1>3, <1>4, <2>1, AppendMany DEF BitInv
<1>6. /\ Len(compressed_data) \in Nat /\ Len(code_words) \in Nat /\ packed \in Nat
      /\ 8 * Len(compressed_data) + bit_count = CODE_LENGTH * packed
  BY LengthOf DEF CodeInv, BitInv
<1>7. 8 * Len(compressed_data') + bit_count' = CODE_LENGTH * packed'
  <2>1. CODE_LENGTH * packed' = CODE_LENGTH * packed + CODE_LENGTH
    BY <1>1, <1>6, Times
  <2>2. 8 * (count \div 8) + bit_count' = bit_count + CODE_LENGTH
    BY <1>2, <1>3, <1>4 DEF count
  <2>3. CODE_LENGTH * packed \in Nat /\ CODE_LENGTH \in Nat /\ bit_count \in 0..7
    BY <1>6, Times, Width DEF BitInv
  <2>4. bit_count' \in Nat
    BY <1>2, <1>3, <1>4
  <2>5. 8 * Len(compressed_data') = 8 * Len(compressed_data) + 8 * (count \div 8)
    BY <1>4, <1>5, <1>6
  <2>6. 8 * Len(compressed_data) \in Nat /\ 8 * (count \div 8) \in Nat
    BY <1>4, <1>6
  <2>7. 8 * Len(compressed_data') + bit_count' = CODE_LENGTH * packed + CODE_LENGTH
    <3> DEFINE p == CODE_LENGTH * packed
               a == 8 * Len(compressed_data)
               b == 8 * (count \div 8)
    <3>1. a + bit_count = p /\ b + bit_count' = bit_count + CODE_LENGTH
      BY <1>6, <2>2
    <3> HIDE DEF p, a, b
    <3>2. (a + b) + bit_count' = p + CODE_LENGTH
      BY <2>3, <2>4, <2>6, <3>1 DEF p, a, b
    <3> QED
      BY <2>5, <3>2 DEF p, a, b
  <2> QED
    BY <2>1, <2>7
<1>8. CODE_LENGTH * packed' <= CODE_LENGTH * Len(code_words)
  BY <1>1, <1>6, TimesMonotone
<1>9. 8 * Len(compressed_data') <= CODE_LENGTH * Len(code_words) + 7
  <2>1. Len(compressed_data') \in Nat /\ bit_count' \in Nat
    BY <1>2, <1>3, <1>4, <1>5, <1>6
  <2>2. CODE_LENGTH * packed' \in Nat /\ CODE_LENGTH * Len(code_words) \in Nat
    BY <1>1, <1>6, Times
  <2> QED
    BY <1>7, <1>8, <2>1, <2>2
<1> QED
  BY <1>1, <1>2, <1>4, <1>5, <1>6, <1>7, <1>9 DEF CodeInv, BitInv

(* The last bits take a byte of their own, if there are any.                *)
LEMMA RestoreStep ==
  ASSUME CodeInv, BitInv, Restore
  PROVE  CodeInv' /\ BitInv' /\ PositionInv'
<1>1. /\ stage = "pack" /\ stage' = "decode" /\ packed = Len(code_words)
      /\ UNCHANGED <<input_data, i, code_words, packed, bit_count>>
      /\ Input_position' = CODE_LENGTH
  BY DEF Restore, PackTail, DecodeFirst
<1>2. /\ Len(compressed_data) \in Nat /\ Len(code_words) \in Nat /\ bit_count \in 0..7
      /\ 8 * Len(compressed_data) + bit_count = CODE_LENGTH * Len(code_words)
      /\ IsSequence(compressed_data) /\ Len(code_words) > 0
  BY <1>1, LengthOf DEF CodeInv, BitInv
<1>3. CODE_LENGTH * Len(code_words) \in Nat
  BY <1>2, Times
<1>4. /\ IsSequence(compressed_data')
      /\ CODE_LENGTH * Len(code_words) <= 8 * Len(compressed_data')
      /\ 8 * Len(compressed_data') <= CODE_LENGTH * Len(code_words) + 7
  <2>1. CASE bit_count > 0
    <3>1. PICK byte : compressed_data' = Append(compressed_data, byte)
      BY <2>1 DEF Restore, PackTail
    <3>2. IsSequence(compressed_data') /\ Len(compressed_data') = Len(compressed_data) + 1
      BY <1>2, <3>1, AppendOne
    <3> QED
      BY <1>2, <1>3, <2>1, <3>2
  <2>2. CASE ~(bit_count > 0)
    <3>1. compressed_data' = compressed_data
      BY <2>2 DEF Restore, PackTail
    <3> QED
      BY <1>2, <1>3, <2>2, <3>1
  <2> QED
    BY <2>1, <2>2
<1>5. PositionInv'
  <2>1. 1 \in 1..Len(code_words') /\ Input_position' = CODE_LENGTH * 1
    BY <1>1, <1>2, Width
  <2> QED
    BY <2>1 DEF PositionInv
<1> QED
  BY <1>1, <1>2, <1>4, <1>5 DEF CodeInv, BitInv

(* The end of the loop: a position between two code words is too near to    *)
(* the end of the block exactly if no code word is left.                    *)
LEMMA MoreCodesRight ==
  ASSUME CodeInv, BitInv, stage = "decode", NEW d \in 1..Len(code_words),
         Input_position = CODE_LENGTH * d
  PROVE  /\ MoreCodes(compressed_data) <=> d < Len(code_words)
         /\ d = Len(code_words) => BytesRead = Len(compressed_data)
<1> DEFINE L == Len(compressed_data)
           N == Len(code_words)
           p == CODE_LENGTH * d
           all == CODE_LENGTH * N
<1>1. L \in Nat /\ N \in Nat /\ d \in Nat /\ d <= N
  BY LengthOf DEF CodeInv, BitInv
<1>2. p \in Nat /\ all \in Nat /\ all <= 8 * L /\ 8 * L <= all + 7
  <2>1. p \in Nat /\ all \in Nat
    BY <1>1, Times
  <2> QED
    BY <2>1 DEF BitInv
<1>3. d < N => p + 9 <= all
  <2> SUFFICES ASSUME d < N PROVE p + 9 <= all
    OBVIOUS
  <2>1. d + 1 <= N
    BY <1>1
  <2>2. CODE_LENGTH * (d + 1) <= CODE_LENGTH * N
    BY <1>1, <2>1, TimesMonotone
  <2>3. CODE_LENGTH * (d + 1) = CODE_LENGTH * d + CODE_LENGTH
    BY <1>1, Times
  <2> QED
    BY <1>2, <2>2, <2>3, Width
<1>4. d = N => p = all
  OBVIOUS
<1>5. MoreCodes(compressed_data) <=> p \div 8 < L - 1
  BY DEF MoreCodes
<1>6. BytesRead = (p + 7) \div 8
  BY DEF BytesRead
<1> HIDE DEF L, N, p, all
<1>7. p \div 8 \in Nat /\ p % 8 \in 0..7 /\ 8 * (p \div 8) + (p % 8) = p
  BY <1>2, ByEight
<1>8. (p + 7) \div 8 \in Nat /\ (p + 7) % 8 \in 0..7 /\ 8 * ((p + 7) \div 8) + ((p + 7) % 8) = p + 7
  <2>1. p + 7 \in Nat
    BY <1>2
  <2> QED
    BY <2>1, ByEight
<1>9. d < N => p \div 8 < L - 1
  BY <1>1, <1>2, <1>3, <1>7
<1>10. d = N => ~(p \div 8 < L - 1) /\ (p + 7) \div 8 = L
  BY <1>1, <1>2, <1>4, <1>7, <1>8
<1> QED
  BY <1>1, <1>5, <1>6, <1>9, <1>10 DEF L, N

LEMMA InitSizes == Init => SizeInv
<1> SUFFICES ASSUME Init PROVE SizeInv
  OBVIOUS
<1>1. /\ input_data = << >> /\ code_words = << >> /\ compressed_data = << >>
      /\ i = 0 /\ packed = 0 /\ bit_count = 0 /\ stage = "idle"
  BY DEF Init, EncInit
<1>2. IsSequence(<< >>) /\ Len(<< >>) = 0
  BY EmptySeq DEF IsSequence
<1>3. CODE_LENGTH * 0 = 0
  BY Width
<1> QED
  BY <1>1, <1>2, <1>3 DEF SizeInv, CodeInv, BitInv, PositionInv

LEMMA StepSizes == SizeInv /\ [Next]_vars => SizeInv'
<1> SUFFICES ASSUME SizeInv, [Next]_vars PROVE SizeInv'
  OBVIOUS
<1> USE DEF SizeInv
<1>0. Len(input_data) \in Nat /\ Len(code_words) \in Nat /\ Len(compressed_data) \in Nat
  BY LengthOf DEF CodeInv, BitInv
<1>1. CASE Call
  <2>0. PICK size \in 1..INPUT_SIZE : \E data \in [1..size -> Char] : EncodeCall(data)
    BY <1>1 DEF Call
  <2>1. PICK data \in [1..size -> Char] : EncodeCall(data)
    BY <2>0
  <2>2. stage' = "read" /\ input_data' = data /\ i' = 1 /\ packed' = 0 /\ bit_count' = 0
        /\ code_words' = << >> /\ compressed_data' = << >>
    BY <1>1, <2>1 DEF Call, EncodeCall
  <2>3. data \in Seq(Char) /\ Len(data) = size /\ size \in Nat /\ size >= 1
    BY LzwAssumption, SeqDef
  <2>4. IsSequence(data) /\ IsSequence(<< >>) /\ Len(<< >>) = 0
    BY <2>3, EmptySeq DEF IsSequence
  <2>5. CODE_LENGTH * 0 = 0
    BY Width
  <2> QED
    BY <2>2, <2>3, <2>4, <2>5 DEF CodeInv, BitInv, PositionInv
<1>2. CASE Read /\ LengthenString
  <2>1. /\ i < Len(input_data) /\ i' = i + 1 /\ stage = "read" /\ stage' = stage
        /\ UNCHANGED <<input_data, code_words, packed, bit_count, compressed_data>>
    BY <1>2 DEF Read, LengthenString, Reading
  <2> QED
    BY <1>0, <2>1 DEF CodeInv, BitInv, PositionInv
<1>3. CASE Read /\ EmitCode
  <2>1. /\ i < Len(input_data) /\ i' = i + 1 /\ stage = "read" /\ stage' = stage
        /\ code_words' = Append(code_words, current_code)
        /\ UNCHANGED <<input_data, packed, bit_count, compressed_data>>
    BY <1>3 DEF Read, EmitCode, Reading
  <2>2. IsSequence(code_words') /\ Len(code_words') = Len(code_words) + 1
    BY <2>1, AppendOne DEF CodeInv
  <2>3. CODE_LENGTH * Len(code_words) <= CODE_LENGTH * Len(code_words')
    BY <1>0, <2>2, TimesMonotone
  <2>4. CODE_LENGTH * Len(code_words) \in Nat /\ CODE_LENGTH * Len(code_words') \in Nat
    BY <1>0, <2>2, Times
  <2>5. CodeInv'
    BY <1>0, <2>1, <2>2 DEF CodeInv
  <2>6. BitInv'
    BY <1>0, <2>1, <2>2, <2>3, <2>4 DEF BitInv
  <2> QED
    BY <2>1, <2>5, <2>6 DEF PositionInv
<1>4. CASE ReadLast
  <2>1. /\ stage = "read" /\ stage' = "pack"
        /\ code_words' = Append(code_words, current_code)
        /\ UNCHANGED <<input_data, i, packed, bit_count, compressed_data>>
    BY <1>4 DEF ReadLast, EmitLast
  <2>2. IsSequence(code_words') /\ Len(code_words') = Len(code_words) + 1
    BY <2>1, AppendOne DEF CodeInv
  <2>3. CODE_LENGTH * Len(code_words) <= CODE_LENGTH * Len(code_words')
    BY <1>0, <2>2, TimesMonotone
  <2>4. CODE_LENGTH * Len(code_words) \in Nat /\ CODE_LENGTH * Len(code_words') \in Nat
    BY <1>0, <2>2, Times
  <2>5. CodeInv'
    BY <1>0, <2>1, <2>2 DEF CodeInv
  <2>6. BitInv'
    BY <1>0, <2>1, <2>2, <2>3, <2>4 DEF BitInv
  <2> QED
    BY <2>1, <2>5, <2>6 DEF PositionInv
<1>5. CASE Pack
  <2>1. stage = "pack" /\ stage' = stage
    BY <1>5 DEF Pack
  <2> QED
    BY <1>5, <2>1, PackStep DEF PositionInv
<1>6. CASE Restore
  <2>1. stage' = "decode"
    BY <1>6 DEF Restore
  <2> QED
    BY <1>6, <2>1, RestoreStep
<1>7. CASE RestoreNext
  <2>1. /\ stage = "decode" /\ stage' = stage /\ MoreCodes(compressed_data)
        /\ Input_position' = Input_position + CODE_LENGTH
        /\ UNCHANGED encVars
    BY <1>7 DEF RestoreNext, DecodeNext
  <2>2. PICK d \in 1..Len(code_words) : Input_position = CODE_LENGTH * d
    BY <2>1 DEF PositionInv
  <2>3. d < Len(code_words)
    BY <2>1, <2>2, MoreCodesRight
  <2>4. d + 1 \in 1..Len(code_words) /\ Input_position' = CODE_LENGTH * (d + 1)
    BY <1>0, <2>1, <2>2, <2>3, Times
  <2>5. PositionInv'
    BY <2>1, <2>4 DEF PositionInv, encVars
  <2>6. CodeInv' /\ BitInv'
    BY <2>1 DEF CodeInv, BitInv, encVars
  <2> QED
    BY <2>1, <2>5, <2>6
<1>8. CASE RestoreEnd
  <2>1. stage = "decode" /\ stage' = "idle" /\ UNCHANGED encVars
    BY <1>8 DEF RestoreEnd
  <2> QED
    BY <2>1 DEF CodeInv, BitInv, PositionInv, encVars
<1>9. CASE UNCHANGED vars
  BY <1>9 DEF CodeInv, BitInv, PositionInv, vars, encVars, decVars
<1> QED
  BY <1>1, <1>2, <1>3, <1>4, <1>5, <1>6, <1>7, <1>8, <1>9 DEF Next, Read

LEMMA Sizes == Spec => []SizeInv
BY InitSizes, StepSizes, PTL DEF Spec
-----------------------------------------------------------------------------
(* A block fits the buffer that is made for the longest chunk: no chunk has *)
(* more code words than bytes, and packing loses no bit and adds less than  *)
(* a byte.                                                                  *)
THEOREM BlocksFit == Spec => []BlockFits
<1>1. SizeInv => BlockFits
  <2> SUFFICES ASSUME SizeInv PROVE BlockFits
    OBVIOUS
  <2>1. Len(code_words) \in Nat /\ Len(input_data) \in Nat
    BY LengthOf DEF SizeInv, CodeInv
  <2> QED
    BY <2>1 DEF SizeInv, CodeInv, BitInv, BlockFits
<1> QED
  BY <1>1, Sizes, PTL

(* The loop of Decompress, which compares a bit position with Size - 1,     *)
(* ends after the last code word, and Input is then at the next header.     *)
THEOREM BlocksConsumed == Spec => []BlockConsumed
<1>1. SizeInv => BlockConsumed
  <2> SUFFICES ASSUME SizeInv, stage = "decode", ~MoreCodes(compressed_data)
               PROVE  /\ BytesRead = Len(compressed_data)
                      /\ Input_position = CODE_LENGTH * Len(code_words)
    BY DEF BlockConsumed
  <2>1. PICK d \in 1..Len(code_words) : Input_position = CODE_LENGTH * d
    BY DEF SizeInv, PositionInv
  <2>2. d = Len(code_words)
    <3>1. Len(code_words) \in Nat /\ ~(d < Len(code_words))
      BY <2>1, LengthOf, MoreCodesRight DEF SizeInv, CodeInv
    <3> QED
      BY <2>1, <3>1
  <2> QED
    BY <2>1, <2>2, MoreCodesRight DEF SizeInv
<1> QED
  BY <1>1, Sizes, PTL
-----------------------------------------------------------------------------
(* Arithmetic *)

LEMMA Constants ==
  /\ CODE_LENGTH \in Nat /\ CODE_LENGTH >= 9
  /\ BufferBits \in Nat /\ CODE_LENGTH + 7 <= BufferBits
  /\ AlphabetSize \in Nat /\ AlphabetSize >= 1 /\ AlphabetSize <= 256
  /\ MAX_DICT_SIZE \in Nat /\ AlphabetSize <= MAX_DICT_SIZE
BY LzwAssumption

(* Power is the function that its definition says.                          *)
LEMMA PowerIs ==
  /\ Power[0] = 1
  /\ \A n \in 1..BufferBits : Power[n] = 2 * Power[n - 1]
  /\ \A n \in 0..BufferBits : Power[n] \in Nat /\ Power[n] > 0
<1> DEFINE step == [x \in (1..BufferBits) \X (Nat \ {0}) |-> 2 * x[2]]
           body(f) == [n \in 0..BufferBits |-> IF n = 0 THEN 1 ELSE 2 * f[n - 1]]
<1>0. BufferBits \in Nat
  BY Constants
<1>1. IsStep(step, BufferBits, Nat \ {0})
  BY DEF IsStep
<1>2. PICK f : Iterates(f, BufferBits, Nat \ {0}, 1, step)
  <2> HIDE DEF step
  <2> QED
    BY <1>0, <1>1, PrimitiveRecursion
<1>3. /\ f \in [0..BufferBits -> Nat \ {0}] /\ f[0] = 1
      /\ \A n \in 1..BufferBits : f[n] = 2 * f[n - 1]
  <2>1. /\ f \in [0..BufferBits -> Nat \ {0}] /\ f[0] = 1
        /\ \A n \in 1..BufferBits : f[n] = step[<<n, f[n - 1]>>]
    BY <1>2 DEF Iterates
  <2>2. \A n \in 1..BufferBits : f[n - 1] \in Nat \ {0}
    BY <1>0, <2>1
  <2> QED
    BY <2>1, <2>2
<1>4. f = body(f)
  <2>1. \A n \in 0..BufferBits : f[n] = IF n = 0 THEN 1 ELSE 2 * f[n - 1]
    BY <1>0, <1>3
  <2> QED
    BY <1>3, <2>1
<1>5. Power = body(Power)
  <2>1. Power = CHOOSE g : g = body(g)
    BY DEF Power
  <2> HIDE DEF body
  <2> QED
    BY <1>4, <2>1
<1>6. \A n \in 0..BufferBits : Power[n] = IF n = 0 THEN 1 ELSE 2 * Power[n - 1]
  BY <1>5
<1> DEFINE T == {n \in 0..BufferBits : Power[n] = f[n]}
<1>7. 0 \in T
  BY <1>0, <1>3, <1>6
<1>8. \A n \in 0..(BufferBits - 1) : n \in T => n + 1 \in T
  <2> SUFFICES ASSUME NEW n \in 0..(BufferBits - 1), n \in T
               PROVE  n + 1 \in T
    OBVIOUS
  <2>1. n + 1 \in 1..BufferBits /\ (n + 1) - 1 = n
    BY <1>0
  <2>2. Power[n + 1] = 2 * Power[n] /\ f[n + 1] = 2 * f[n]
    BY <1>0, <1>3, <1>6, <2>1
  <2> QED
    BY <1>0, <2>1, <2>2
<1>9. 0..BufferBits \subseteq T
  <2> HIDE DEF T
  <2> QED
    BY <1>0, <1>7, <1>8, InductiveInterval
<1> QED
  BY <1>0, <1>3, <1>6, <1>9

LEMMA PowerSum ==
  ASSUME NEW a \in Nat, NEW b \in Nat, a + b <= BufferBits
  PROVE  Power[a + b] = Power[a] * Power[b]
<1>0. BufferBits \in Nat
  BY Constants
<1> DEFINE T == {n \in 0..b : Power[a + n] = Power[a] * Power[n]}
<1>1. 0 \in T
  <2> a + 0 = a /\ a \in 0..BufferBits
    BY <1>0
  <2> QED
    BY PowerIs
<1>2. \A n \in 0..(b - 1) : n \in T => n + 1 \in T
  <2> SUFFICES ASSUME NEW n \in 0..(b - 1), n \in T
               PROVE  n + 1 \in T
    OBVIOUS
  <2>1. /\ n + 1 \in 1..BufferBits /\ (n + 1) - 1 = n /\ n \in 0..BufferBits
        /\ a + (n + 1) \in 1..BufferBits /\ (a + (n + 1)) - 1 = a + n /\ a \in 0..BufferBits
    BY <1>0
  <2>2. Power[n + 1] = 2 * Power[n] /\ Power[a + (n + 1)] = 2 * Power[a + n]
    BY <2>1, PowerIs
  <2>3. Power[a] \in Nat /\ Power[n] \in Nat
    BY <2>1, PowerIs
  <2>4. 2 * (Power[a] * Power[n]) = Power[a] * (2 * Power[n])
    BY <2>3
  <2> QED
    BY <2>2, <2>4
<1>3. 0..b \subseteq T
  <2> HIDE DEF T
  <2> QED
    BY <1>1, <1>2, InductiveInterval
<1> QED
  BY <1>3

(* 1 << 8, and the smaller shifts.                                          *)
LEMMA PowerOne == Power[0] = 1 /\ Power[1] = 2 /\ Power[8] = 256
<1>1. /\ 1 \in 1..BufferBits /\ 2 \in 1..BufferBits /\ 3 \in 1..BufferBits /\ 4 \in 1..BufferBits
      /\ 5 \in 1..BufferBits /\ 6 \in 1..BufferBits /\ 7 \in 1..BufferBits /\ 8 \in 1..BufferBits
  BY Constants
<1>2. /\ Power[0] = 1 /\ Power[1] = 2 * Power[1 - 1] /\ Power[2] = 2 * Power[2 - 1]
      /\ Power[3] = 2 * Power[3 - 1] /\ Power[4] = 2 * Power[4 - 1]
      /\ Power[5] = 2 * Power[5 - 1] /\ Power[6] = 2 * Power[6 - 1]
      /\ Power[7] = 2 * Power[7 - 1] /\ Power[8] = 2 * Power[8 - 1]
  BY <1>1, PowerIs
<1> QED
  BY <1>2
-----------------------------------------------------------------------------
LEMMA PowerPositive ==
  ASSUME NEW n \in Nat, n <= BufferBits
  PROVE  Power[n] \in Nat /\ Power[n] > 0
BY PowerIs, Constants

LEMMA ShiftNatural ==
  ASSUME NEW w \in Nat, NEW n \in Nat, n <= BufferBits
  PROVE  w \div Power[n] \in Nat
<1>1. PICK d \in Nat : d = Power[n] /\ d > 0
  BY PowerPositive
<1> QED
  BY <1>1, Quotient

LEMMA ShiftTwice ==
  ASSUME NEW w \in Nat, NEW a \in Nat, NEW b \in Nat, a + b <= BufferBits
  PROVE  (w \div Power[a]) \div Power[b] = w \div Power[a + b]
<1>0. BufferBits \in Nat
  BY Constants
<1>1. PICK d \in Nat : d = Power[a] /\ d > 0
  BY <1>0, PowerPositive
<1>2. PICK e \in Nat : e = Power[b] /\ e > 0
  BY <1>0, PowerPositive
<1>3. (w \div d) \div e = w \div (d * e)
  BY <1>1, <1>2, QuotientTwice
<1> QED
  BY <1>1, <1>2, <1>3, PowerSum

(* Multiples of the divisor can be taken out.                               *)
TakesOut(d, x, m) == (d * x + m) \div d = x + (m \div d)

LEMMA QuotientOfSum ==
  ASSUME NEW d \in Nat, NEW x \in Nat, NEW m \in Nat,
         d > 0
  PROVE  TakesOut(d, x, m)
<1> DEFINE q == m \div d
           r == m % d
           a == d * x + m
<1>1. q \in Nat /\ r \in Nat /\ r < d /\ m = d * q + r
  BY Quotient
<1> HIDE DEF q, r
<1>2. d * (x + q) = d * x + d * q /\ d * x \in Nat /\ d * q \in Nat
  BY <1>1
<1>3. a \in Nat /\ x + q \in Nat /\ a = d * (x + q) + r
  BY <1>1, <1>2
<1> HIDE DEF a
<1>4. a \div d = x + q
  BY <1>1, <1>3, QuotientIs
<1> QED
  BY <1>4 DEF a, q, TakesOut

(* The lowest b bits of a number keep their places when the rest is cut.    *)
LEMMA BitOfRest ==
  ASSUME NEW w \in Nat, NEW b \in Nat, NEW e \in Nat,
         b <= BufferBits, e < b
  PROVE  ((w % Power[b]) \div Power[e]) % 2 = (w \div Power[e]) % 2
<1>0. BufferBits \in Nat
  BY Constants
<1>1. PICK f \in Nat : b = e + (f + 1)
  <2> b - e - 1 \in Nat
    OBVIOUS
  <2> QED
    OBVIOUS
<1>2. PICK d \in Nat : d = Power[e] /\ d > 0
  BY <1>0, PowerPositive
<1>3. PICK g \in Nat : g = Power[f] /\ g > 0
  BY <1>0, <1>1, PowerPositive
<1>4. Power[f + 1] = 2 * g
  <2> f + 1 \in 1..BufferBits /\ (f + 1) - 1 = f
    BY <1>0, <1>1
  <2> QED
    BY <1>3, PowerIs
<1>5. Power[b] = d * (2 * g)
  <2> f + 1 \in Nat
    OBVIOUS
  <2> QED
    BY <1>1, <1>2, <1>4, PowerSum
<1>6. PICK p \in Nat : p = Power[b] /\ p > 0
  BY <1>0, PowerPositive
<1> DEFINE m == w % p
           q == w \div p
<1>7. m \in Nat /\ q \in Nat /\ w = p * q + m
  BY <1>6, Quotient
<1> HIDE DEF m, q
<1>8. p * q = d * (2 * (g * q))
  BY <1>5, <1>6, <1>7
<1>9. 2 * (g * q) \in Nat /\ g * q \in Nat
  BY <1>7
<1>10. w \div d = 2 * (g * q) + (m \div d)
  <2> DEFINE x == 2 * (g * q)
  <2>1. x \in Nat /\ w = d * x + m
    BY <1>7, <1>8, <1>9
  <2> HIDE DEF x
  <2>2. TakesOut(d, x, m)
    BY <1>2, <1>7, <2>1, QuotientOfSum
  <2>3. (d * x + m) \div d = x + (m \div d)
    BY <2>2 DEF TakesOut
  <2> QED
    BY <2>1, <2>3 DEF x
<1>11. m \div d \in Nat
  BY <1>2, <1>7, Quotient
<1>12. (w \div d) % 2 = (m \div d) % 2
  <2>1. PICK k \in Nat : k = m \div d
    BY <1>11
  <2>2. PICK n \in Nat : n = g * q
    BY <1>9
  <2>3. (2 * n + k) % 2 = k % 2
    OBVIOUS
  <2> QED
    BY <1>10, <2>1, <2>2, <2>3, Zenon
<1> QED
  BY <1>2, <1>6, <1>12 DEF m

(* A number that c bits are put behind.                                     *)
Joined(B, c, w) == B * Power[c] + w

LEMMA BitOfJoined ==
  ASSUME NEW B \in Nat, NEW c \in Nat, NEW w \in Nat, NEW e \in Nat,
         c <= BufferBits, e <= BufferBits, w < Power[c]
  PROVE  /\ Joined(B, c, w) \in Nat
         /\ e < c => (Joined(B, c, w) \div Power[e]) % 2 = (w \div Power[e]) % 2
         /\ e >= c => Joined(B, c, w) \div Power[e] = B \div Power[e - c]
<1>0. BufferBits \in Nat
  BY Constants
<1>1. PICK p \in Nat : p = Power[c] /\ p > 0
  BY <1>0, PowerPositive
<1> DEFINE a == B * p + w
<1>2. B * p \in Nat /\ a \in Nat /\ a = p * B + w
  BY <1>1
<1>3. a = Joined(B, c, w)
  BY <1>1 DEF Joined
<1> HIDE DEF a
<1>4. a % p = w /\ a \div p = B
  BY <1>1, <1>2, QuotientIs
<1>5. ASSUME e < c PROVE (a \div Power[e]) % 2 = (w \div Power[e]) % 2
  BY <1>1, <1>2, <1>4, <1>5, BitOfRest
<1>6. ASSUME e >= c PROVE a \div Power[e] = B \div Power[e - c]
  <2>1. PICK f \in Nat : f = e - c /\ c + f = e
    <3> e - c \in Nat
      BY <1>6
    <3> QED
      OBVIOUS
  <2>2. (a \div Power[c]) \div Power[f] = a \div Power[c + f]
    BY <1>2, <2>1, ShiftTwice
  <2> QED
    BY <1>1, <1>4, <2>1, <2>2
<1> QED
  BY <1>2, <1>3, <1>5, <1>6
-----------------------------------------------------------------------------
(* Bits *)

(* Sequences one after the other, position by position.                     *)
LEMMA ConcatAt ==
  ASSUME NEW S, NEW s \in Seq(S), NEW t \in Seq(S)
  PROVE  /\ Len(s) \in Nat /\ Len(t) \in Nat
         /\ s \o t \in Seq(S) /\ Len(s \o t) = Len(s) + Len(t)
         /\ \A k \in 1..Len(s) : (s \o t)[k] = s[k]
         /\ \A k \in 1..Len(t) : (s \o t)[Len(s) + k] = t[k]
<1> DEFINE u == s \o t
<1>1. u \in Seq(S) /\ Len(u) = Len(s) + Len(t)
  BY ConcatProperties
<1>2. \A k \in 1..(Len(s) + Len(t)) : u[k] = IF k <= Len(s) THEN s[k] ELSE t[k - Len(s)]
  BY ConcatProperties
<1>3. Len(s) \in Nat /\ Len(t) \in Nat
  OBVIOUS
<1> HIDE DEF u
<1>4. ASSUME NEW k \in 1..Len(s) PROVE u[k] = s[k]
  BY <1>2, <1>3
<1>5. ASSUME NEW k \in 1..Len(t) PROVE u[Len(s) + k] = t[k]
  <2>1. PICK m \in 1..(Len(s) + Len(t)) : m = Len(s) + k /\ ~(m <= Len(s)) /\ m - Len(s) = k
    BY <1>3
  <2> QED
    BY <1>2, <2>1
<1> QED
  BY <1>1, <1>3, <1>4, <1>5 DEF u

LEMMA ExtractedBytes ==
  ASSUME NEW buffer \in Nat, NEW count \in Nat, count <= BufferBits
  PROVE  /\ Extracted(buffer, count) \in Seq(Byte)
         /\ Len(Extracted(buffer, count)) = count \div 8
         /\ \A k \in 1..(count \div 8) :
              /\ count - 8 * k \in Nat
              /\ Extracted(buffer, count)[k] = (buffer \div Power[count - 8 * k]) % 256
<1>0. BufferBits \in Nat
  BY Constants
<1> DEFINE n == count \div 8
           f == Extracted(buffer, count)
<1>1. n \in Nat /\ 8 * n <= count
  BY ByEight
<1>2. f = [k \in 1..n |-> (buffer \div Power[count - 8 * k]) % 256]
  BY DEF Extracted
<1> HIDE DEF n, f
<1>3. ASSUME NEW k \in 1..n
      PROVE  count - 8 * k \in Nat /\ (buffer \div Power[count - 8 * k]) % 256 \in Byte
  <2>1. count - 8 * k \in Nat /\ count - 8 * k <= BufferBits
    BY <1>0, <1>1
  <2>2. buffer \div Power[count - 8 * k] \in Nat
    BY <2>1, ShiftNatural
  <2>3. PICK v \in Nat : v = buffer \div Power[count - 8 * k]
    BY <2>2
  <2> QED
    BY <2>1, <2>3 DEF Byte
<1>4. f \in [1..n -> Byte]
  BY <1>2, <1>3
<1>5. f \in Seq(Byte) /\ Len(f) = n
  BY <1>1, <1>4, SeqDef
<1> QED
  BY <1>2, <1>3, <1>5 DEF n, f

(* A bit of a byte that holds the bits of the buffer above the lowest m.    *)
LEMMA BitOfByte ==
  ASSUME NEW buffer \in Nat, NEW m \in Nat, NEW e \in Nat, e <= 7, m + 8 <= BufferBits
  PROVE  (((buffer \div Power[m]) % 256) \div Power[e]) % 2 = (buffer \div Power[m + e]) % 2
<1>0. BufferBits \in Nat
  BY Constants
<1>1. PICK v \in Nat : v = buffer \div Power[m]
  BY <1>0, ShiftNatural
<1>2. ((v % Power[8]) \div Power[e]) % 2 = (v \div Power[e]) % 2
  BY <1>0, BitOfRest
<1>3. v \div Power[e] = buffer \div Power[m + e]
  BY <1>0, <1>1, ShiftTwice
<1> QED
  BY <1>1, <1>2, <1>3, PowerOne

(* What is taken out of the buffer keeps its place in the stream.           *)
LEMMA StreamOfBuffer ==
  ASSUME NEW block \in Seq(Byte), NEW buffer \in Nat, NEW count \in Nat, NEW p \in Nat,
         count <= BufferBits, p >= 8 * Len(block), p < 8 * Len(block) + count
  PROVE  Stream(block \o Extracted(buffer, count), buffer, count % 8, p)
           = (buffer \div Power[8 * Len(block) + count - 1 - p]) % 2
<1>0. BufferBits \in Nat
  BY Constants
<1> DEFINE bytes == Extracted(buffer, count)
           whole == block \o bytes
           L == Len(block)
           n == count \div 8
           rest == count % 8
<1>1. n \in Nat /\ rest \in 0..7 /\ 8 * n + rest = count
  BY ByEight
<1>2. /\ bytes \in Seq(Byte) /\ Len(bytes) = n
      /\ \A k \in 1..n : /\ count - 8 * k \in Nat
                         /\ bytes[k] = (buffer \div Power[count - 8 * k]) % 256
  BY ExtractedBytes
<1> HIDE DEF bytes
<1>3. Len(whole) = L + n
  BY <1>2, ConcatAt
<1>3a. \A k \in 1..n : whole[L + k] = bytes[k]
  BY <1>2, ConcatAt
<1>4. L \in Nat
  OBVIOUS
<1> HIDE DEF whole, n, rest
<1>5. CASE p >= 8 * Len(whole)
  <2>1. 8 * Len(whole) + rest - 1 - p = 8 * L + count - 1 - p
    BY <1>1, <1>3, <1>4
  <2>2. Stream(whole, buffer, rest, p) = (buffer \div Power[8 * Len(whole) + rest - 1 - p]) % 2
    <3>1. ~(p < 8 * Len(whole))
      BY <1>1, <1>3, <1>4, <1>5
    <3> QED
      BY <3>1 DEF Stream
  <2> QED
    BY <2>1, <2>2 DEF whole, bytes, rest
<1>6. CASE p < 8 * Len(whole)
  <2> DEFINE a == p \div 8
             q == p % 8
  <2>1. a \in Nat /\ q \in 0..7 /\ 8 * a + q = p
    BY ByEight
  <2>2. Stream(whole, buffer, rest, p) = Bit(whole, p)
    BY <1>6 DEF Stream
  <2>3. Bit(whole, p) = ((IF a < Len(whole) THEN whole[a + 1] ELSE 255) \div Power[7 - q]) % 2
    BY DEF Bit
  <2> HIDE DEF a, q
  <2>4. PICK k \in 1..n : k = a + 1 - L
    <3> a + 1 - L \in 1..n
      BY <1>1, <1>3, <1>4, <1>6, <2>1
    <3> QED
      OBVIOUS
  <2>5. a < Len(whole) /\ a + 1 = L + k
    BY <1>1, <1>3, <1>4, <1>6, <2>1, <2>4
  <2>6. whole[a + 1] = bytes[k]
    BY <1>3a, <2>5
  <2>7. PICK m \in Nat : m = count - 8 * k
    BY <1>2
  <2>8. m + 8 <= BufferBits
    BY <1>0, <1>1, <2>7
  <2>9. (((buffer \div Power[m]) % 256) \div Power[7 - q]) % 2
           = (buffer \div Power[m + 7 - q]) % 2
    <3>1. PICK e \in Nat : e = 7 - q
      <4> 7 - q \in Nat
        BY <2>1
      <4> QED
        OBVIOUS
    <3>2. e <= 7 /\ m + e = m + 7 - q
      BY <2>1, <3>1
    <3>3. (((buffer \div Power[m]) % 256) \div Power[e]) % 2 = (buffer \div Power[m + e]) % 2
      BY <2>8, <3>2, BitOfByte
    <3> QED
      BY <3>1, <3>2, <3>3
  <2>10. m + 7 - q = 8 * L + count - 1 - p
    BY <1>1, <1>4, <2>1, <2>4, <2>7
  <2>11. whole[a + 1] = (buffer \div Power[m]) % 256
    BY <1>2, <2>6, <2>7
  <2> QED
    BY <2>2, <2>3, <2>5, <2>9, <2>10, <2>11 DEF whole, bytes, rest
<1>7. p \in Nat /\ 8 * Len(whole) \in Nat
  BY <1>1, <1>3, <1>4
<1> QED
  BY <1>5, <1>6, <1>7

(* The bits of the bytes that are there stay.                               *)
LEMMA StreamOfBlock ==
  ASSUME NEW block \in Seq(Byte), NEW more \in Seq(Byte), NEW p \in Nat, p < 8 * Len(block)
  PROVE  Bit(block \o more, p) = Bit(block, p)
<1> DEFINE whole == block \o more
           a == p \div 8
<1>1. a \in Nat /\ p % 8 \in 0..7 /\ 8 * a + (p % 8) = p
  BY ByEight
<1>2. /\ Len(whole) = Len(block) + Len(more)
      /\ \A k \in 1..Len(block) : whole[k] = block[k]
      /\ Len(block) \in Nat /\ Len(more) \in Nat
  BY ConcatAt
<1> HIDE DEF whole, a
<1>4. a < Len(block) /\ a < Len(whole) /\ a + 1 \in 1..Len(block)
  BY <1>1, <1>2
<1>5. whole[a + 1] = block[a + 1]
  BY <1>2, <1>4
<1> QED
  BY <1>4, <1>5 DEF Bit, whole, a

(* One code word more: the stream has its bits after those it had.          *)
StreamGrows(block, B, bits, w, buffer, whole) ==
  LET count == (bits + CODE_LENGTH) % 8 IN
    /\ \A p \in 0..(8 * Len(block) + bits - 1) :
         Stream(whole, buffer, count, p) = Stream(block, B, bits, p)
    /\ \A r \in 0..(CODE_LENGTH - 1) :
         Stream(whole, buffer, count, 8 * Len(block) + bits + r) = WordBit(w, r)

LEMMA PackBits ==
  ASSUME NEW block \in Seq(Byte), NEW B \in Nat, NEW bits \in 0..7, NEW w \in Nat,
         NEW buffer, NEW whole, w < Power[CODE_LENGTH],
         buffer = Joined(B, CODE_LENGTH, w) % Power[BufferBits],
         whole = block \o Extracted(buffer, bits + CODE_LENGTH)
  PROVE  StreamGrows(block, B, bits, w, buffer, whole)
<1>0. BufferBits \in Nat /\ CODE_LENGTH \in Nat /\ CODE_LENGTH + 7 <= BufferBits
  BY Constants
<1> DEFINE joined == Joined(B, CODE_LENGTH, w)
           count == bits + CODE_LENGTH
           L == Len(block)
<1>1. joined \in Nat
  BY <1>0, BitOfJoined
<1> HIDE DEF joined
<1>2. buffer \in Nat
  <2>1. PICK d \in Nat : d = Power[BufferBits] /\ d > 0
    BY <1>0, PowerPositive
  <2> QED
    BY <1>1, <2>1, Quotient DEF joined
<1>3. count \in Nat /\ count <= BufferBits /\ L \in Nat
  BY <1>0
<1> HIDE DEF count
<1>4. ASSUME NEW e \in Nat, e < count
      PROVE  (buffer \div Power[e]) % 2 = IF e < CODE_LENGTH THEN (w \div Power[e]) % 2
                                          ELSE (B \div Power[e - CODE_LENGTH]) % 2
  <2>1. (buffer \div Power[e]) % 2 = (joined \div Power[e]) % 2
    <3>1. ((joined % Power[BufferBits]) \div Power[e]) % 2 = (joined \div Power[e]) % 2
      BY <1>0, <1>1, <1>3, <1>4, BitOfRest
    <3> QED
      BY <3>1 DEF joined
  <2>2. /\ e < CODE_LENGTH => (joined \div Power[e]) % 2 = (w \div Power[e]) % 2
        /\ e >= CODE_LENGTH => joined \div Power[e] = B \div Power[e - CODE_LENGTH]
    <3>1. e <= BufferBits /\ CODE_LENGTH <= BufferBits
      BY <1>0, <1>3, <1>4
    <3>2. PICK c \in Nat : c = CODE_LENGTH
      BY <1>0
    <3>3. w < Power[c] /\ c <= BufferBits
      BY <3>1, <3>2
    <3>4. e < c => (Joined(B, c, w) \div Power[e]) % 2 = (w \div Power[e]) % 2
      BY <3>1, <3>3, BitOfJoined
    <3>5. e >= c => Joined(B, c, w) \div Power[e] = B \div Power[e - c]
      BY <3>1, <3>3, BitOfJoined
    <3> QED
      BY <3>2, <3>4, <3>5 DEF joined
  <2> QED
    BY <1>0, <2>1, <2>2
<1>5. ASSUME NEW p \in Nat, p >= 8 * L, p < 8 * L + count
      PROVE  Stream(whole, buffer, count % 8, p) = (buffer \div Power[8 * L + count - 1 - p]) % 2
  BY <1>2, <1>3, <1>5, StreamOfBuffer DEF count
<1>6. ASSUME NEW p \in 0..(8 * L + bits - 1)
      PROVE  Stream(whole, buffer, count % 8, p) = Stream(block, B, bits, p)
  <2>1. CASE p < 8 * L
    <3>1. Extracted(buffer, count) \in Seq(Byte) /\ Len(Extracted(buffer, count)) = count \div 8
      BY <1>2, <1>3, ExtractedBytes
    <3>2. whole = block \o Extracted(buffer, count)
      BY DEF count
    <3>3. Len(whole) = L + (count \div 8) /\ count \div 8 \in Nat
      <4>1. Len(block \o Extracted(buffer, count)) = Len(block) + Len(Extracted(buffer, count))
        BY <3>1, ConcatAt
      <4> QED
        BY <1>3, <3>1, <3>2, <4>1, ByEight
    <3>4. p < 8 * Len(whole)
      BY <1>3, <2>1, <3>3
    <3>5. Bit(whole, p) = Bit(block, p)
      <4>1. p \in Nat
        BY <1>3
      <4>2. Bit(block \o Extracted(buffer, count), p) = Bit(block, p)
        BY <2>1, <3>1, <4>1, StreamOfBlock
      <4> QED
        BY <3>2, <4>2
    <3> QED
      BY <2>1, <3>4, <3>5 DEF Stream
  <2>2. CASE p >= 8 * L
    <3>1. PICK e \in Nat : e = 8 * L + count - 1 - p
      <4> 8 * L + count - 1 - p \in Nat
        BY <1>0, <1>3, <2>2 DEF count
      <4> QED
        OBVIOUS
    <3>2. e < count /\ ~(e < CODE_LENGTH) /\ e - CODE_LENGTH = 8 * L + bits - 1 - p
      BY <1>0, <1>3, <2>2, <3>1 DEF count
    <3>3. Stream(whole, buffer, count % 8, p) = (buffer \div Power[e]) % 2
      BY <1>0, <1>3, <1>5, <2>2, <3>1 DEF count
    <3>4. (buffer \div Power[e]) % 2 = (B \div Power[8 * L + bits - 1 - p]) % 2
      BY <1>4, <3>2
    <3>5. ~(p < 8 * Len(block))
      BY <1>3, <2>2
    <3> QED
      BY <3>3, <3>4, <3>5 DEF Stream
  <2> QED
    BY <1>3, <2>1, <2>2
<1>7. ASSUME NEW r \in 0..(CODE_LENGTH - 1)
      PROVE  Stream(whole, buffer, count % 8, 8 * L + bits + r) = WordBit(w, r)
  <2>1. PICK p \in Nat : p = 8 * L + bits + r
    <3> 8 * L + bits + r \in Nat
      BY <1>0, <1>3
    <3> QED
      OBVIOUS
  <2>2. PICK e \in Nat : e = CODE_LENGTH - 1 - r
    <3> CODE_LENGTH - 1 - r \in Nat
      BY <1>0
    <3> QED
      OBVIOUS
  <2>3. /\ p >= 8 * L /\ p < 8 * L + count /\ 8 * L + count - 1 - p = e
        /\ e < count /\ e < CODE_LENGTH
    BY <1>0, <1>3, <2>1, <2>2 DEF count
  <2>4. Stream(whole, buffer, count % 8, p) = (buffer \div Power[e]) % 2
    BY <1>5, <2>3
  <2>5. (buffer \div Power[e]) % 2 = (w \div Power[e]) % 2
    BY <1>4, <2>3
  <2> QED
    BY <2>1, <2>2, <2>4, <2>5 DEF WordBit
<1> QED
  BY <1>6, <1>7 DEF count, StreamGrows

(* The byte that the last bits fill has them, then zeros.                   *)
LEMMA TailBits ==
  ASSUME NEW block \in Seq(Byte), NEW B \in Nat, NEW bits \in 1..7,
         NEW p \in 0..(8 * Len(block) + bits - 1)
  PROVE  Bit(Append(block, (B * Power[8 - bits]) % 256), p) = Stream(block, B, bits, p)
<1>0. BufferBits \in Nat /\ CODE_LENGTH + 7 <= BufferBits /\ 16 <= BufferBits
  BY Constants
<1> DEFINE L == Len(block)
<1>1. PICK c \in Nat : c = 8 - bits
  <2> 8 - bits \in Nat
    OBVIOUS
  <2> QED
    OBVIOUS
<1>2. PICK joined \in Nat : joined = Joined(B, c, 0) /\ joined = B * Power[c]
  <2>1. PICK d \in Nat : d = Power[c] /\ d > 0
    BY <1>0, <1>1, PowerPositive
  <2>2. B * d + 0 \in Nat /\ B * d + 0 = B * d
    OBVIOUS
  <2> QED
    BY <2>1, <2>2 DEF Joined
<1>3. PICK byte \in Byte : byte = joined % 256
  BY DEF Byte
<1>4. PICK whole : whole = Append(block, byte)
  OBVIOUS
<1>5. /\ Len(whole) = L + 1 /\ L \in Nat
      /\ \A k \in 1..L : whole[k] = block[k]
      /\ whole[L + 1] = byte
  BY <1>4, AppendProperties
<1>6. Bit(whole, p) = Stream(block, B, bits, p)
  <2> DEFINE a == p \div 8
             q == p % 8
  <2>1. a \in Nat /\ q \in 0..7 /\ 8 * a + q = p /\ p \in Nat
    <3> p \in Nat
      BY <1>5
    <3> QED
      BY ByEight
  <2>2. /\ Bit(whole, p) = ((IF a < Len(whole) THEN whole[a + 1] ELSE 255) \div Power[7 - q]) % 2
        /\ Bit(block, p) = ((IF a < Len(block) THEN block[a + 1] ELSE 255) \div Power[7 - q]) % 2
    BY DEF Bit
  <2> HIDE DEF a, q
  <2>3. CASE p < 8 * L
    <3>1. a < L /\ a < L + 1 /\ a + 1 \in 1..L
      BY <1>5, <2>1, <2>3
    <3>2. whole[a + 1] = block[a + 1]
      BY <1>5, <3>1
    <3> QED
      BY <1>5, <2>2, <2>3, <3>1, <3>2 DEF Stream
  <2>4. CASE p >= 8 * L
    <3>1. a = L /\ q = p - 8 * L /\ q < bits
      BY <1>5, <2>1, <2>4
    <3>2. PICK e \in Nat : e = 7 - q
      <4> 7 - q \in Nat
        BY <2>1
      <4> QED
        OBVIOUS
    <3>3. e < 8 /\ e >= c /\ e - c = 8 * L + bits - 1 - p /\ e <= BufferBits
      <4>1. PICK n \in Nat, t \in 0..7 : n = L /\ t = q
        BY <1>5, <2>1
      <4>2. t = p - 8 * n /\ t < bits /\ e = 7 - t /\ p \in Nat
        BY <2>1, <3>1, <3>2, <4>1
      <4>3. e < 8 /\ e >= c /\ e - c = 8 * n + bits - 1 - p
        BY <1>1, <4>2
      <4> QED
        BY <1>0, <4>1, <4>3
    <3>4. Bit(whole, p) = (byte \div Power[e]) % 2
      BY <1>5, <2>2, <3>1, <3>2
    <3>5. (byte \div Power[e]) % 2 = (joined \div Power[e]) % 2
      <4>1. ((joined % Power[8]) \div Power[e]) % 2 = (joined \div Power[e]) % 2
        BY <1>0, <3>3, BitOfRest
      <4> QED
        BY <1>3, <4>1, PowerOne
    <3>6. joined \div Power[e] = B \div Power[e - c]
      <4>1. 0 < Power[c] /\ c <= BufferBits
        BY <1>0, <1>1, PowerPositive
      <4> QED
        BY <1>2, <3>3, <4>1, BitOfJoined
    <3>7. ~(p < 8 * Len(block))
      BY <1>5, <2>1, <2>4
    <3> QED
      BY <3>3, <3>4, <3>5, <3>6, <3>7 DEF Stream
  <2> QED
    BY <1>5, <2>1, <2>3, <2>4
<1> QED
  BY <1>1, <1>2, <1>3, <1>4, <1>6

(* Read_code reads the word whose bits it meets.                            *)
LEMMA CodeAtIs ==
  ASSUME NEW block, NEW start \in Nat, NEW w \in Nat, w < Power[CODE_LENGTH],
         \A r \in 0..(CODE_LENGTH - 1) : Bit(block, start + r) = WordBit(w, r)
  PROVE  CodeAt(block, start) = w
<1>0. BufferBits \in Nat /\ CODE_LENGTH + 7 <= BufferBits /\ CODE_LENGTH \in Nat
  BY Constants
<1> DEFINE C == CODE_LENGTH
           f == [k \in 0..C |-> w \div Power[C - k]]
           body(g) == [k \in 0..C |-> IF k = 0 THEN 0 ELSE 2 * g[k - 1] + Bit(block, start + k - 1)]
<1>1. f[0] = 0
  <2>1. PICK d \in Nat : d = Power[C] /\ d > 0
    BY <1>0, PowerPositive
  <2>2. w = d * 0 + w /\ w < d
    BY <2>1
  <2>3. w \div d = 0
    BY <2>1, <2>2, QuotientIs
  <2> QED
    BY <1>0, <2>1, <2>3
<1>2. f[C] = w
  <2>1. C - C = 0 /\ C \in 0..C
    BY <1>0
  <2>2. w \div 1 = w
    OBVIOUS
  <2> QED
    BY <2>1, <2>2, PowerOne
<1>3. ASSUME NEW k \in 1..C
      PROVE  f[k] = 2 * f[k - 1] + Bit(block, start + k - 1)
  <2>1. PICK r \in 0..(C - 1) : r = k - 1 /\ start + r = start + k - 1
    <3> k - 1 \in 0..(C - 1)
      BY <1>0
    <3> QED
      BY <1>0
  <2>2. PICK e \in Nat : e = C - k /\ e + 1 <= BufferBits /\ C - 1 - r = e /\ C - (k - 1) = e + 1
    <3> C - k \in Nat
      BY <1>0
    <3> QED
      BY <1>0, <2>1
  <2>3. PICK v \in Nat : v = w \div Power[e]
    BY <1>0, <2>2, ShiftNatural
  <2>4. (w \div Power[e]) \div Power[1] = w \div Power[e + 1]
    BY <1>0, <2>2, ShiftTwice
  <2>5. v = 2 * (v \div 2) + (v % 2)
    OBVIOUS
  <2>6. f[k] = v
    BY <1>0, <2>2, <2>3
  <2>7. f[k - 1] = v \div 2
    BY <1>0, <2>1, <2>2, <2>3, <2>4, PowerOne
  <2>8. Bit(block, start + k - 1) = v % 2
    BY <2>1, <2>2, <2>3 DEF WordBit
  <2> QED
    BY <2>5, <2>6, <2>7, <2>8
<1>4. f = body(f)
  <2>1. \A k \in 0..C : f[k] = IF k = 0 THEN 0 ELSE 2 * f[k - 1] + Bit(block, start + k - 1)
    <3> HIDE DEF f
    <3> QED
      BY <1>0, <1>1, <1>3
  <2> QED
    BY <2>1
<1> DEFINE read == CHOOSE g : g = body(g)
<1>5. CodeAt(block, start) = read[C]
  BY DEF CodeAt
<1>6. read = body(read)
  <2> HIDE DEF body, f
  <2> QED
    BY <1>4
<1>7. \A k \in 0..C : read[k] = IF k = 0 THEN 0 ELSE 2 * read[k - 1] + Bit(block, start + k - 1)
  <2> HIDE DEF read
  <2> QED
    BY <1>6
<1> DEFINE T == {k \in 0..C : read[k] = f[k]}
<1> HIDE DEF read, f
<1>8. 0 \in T
  BY <1>0, <1>1, <1>7
<1>9. \A k \in 0..(C - 1) : k \in T => k + 1 \in T
  <2> SUFFICES ASSUME NEW k \in 0..(C - 1), k \in T
               PROVE  k + 1 \in T
    OBVIOUS
  <2>1. PICK m \in 1..C : m = k + 1 /\ m - 1 = k
    BY <1>0
  <2> QED
    BY <1>0, <1>3, <1>7, <2>1
<1>10. 0..C \subseteq T
  <2> HIDE DEF T
  <2> QED
    BY <1>0, <1>8, <1>9, InductiveInterval
<1> QED
  BY <1>0, <1>2, <1>5, <1>10
-----------------------------------------------------------------------------
(* Strings *)

LEMMA Appended ==
  ASSUME NEW S, NEW s \in Seq(S), NEW e \in S
  PROVE  /\ Len(s) \in Nat /\ Append(s, e) \in Seq(S) /\ Len(Append(s, e)) = Len(s) + 1
         /\ \A k \in 1..Len(s) : Append(s, e)[k] = s[k]
         /\ Append(s, e)[Len(s) + 1] = e
         /\ Append(s, e) = s \o <<e>>
<1>1. /\ Append(s, e) \in Seq(S) /\ Len(Append(s, e)) = Len(s) + 1
      /\ \A k \in 1..Len(s) : Append(s, e)[k] = s[k]
      /\ Append(s, e)[Len(s) + 1] = e
  BY AppendProperties
<1>2. Len(s) \in Nat
  OBVIOUS
<1> DEFINE u == s \o <<e>>
           t == Append(s, e)
<1>3. <<e>> \in Seq(S) /\ Len(<<e>>) = 1 /\ <<e>>[1] = e
  OBVIOUS
<1>4. /\ u \in Seq(S) /\ Len(u) = Len(s) + 1
      /\ \A k \in 1..(Len(s) + 1) : u[k] = IF k <= Len(s) THEN s[k] ELSE <<e>>[k - Len(s)]
  BY <1>3, ConcatProperties
<1> HIDE DEF u, t
<1>5. \A k \in 1..(Len(s) + 1) : u[k] = t[k]
  <2> SUFFICES ASSUME NEW k \in 1..(Len(s) + 1)
               PROVE  u[k] = t[k]
    OBVIOUS
  <2>1. CASE k <= Len(s)
    BY <1>1, <1>2, <1>4, <2>1 DEF t
  <2>2. CASE k = Len(s) + 1
    <3>1. u[k] = <<e>>[1]
      BY <1>2, <1>4, <2>2
    <3>2. t[k] = e
      BY <1>1, <2>2 DEF t
    <3> QED
      BY <1>3, <3>1, <3>2
  <2> QED
    BY <1>2, <2>1, <2>2
<1>6. u = t
  BY <1>1, <1>4, <1>5, SeqEqual DEF t
<1> QED
  BY <1>1, <1>2, <1>6 DEF u, t

(* A piece of the data, with the piece that comes next.                     *)
LEMMA Pieces ==
  ASSUME NEW S, NEW data \in Seq(S), NEW a \in 0..Len(data), NEW b \in a..Len(data)
  PROVE  /\ SubSeq(data, a + 1, b) \in Seq(S) /\ Len(SubSeq(data, a + 1, b)) = b - a
         /\ SubSeq(data, 1, a) \o SubSeq(data, a + 1, b) = SubSeq(data, 1, b)
         /\ b < Len(data) => Append(SubSeq(data, a + 1, b), data[b + 1]) = SubSeq(data, a + 1, b + 1)
<1>1. Len(data) \in Nat /\ a \in Nat /\ b \in Nat /\ a <= b /\ b <= Len(data)
  OBVIOUS
<1>2. SubSeq(data, a + 1, b) \in Seq(S) /\ Len(SubSeq(data, a + 1, b)) = b - a
  <2>1. \A k \in (a + 1)..b : data[k] \in S
    BY <1>1, ElementOfSeq
  <2>2. PICK m \in Int : m = a + 1
    BY <1>1
  <2>3. /\ SubSeq(data, m, b) \in Seq(S)
        /\ Len(SubSeq(data, m, b)) = IF m <= b THEN b - m + 1 ELSE 0
    BY <1>1, <2>1, <2>2, SubSeqProperties
  <2> QED
    BY <1>1, <2>2, <2>3
<1>3. SubSeq(data, 1, a) \o SubSeq(data, a + 1, b) = SubSeq(data, 1, b)
  <2>1. 1 \in 1..(Len(data) + 1) /\ a \in (1 - 1)..Len(data)
    BY <1>1
  <2> QED
    BY <2>1, ConcatAdjacentSubSeq
<1>4. ASSUME b < Len(data)
      PROVE  Append(SubSeq(data, a + 1, b), data[b + 1]) = SubSeq(data, a + 1, b + 1)
  <2>0. PICK m \in 1..Len(data) : m = a + 1
    BY <1>1, <1>4
  <2>1. PICK n \in m..Len(data) : n = b + 1 /\ n - 1 = b
    BY <1>1, <1>4, <2>0
  <2>2. SubSeq(data, m, n) = SubSeq(data, m, n - 1) \o <<data[n]>>
    BY SubSeqRecursiveSecond
  <2>3. data[n] \in S
    BY <2>0, <2>1, ElementOfSeq
  <2>4. Append(SubSeq(data, m, b), data[n]) = SubSeq(data, m, b) \o <<data[n]>>
    BY <1>2, <2>0, <2>3, Appended
  <2> QED
    BY <2>0, <2>1, <2>2, <2>4
<1> QED
  BY <1>2, <1>3, <1>4
LEMMA OnePiece ==
  ASSUME NEW S, NEW data \in Seq(S), NEW b \in 1..Len(data)
  PROVE  data[b] \in S /\ SubSeq(data, b, b) = <<data[b]>>
<1>1. data[b] \in S
  BY ElementOfSeq
<1>2. b \in b..Len(data) /\ b + 1 \in Int /\ b \in Int /\ b < b + 1
  OBVIOUS
<1>3. SubSeq(data, b, b) = <<data[b]>> \o SubSeq(data, b + 1, b)
  BY <1>2, SubSeqRecursiveFirst
<1>4. SubSeq(data, b + 1, b) = << >>
  <2>1. PICK m \in Int : m = b + 1 /\ b < m
    BY <1>2
  <2>2. SubSeq(data, m, b) = << >>
    BY <1>2, <2>1, SubSeqEmpty
  <2> QED
    BY <2>1, <2>2
<1>5. <<data[b]>> \in Seq(S)
  BY <1>1
<1>6. <<data[b]>> \o << >> = <<data[b]>>
  BY <1>5, ConcatEmptySeq
<1> QED
  BY <1>1, <1>3, <1>4, <1>6
-----------------------------------------------------------------------------
(* The parse of the first character.                                        *)
LEMMA ParseFirst ==
  ASSUME NEW rows, NEW codes, NEW data \in Seq(Char), Len(data) > 0,
         Len(codes) = 1, codes[1] = data[1]
  PROVE  \E s, at : Parse(s, at, rows, AlphabetSize, codes, data, 1)
<1> DEFINE A == AlphabetSize
           s == [c \in 0..(A - 1) |-> <<c>>]
           at == [k \in 1..2 |-> k - 1]
<1>0. A \in Nat /\ A >= 1 /\ MAX_DICT_SIZE \in Nat /\ A <= MAX_DICT_SIZE
  BY Constants
<1>1. Len(data) \in Nat /\ data[1] \in Char /\ data[1] \in 0..(A - 1) /\ 1 \in 1..Len(data)
  <2>1. Len(data) \in Nat /\ 1 \in 1..Len(data)
    OBVIOUS
  <2> QED
    BY <2>1, ElementOfSeq DEF Char
<1>2. Strings(s, rows, A)
  <2>1. \A c \in 0..(A - 1) : <<c>> \in Seq(Char) /\ Len(<<c>>) = 1
    BY DEF Char
  <2>2. s \in [0..(A - 1) -> Seq(Char)]
    BY <2>1
  <2>3. \A c \in 0..(A - 1) : s[c] = <<c>> /\ c < A /\ ~(c >= A)
    BY <1>0
  <2> HIDE DEF s
  <2>4. ASSUME NEW c \in 0..(A - 1)
        PROVE  /\ Len(s[c]) > 0
               /\ c < A => s[c] = <<c>>
               /\ c >= A => /\ rows[c].prefix \in 0..(c - 1)
                            /\ s[c] = Append(s[rows[c].prefix], rows[c].char)
    <3>1. s[c] = <<c>> /\ ~(c >= A) /\ Len(<<c>>) = 1
      BY <2>1, <2>3
    <3> QED
      BY <3>1
  <2> QED
    BY <2>2, <2>4 DEF Strings
<1>3. RowsFollow(s, rows, A, codes)
  <2>1. A..(A - 1) = {}
    BY <1>0
  <2>2. A = IF A + 1 - 1 < MAX_DICT_SIZE THEN A + 1 - 1 ELSE MAX_DICT_SIZE
    BY <1>0
  <2> HIDE DEF s
  <2> QED
    BY <2>1, <2>2 DEF RowsFollow
<1>4. CodesKnown(A, codes)
  BY <1>0, <1>1 DEF CodesKnown
<1>5. Covers(s, codes, at, data, 1)
  <2>1. SubSeq(data, 1, 1) = <<data[1]>>
    BY <1>1, OnePiece
  <2>2. s[codes[1]] = <<data[1]>>
    BY <1>1
  <2>3. at \in [1..2 -> 0..1] /\ at[1] = 0 /\ at[2] = 1
    OBVIOUS
  <2> HIDE DEF s, at
  <2>4. \A k \in 1..1 : at[k] < at[k + 1] /\ s[codes[k]] = SubSeq(data, at[k] + 1, at[k + 1])
    <3> SUFFICES ASSUME NEW k \in 1..1
                 PROVE  at[k] < at[k + 1] /\ s[codes[k]] = SubSeq(data, at[k] + 1, at[k + 1])
      OBVIOUS
    <3>1. k = 1 /\ at[k] = 0 /\ at[k + 1] = 1 /\ at[k] + 1 = 1
      BY <2>3
    <3> QED
      BY <2>1, <2>2, <3>1
  <2> QED
    BY <2>3, <2>4 DEF Covers
<1> HIDE DEF s, at
<1> QED
  BY <1>2, <1>3, <1>4, <1>5 DEF Parse

(* The last code word stands for a longer string.                           *)
LEMMA ParseLengthen ==
  ASSUME NEW s, NEW at, NEW rows, NEW size \in Nat, NEW codes, NEW codes2,
         NEW data \in Seq(Char), NEW end \in Nat, NEW N \in Nat, NEW j \in AlphabetSize..(size - 1),
         Len(codes) = N, Len(codes2) = N, N > 0,
         \A k \in 1..(N - 1) : codes2[k] = codes[k], codes2[N] = j,
         end < Len(data), rows[j].prefix = codes[N], rows[j].char = data[end + 1],
         Parse(s, at, rows, size, codes, data, end)
  PROVE  \E at2 : Parse(s, at2, rows, size, codes2, data, end + 1)
<1> DEFINE A == AlphabetSize
           at2 == [k \in 1..(N + 1) |-> IF k <= N THEN at[k] ELSE end + 1]
<1>0. A \in Nat /\ A >= 1 /\ MAX_DICT_SIZE \in Nat /\ A <= MAX_DICT_SIZE /\ Len(data) \in Nat
  BY Constants
<1>1. /\ s \in [0..(size - 1) -> Seq(Char)]
      /\ \A c \in 0..(size - 1) :
           /\ Len(s[c]) > 0
           /\ c >= A => /\ rows[c].prefix \in 0..(c - 1)
                        /\ s[c] = Append(s[rows[c].prefix], rows[c].char)
  BY DEF Parse, Strings
<1>2. /\ size = IF A + N - 1 < MAX_DICT_SIZE THEN A + N - 1 ELSE MAX_DICT_SIZE
      /\ \A c \in A..(size - 1) : /\ rows[c].prefix = codes[c - A + 1]
                                  /\ rows[c].char = s[codes[c - A + 2]][1]
  BY DEF Parse, RowsFollow
<1>3. \A k \in 1..N : codes[k] \in 0..(size - 1) /\ codes[k] < A + k - 1
  BY DEF Parse, CodesKnown
<1>4. /\ at \in [1..(N + 1) -> 0..end] /\ at[1] = 0 /\ at[N + 1] = end
      /\ \A k \in 1..N : at[k] < at[k + 1] /\ s[codes[k]] = SubSeq(data, at[k] + 1, at[k + 1])
  BY DEF Parse, Covers
<1>5. /\ j \in 0..(size - 1) /\ s[j] = Append(s[codes[N]], data[end + 1])
      /\ s[codes[N]] \in Seq(Char) /\ Len(s[codes[N]]) > 0 /\ data[end + 1] \in Char
      /\ N \in 1..N
  <2>1. j \in 0..(size - 1) /\ j >= A /\ N \in 1..N
    BY <1>0
  <2>2. codes[N] \in 0..(size - 1)
    BY <1>3, <2>1
  <2>3. data[end + 1] \in Char
    <3> end + 1 \in 1..Len(data)
      BY <1>0
    <3> QED
      BY ElementOfSeq
  <2> QED
    BY <1>1, <2>1, <2>2, <2>3
<1>6. s[j][1] = s[codes[N]][1]
  <2>1. /\ Len(s[codes[N]]) \in Nat
        /\ \A k \in 1..Len(s[codes[N]]) : Append(s[codes[N]], data[end + 1])[k] = s[codes[N]][k]
    BY <1>5, Appended
  <2> QED
    BY <1>5, <2>1
<1>7. RowsFollow(s, rows, size, codes2)
  <2> SUFFICES ASSUME NEW c \in A..(size - 1)
               PROVE  /\ rows[c].prefix = codes2[c - A + 1]
                      /\ rows[c].char = s[codes2[c - A + 2]][1]
    BY <1>2 DEF RowsFollow
  <2>1. /\ rows[c].prefix = codes[c - A + 1]
        /\ rows[c].char = s[codes[c - A + 2]][1]
    BY <1>2
  <2>2. c - A + 1 \in 1..(N - 1) /\ c - A + 2 \in 1..N
    BY <1>0, <1>2
  <2>3. s[codes2[c - A + 2]][1] = s[codes[c - A + 2]][1]
    <3>1. CASE c - A + 2 = N
      BY <1>6, <3>1
    <3>2. CASE c - A + 2 # N
      <4> c - A + 2 \in 1..(N - 1)
        BY <2>2, <3>2
      <4> QED
        OBVIOUS
    <3> QED
      BY <3>1, <3>2
  <2> QED
    BY <2>1, <2>2, <2>3
<1>8. CodesKnown(size, codes2)
  <2> SUFFICES ASSUME NEW k \in 1..N
               PROVE  codes2[k] \in 0..(size - 1) /\ codes2[k] < A + k - 1
    BY DEF CodesKnown
  <2>1. CASE k = N
    BY <1>0, <1>2, <1>5, <2>1
  <2>2. CASE k # N
    <3> k \in 1..(N - 1)
      BY <2>2
    <3> QED
      BY <1>3
  <2> QED
    BY <2>1, <2>2
<1>9. Covers(s, codes2, at2, data, end + 1)
  <2>1. at2 \in [1..(N + 1) -> 0..(end + 1)] /\ at2[1] = 0 /\ at2[N + 1] = end + 1
    BY <1>4
  <2> SUFFICES ASSUME NEW k \in 1..N
               PROVE  at2[k] < at2[k + 1] /\ s[codes2[k]] = SubSeq(data, at2[k] + 1, at2[k + 1])
    <3> HIDE DEF at2
    <3> QED
      BY <2>1 DEF Covers
  <2>2. CASE k = N
    <3>1. at2[N] = at[N] /\ at2[N + 1] = end + 1 /\ at[N] < end /\ at[N] \in 0..end
      BY <1>4, <1>5
    <3>2. PICK a \in 0..Len(data) : a = at[N] /\ end \in a..Len(data)
      BY <1>0, <3>1
    <3>3. Append(SubSeq(data, a + 1, end), data[end + 1]) = SubSeq(data, a + 1, end + 1)
      BY <3>2, Pieces
    <3>4. s[j] = SubSeq(data, a + 1, end + 1)
      BY <1>4, <1>5, <3>2, <3>3
    <3> HIDE DEF at2
    <3> QED
      BY <2>2, <3>1, <3>2, <3>4
  <2>3. CASE k # N
    <3>1. k \in 1..(N - 1) /\ k + 1 <= N /\ k + 1 \in 1..(N + 1) /\ k \in 1..(N + 1)
      BY <2>3
    <3>2. at2[k] = at[k] /\ at2[k + 1] = at[k + 1] /\ codes2[k] = codes[k]
      BY <3>1
    <3> HIDE DEF at2
    <3> QED
      BY <1>4, <3>2
  <2> QED
    BY <2>2, <2>3
<1> HIDE DEF at2
<1> QED
  BY <1>7, <1>8, <1>9 DEF Parse

(* A code word more, of one character, and a row, if there is room.         *)
RowAdded(rows2, size2, rows, size, prefix, char) ==
    /\ size < MAX_DICT_SIZE =>
         /\ size2 = size + 1
         /\ \A c \in AlphabetSize..(size - 1) : rows2[c] = rows[c]
         /\ rows2[size].prefix = prefix /\ rows2[size].char = char
    /\ size >= MAX_DICT_SIZE => size2 = size /\ rows2 = rows

LEMMA ParseEmit ==
  ASSUME NEW s, NEW at, NEW rows, NEW size \in Nat, NEW codes,
         NEW rows2, NEW size2, NEW codes2,
         NEW data \in Seq(Char), NEW end \in Nat, NEW N \in Nat,
         Len(codes) = N, Len(codes2) = N + 1, N > 0,
         \A k \in 1..N : codes2[k] = codes[k], codes2[N + 1] = data[end + 1],
         end < Len(data),
         RowAdded(rows2, size2, rows, size, codes[N], data[end + 1]),
         Parse(s, at, rows, size, codes, data, end)
  PROVE  \E s2, at2 : Parse(s2, at2, rows2, size2, codes2, data, end + 1)
<1> DEFINE A == AlphabetSize
           M == MAX_DICT_SIZE
           x == data[end + 1]
           s2 == [c \in 0..(size2 - 1) |-> IF c < size THEN s[c] ELSE Append(s[codes[N]], x)]
           at2 == [k \in 1..((N + 1) + 1) |-> IF k <= N + 1 THEN at[k] ELSE end + 1]
<1>0. A \in Nat /\ A >= 1 /\ M \in Nat /\ A <= M /\ Len(data) \in Nat
  BY Constants
<1>0a. /\ size < M => /\ size2 = size + 1
                      /\ \A c \in A..(size - 1) : rows2[c] = rows[c]
                      /\ rows2[size].prefix = codes[N] /\ rows2[size].char = x
       /\ size >= M => size2 = size /\ rows2 = rows
  BY DEF RowAdded
<1>1. /\ s \in [0..(size - 1) -> Seq(Char)]
      /\ \A c \in 0..(size - 1) :
           /\ Len(s[c]) > 0
           /\ c < A => s[c] = <<c>>
           /\ c >= A => /\ rows[c].prefix \in 0..(c - 1)
                        /\ s[c] = Append(s[rows[c].prefix], rows[c].char)
  BY DEF Parse, Strings
<1>2. /\ size = IF A + N - 1 < M THEN A + N - 1 ELSE M
      /\ \A c \in A..(size - 1) : /\ rows[c].prefix = codes[c - A + 1]
                                  /\ rows[c].char = s[codes[c - A + 2]][1]
  BY DEF Parse, RowsFollow
<1>3. \A k \in 1..N : codes[k] \in 0..(size - 1) /\ codes[k] < A + k - 1
  BY DEF Parse, CodesKnown
<1>4. /\ at \in [1..(N + 1) -> 0..end] /\ at[1] = 0 /\ at[N + 1] = end
      /\ \A k \in 1..N : at[k] < at[k + 1] /\ s[codes[k]] = SubSeq(data, at[k] + 1, at[k + 1])
  BY DEF Parse, Covers
<1>5. /\ N \in 1..N /\ codes[N] \in 0..(size - 1) /\ s[codes[N]] \in Seq(Char)
      /\ Len(s[codes[N]]) > 0 /\ x \in Char /\ x \in 0..(A - 1) /\ x < A
  <2>1. N \in 1..N
    OBVIOUS
  <2>2. codes[N] \in 0..(size - 1)
    BY <1>3, <2>1
  <2>3. x \in Char
    <3> end + 1 \in 1..Len(data)
      BY <1>0
    <3> QED
      BY ElementOfSeq
  <2>4. x \in 0..(A - 1) /\ x < A
    BY <1>0, <2>3 DEF Char
  <2> QED
    BY <1>1, <2>1, <2>2, <2>3, <2>4
<1>5a. /\ size < M => size2 = size + 1
       /\ size >= M => size2 = size
  BY <1>0a
<1>6. /\ size <= M /\ A <= size /\ size2 \in Nat
      /\ size < M => size = A + N - 1 /\ size2 = size + 1
      /\ ~(size < M) => size2 = size /\ size = M /\ M <= A + N - 1
      /\ size2 = IF A + (N + 1) - 1 < M THEN A + (N + 1) - 1 ELSE M
  BY <1>0, <1>2, <1>5a
<1>7. \A c \in 0..(size - 1) : c \in 0..(size2 - 1) /\ s2[c] = s[c]
  BY <1>6
<1>8. \A c \in A..(size - 1) : rows2[c] = rows[c]
  BY <1>0, <1>0a, <1>6
<1>9. ASSUME size < M
      PROVE  /\ size \in 0..(size2 - 1) /\ s2[size] = Append(s[codes[N]], x)
             /\ Append(s[codes[N]], x) \in Seq(Char) /\ Len(Append(s[codes[N]], x)) > 0
  <2>1. size \in 0..(size2 - 1) /\ ~(size < size)
    BY <1>6, <1>9
  <2>2. s2[size] = Append(s[codes[N]], x)
    BY <2>1
  <2>3. /\ Append(s[codes[N]], x) \in Seq(Char)
        /\ Len(Append(s[codes[N]], x)) = Len(s[codes[N]]) + 1 /\ Len(s[codes[N]]) \in Nat
    BY <1>5, Appended
  <2> QED
    BY <2>1, <2>2, <2>3
<1>10. s2 \in [0..(size2 - 1) -> Seq(Char)]
  <2> SUFFICES ASSUME NEW c \in 0..(size2 - 1)
               PROVE  (IF c < size THEN s[c] ELSE Append(s[codes[N]], x)) \in Seq(Char)
    OBVIOUS
  <2>1. CASE c < size
    <3> c \in 0..(size - 1)
      BY <1>6, <2>1
    <3> QED
      BY <1>1, <2>1
  <2>2. CASE ~(c < size)
    <3> size < M
      BY <1>6, <2>2
    <3> QED
      BY <1>9, <2>2
  <2> QED
    BY <2>1, <2>2
<1> HIDE DEF s2
<1>11. ASSUME NEW c \in 0..(size2 - 1), ~(c \in 0..(size - 1))
       PROVE  c = size /\ size < M
  BY <1>0, <1>6, <1>11
<1>12. Strings(s2, rows2, size2)
  <2> SUFFICES ASSUME NEW c \in 0..(size2 - 1)
               PROVE  /\ Len(s2[c]) > 0
                      /\ c < A => s2[c] = <<c>>
                      /\ c >= A => /\ rows2[c].prefix \in 0..(c - 1)
                                   /\ s2[c] = Append(s2[rows2[c].prefix], rows2[c].char)
    BY <1>10 DEF Strings
  <2>1. CASE c \in 0..(size - 1)
    <3>1. s2[c] = s[c] /\ Len(s[c]) > 0 /\ (c < A => s[c] = <<c>>)
      BY <1>1, <1>7, <2>1
    <3>2. ASSUME c >= A
          PROVE  /\ rows2[c].prefix \in 0..(c - 1)
                 /\ s2[c] = Append(s2[rows2[c].prefix], rows2[c].char)
      <4>1. c \in A..(size - 1)
        BY <1>0, <2>1, <3>2
      <4>2. /\ rows2[c] = rows[c] /\ rows[c].prefix \in 0..(c - 1)
            /\ s[c] = Append(s[rows[c].prefix], rows[c].char)
        BY <1>1, <1>8, <2>1, <3>2, <4>1
      <4>3. rows[c].prefix \in 0..(size - 1)
        BY <2>1, <4>2
      <4> QED
        BY <1>7, <3>1, <4>2, <4>3
    <3> QED
      BY <3>1, <3>2
  <2>2. CASE ~(c \in 0..(size - 1))
    <3>1. c = size /\ size < M
      BY <1>11, <2>2
    <3>2. /\ rows2[c].prefix = codes[N] /\ rows2[c].char = x
          /\ s2[c] = Append(s[codes[N]], x) /\ Len(s2[c]) > 0 /\ ~(c < A)
      BY <1>0, <1>0a, <1>6, <1>9, <3>1
    <3>3. s2[codes[N]] = s[codes[N]] /\ codes[N] \in 0..(c - 1)
      BY <1>5, <1>7, <3>1
    <3> QED
      BY <3>2, <3>3
  <2> QED
    BY <2>1, <2>2
<1>13. RowsFollow(s2, rows2, size2, codes2)
  <2> SUFFICES ASSUME NEW c \in A..(size2 - 1)
               PROVE  /\ rows2[c].prefix = codes2[c - A + 1]
                      /\ rows2[c].char = s2[codes2[c - A + 2]][1]
    BY <1>6 DEF RowsFollow
  <2>1. CASE c \in 0..(size - 1)
    <3>1. /\ c \in A..(size - 1)
          /\ c - A + 1 \in 1..N /\ c - A + 2 \in 1..N
      <4>1. size <= A + N - 1
        BY <1>0, <1>6
      <4>2. c \in Nat /\ c < size /\ c >= A
        BY <1>0, <2>1
      <4>3. PICK m \in Nat : m = A
        BY <1>0
      <4>4. c \in m..(size - 1) /\ c - m + 1 \in 1..N /\ c - m + 2 \in 1..N
        BY <4>1, <4>2, <4>3
      <4> QED
        BY <4>3, <4>4
    <3>2. /\ rows2[c] = rows[c] /\ rows[c].prefix = codes[c - A + 1]
          /\ rows[c].char = s[codes[c - A + 2]][1]
      BY <1>2, <1>8, <3>1
    <3>3. codes2[c - A + 1] = codes[c - A + 1] /\ codes2[c - A + 2] = codes[c - A + 2]
      BY <3>1
    <3>4. codes[c - A + 2] \in 0..(size - 1)
      BY <1>3, <3>1
    <3> QED
      BY <1>7, <3>2, <3>3, <3>4
  <2>2. CASE ~(c \in 0..(size - 1))
    <3>1. c = size /\ size < M
      <4> c \in 0..(size2 - 1)
        BY <1>0, <1>6
      <4> QED
        BY <1>11, <2>2
    <3>2. rows2[c].prefix = codes[N] /\ rows2[c].char = x
      BY <1>0a, <3>1
    <3>3. c - A + 1 = N /\ c - A + 2 = N + 1
      BY <1>0, <1>6, <3>1
    <3>4. codes2[N] = codes[N] /\ codes2[N + 1] = x
      BY <1>5
    <3>5. s2[x] = <<x>> /\ <<x>>[1] = x
      <4> x \in 0..(size - 1)
        BY <1>0, <1>5, <1>6
      <4> QED
        BY <1>1, <1>5, <1>7
    <3> QED
      BY <3>2, <3>3, <3>4, <3>5
  <2> QED
    BY <2>1, <2>2
<1>14. CodesKnown(size2, codes2)
  <2> SUFFICES ASSUME NEW k \in 1..(N + 1)
               PROVE  codes2[k] \in 0..(size2 - 1) /\ codes2[k] < A + k - 1
    BY DEF CodesKnown
  <2>1. CASE k = N + 1
    <3>1. codes2[k] = x /\ x \in 0..(A - 1)
      BY <1>5, <2>1
    <3> QED
      BY <1>0, <1>6, <2>1, <3>1
  <2>2. CASE k # N + 1
    <3>1. k \in 1..N /\ codes2[k] = codes[k]
      BY <2>2
    <3>2. codes[k] \in 0..(size - 1) /\ codes[k] < A + k - 1
      BY <1>3, <3>1
    <3> QED
      BY <1>7, <3>1, <3>2
  <2> QED
    BY <2>1, <2>2
<1>15. Covers(s2, codes2, at2, data, end + 1)
  <2>1. /\ at2 \in [1..((N + 1) + 1) -> 0..(end + 1)] /\ at2[1] = 0
        /\ at2[(N + 1) + 1] = end + 1
        /\ \A k \in 1..(N + 1) : at2[k] = at[k]
    <3>1. ASSUME NEW k \in 1..((N + 1) + 1)
          PROVE  (IF k <= N + 1 THEN at[k] ELSE end + 1) \in 0..(end + 1)
      <4>1. CASE k <= N + 1
        <5> k \in 1..(N + 1)
          BY <4>1
        <5>1. at[k] \in 0..end
          BY <1>4
        <5> QED
          BY <4>1, <5>1
      <4>2. CASE ~(k <= N + 1)
        BY <4>2
      <4> QED
        BY <4>1, <4>2
    <3>2. at2 \in [1..((N + 1) + 1) -> 0..(end + 1)]
      BY <3>1
    <3>3. PICK m \in 1..((N + 1) + 1) : m = (N + 1) + 1 /\ ~(m <= N + 1)
      OBVIOUS
    <3>4. at2[m] = end + 1
      BY <3>3
    <3>5. \A k \in 1..(N + 1) : k \in 1..((N + 1) + 1) /\ k <= N + 1
      OBVIOUS
    <3>6. \A k \in 1..(N + 1) : at2[k] = at[k]
      BY <3>5
    <3> HIDE DEF at2
    <3>7. at2[1] = 0
      <4> 1 \in 1..(N + 1)
        OBVIOUS
      <4> QED
        BY <1>4, <3>6
    <3> QED
      BY <3>2, <3>3, <3>4, <3>6, <3>7
  <2> SUFFICES ASSUME NEW k \in 1..(N + 1)
               PROVE  at2[k] < at2[k + 1] /\ s2[codes2[k]] = SubSeq(data, at2[k] + 1, at2[k + 1])
    <3> HIDE DEF at2
    <3> QED
      BY <2>1 DEF Covers
  <2> HIDE DEF at2
  <2>2. CASE k = N + 1
    <3>1. at2[k] = end /\ at2[k + 1] = end + 1 /\ codes2[k] = x
      BY <1>4, <2>1, <2>2
    <3>2. s2[x] = <<x>>
      <4> x \in 0..(size - 1)
        BY <1>0, <1>5, <1>6
      <4> QED
        BY <1>1, <1>5, <1>7
    <3>3. SubSeq(data, end + 1, end + 1) = <<x>>
      <4> end + 1 \in 1..Len(data)
        BY <1>0
      <4> QED
        BY OnePiece
    <3>4. at2[k] < at2[k + 1] /\ at2[k] + 1 = end + 1
      BY <3>1
    <3> QED
      BY <3>1, <3>2, <3>3, <3>4
  <2>3. CASE k # N + 1
    <3>1. k \in 1..N /\ k + 1 \in 1..(N + 1)
      BY <2>3
    <3>2. at2[k] = at[k] /\ at2[k + 1] = at[k + 1] /\ codes2[k] = codes[k]
      BY <2>1, <3>1
    <3>3. s2[codes[k]] = s[codes[k]]
      BY <1>3, <1>7, <3>1
    <3> QED
      BY <1>4, <3>1, <3>2, <3>3
  <2> QED
    BY <2>2, <2>3
<1> HIDE DEF at2
<1> QED
  BY <1>12, <1>13, <1>14, <1>15 DEF Parse

(* What the decoder makes of the next code word.                            *)
DecodesNext(s, at, size, codes, data, d) ==
  LET old  == codes[d]
      new  == codes[d + 1]
      last == AlphabetSize + d - 1
  IN  /\ old \in 0..(size - 1) /\ old < last /\ new \in 0..(size - 1) /\ new <= last
      /\ s[old] \in Seq(Char) /\ s[new] \in Seq(Char) /\ Len(s[new]) > 0
      /\ s[old][1] \in Char /\ s[new][1] \in Char
      /\ last < size => s[last] = s[old] \o <<s[new][1]>>
      /\ new = last => s[new] = s[old] \o <<s[old][1]>>
      /\ SubSeq(data, 1, at[d + 1]) \o s[new] = SubSeq(data, 1, at[d + 2])

LEMMA ParseDecode ==
  ASSUME NEW s, NEW at, NEW rows, NEW size \in Nat, NEW codes, NEW data \in Seq(Char),
         NEW end \in Nat, NEW d \in Nat, d >= 1, d < Len(codes), Len(codes) \in Nat,
         end <= Len(data), Parse(s, at, rows, size, codes, data, end)
  PROVE  DecodesNext(s, at, size, codes, data, d)
<1> DEFINE N == Len(codes)
           old == codes[d]
           new == codes[d + 1]
           last == AlphabetSize + d - 1
<1> DEFINE A == AlphabetSize
<1>0. A \in Nat /\ A >= 1 /\ MAX_DICT_SIZE \in Nat /\ A <= MAX_DICT_SIZE /\ Len(data) \in Nat
  BY Constants
<1>1. /\ s \in [0..(size - 1) -> Seq(Char)]
      /\ \A c \in 0..(size - 1) :
           /\ Len(s[c]) > 0
           /\ c >= A => s[c] = Append(s[rows[c].prefix], rows[c].char)
  BY DEF Parse, Strings
<1>2. \A c \in A..(size - 1) : /\ rows[c].prefix = codes[c - A + 1]
                               /\ rows[c].char = s[codes[c - A + 2]][1]
  BY DEF Parse, RowsFollow
<1>3. \A k \in 1..N : codes[k] \in 0..(size - 1) /\ codes[k] < A + k - 1
  BY DEF Parse, CodesKnown
<1>4. /\ at \in [1..(N + 1) -> 0..end]
      /\ \A k \in 1..N : at[k] < at[k + 1] /\ s[codes[k]] = SubSeq(data, at[k] + 1, at[k + 1])
  BY DEF Parse, Covers
<1>5. PICK e \in 1..N : e = d + 1 /\ e + 1 = d + 2 /\ d \in 1..N
  <2> d + 1 \in 1..N /\ (d + 1) + 1 = d + 2 /\ d \in 1..N
    OBVIOUS
  <2> QED
    OBVIOUS
<1>6. old \in 0..(size - 1) /\ old < last /\ new \in 0..(size - 1) /\ new <= last
  <2>1. old \in 0..(size - 1) /\ old < A + d - 1
    BY <1>3, <1>5
  <2>2. new \in 0..(size - 1) /\ new < A + e - 1
    BY <1>3, <1>5
  <2> QED
    BY <1>0, <1>5, <2>1, <2>2
<1>7. /\ s[old] \in Seq(Char) /\ s[new] \in Seq(Char) /\ Len(s[old]) > 0 /\ Len(s[new]) > 0
      /\ s[old][1] \in Char /\ s[new][1] \in Char
  <2>1. s[old] \in Seq(Char) /\ s[new] \in Seq(Char) /\ Len(s[old]) > 0 /\ Len(s[new]) > 0
    BY <1>1, <1>6
  <2>2. 1 \in 1..Len(s[old]) /\ 1 \in 1..Len(s[new])
    BY <2>1
  <2> QED
    BY <2>1, <2>2, ElementOfSeq
<1>7a. /\ Append(s[old], s[new][1]) = s[old] \o <<s[new][1]>>
       /\ Append(s[old], s[new][1])[1] = s[old][1]
  <2>1. PICK t \in Seq(Char), x \in Char : t = s[old] /\ x = s[new][1]
    BY <1>7
  <2>2. 1 \in 1..Len(t)
    BY <1>7, <2>1
  <2>3. Append(t, x) = t \o <<x>> /\ Append(t, x)[1] = t[1]
    BY <2>2, Appended
  <2> QED
    BY <2>1, <2>3
<1>8. ASSUME last < size
      PROVE  s[last] = s[old] \o <<s[new][1]>>
  <2>1. /\ last \in A..(size - 1) /\ last \in 0..(size - 1) /\ last >= A
        /\ last - A + 1 = d /\ last - A + 2 = d + 1
    BY <1>0, <1>8
  <2>2. rows[last].prefix = old /\ rows[last].char = s[new][1]
    BY <1>2, <2>1
  <2>3. s[last] = Append(s[old], s[new][1])
    BY <1>1, <2>1, <2>2
  <2> QED
    BY <1>7a, <2>3
<1>9. ASSUME new = last
      PROVE  s[new] = s[old] \o <<s[old][1]>>
  <2>1. last < size
    BY <1>6, <1>9
  <2>2. s[last] = s[old] \o <<s[new][1]>> /\ s[last] = Append(s[old], s[new][1])
    BY <1>7a, <1>8, <2>1
  <2>3. s[last][1] = s[old][1]
    BY <1>7a, <2>2
  <2> QED
    BY <1>9, <2>2, <2>3
<1>10. SubSeq(data, 1, at[d + 1]) \o s[new] = SubSeq(data, 1, at[d + 2])
  <2>1. /\ at[e] \in 0..end /\ at[e + 1] \in 0..end /\ at[e] < at[e + 1]
        /\ s[codes[e]] = SubSeq(data, at[e] + 1, at[e + 1])
    <3> e \in 1..(N + 1) /\ e + 1 \in 1..(N + 1)
      OBVIOUS
    <3> QED
      BY <1>4
  <2>2. PICK a \in 0..Len(data) : a = at[e]
    BY <1>0, <2>1
  <2>3. PICK b \in a..Len(data) : b = at[e + 1]
    <3>1. PICK b \in 0..end : b = at[e + 1]
      BY <2>1
    <3>2. b \in a..Len(data)
      BY <1>0, <2>1, <2>2, <3>1
    <3> QED
      BY <3>1, <3>2
  <2>4. SubSeq(data, 1, a) \o SubSeq(data, a + 1, b) = SubSeq(data, 1, b)
    BY Pieces
  <2> QED
    BY <1>5, <2>1, <2>2, <2>3, <2>4
<1> QED
  BY <1>6, <1>7, <1>8, <1>9, <1>10 DEF DecodesNext

(* And of the first one.                                                    *)
DecodesFirst(s, at, size, data, old) ==
  /\ old \in Char /\ old \in 0..(size - 1) /\ s[old] = <<old>> /\ s[old][1] = old
  /\ <<old>> = SubSeq(data, 1, at[2])
  /\ \A c \in 0..(AlphabetSize - 1) : c < size => s[c] = <<c>>

LEMMA ParseDecodeFirst ==
  ASSUME NEW s, NEW at, NEW rows, NEW size \in Nat, NEW codes, NEW data, NEW end,
         Len(codes) \in Nat, Len(codes) >= 1,
         Parse(s, at, rows, size, codes, data, end)
  PROVE  DecodesFirst(s, at, size, data, codes[1])
<1> DEFINE old == codes[1]
           N == Len(codes)
<1> DEFINE A == AlphabetSize
<1>0. A \in Nat /\ A >= 1 /\ 1 \in 1..N
  BY Constants
<1>1. \A c \in 0..(size - 1) : c < A => s[c] = <<c>>
  BY DEF Parse, Strings
<1>2. old \in 0..(size - 1) /\ old < A + 1 - 1
  BY <1>0 DEF Parse, CodesKnown
<1>3. at[1] = 0 /\ s[old] = SubSeq(data, at[1] + 1, at[1 + 1])
  BY <1>0 DEF Parse, Covers
<1>4. old < A /\ old \in 0..(A - 1) /\ s[old] = <<old>>
  BY <1>0, <1>1, <1>2
<1>5. SubSeq(data, at[1] + 1, at[1 + 1]) = SubSeq(data, 1, at[2])
  BY <1>3
<1>6. \A c \in 0..(A - 1) : c < size => s[c] = <<c>>
  BY <1>0, <1>1
<1>7. old \in Char
  BY <1>4 DEF Char
<1>8. s[old][1] = old
  BY <1>4
<1>9. <<old>> = SubSeq(data, 1, at[2])
  BY <1>3, <1>4, <1>5
<1> QED
  BY <1>2, <1>4, <1>6, <1>7, <1>8, <1>9 DEF DecodesFirst

(* A complete block gives back the code words.                              *)
LEMMA BlockRead ==
  ASSUME NEW block, NEW N \in Nat, NEW words \in [1..N -> Code], NEW j \in 0..(N - 1),
         \A k \in 0..(N - 1), r \in 0..(CODE_LENGTH - 1) :
           Bit(block, CODE_LENGTH * k + r) = WordBit(words[k + 1], r)
  PROVE  CodeAt(block, CODE_LENGTH * j) = words[j + 1]
<1>1. CODE_LENGTH \in Nat /\ j \in Nat /\ j + 1 \in 1..N
  BY Constants
<1>2. PICK start \in Nat : start = CODE_LENGTH * j
  <2> CODE_LENGTH * j \in Nat
    BY <1>1
  <2> QED
    OBVIOUS
<1>3. PICK w \in Nat : w = words[j + 1] /\ w < Power[CODE_LENGTH]
  <2>1. words[j + 1] \in 0..(MAX_DICT_SIZE - 1)
    BY <1>1 DEF Code
  <2>2. MAX_DICT_SIZE \in Nat /\ MAX_DICT_SIZE <= Power[CODE_LENGTH]
    BY LzwAssumption
  <2>3. Power[CODE_LENGTH] \in Nat
    <3> CODE_LENGTH <= BufferBits
      BY Constants
    <3> QED
      BY <1>1, PowerPositive
  <2> QED
    BY <2>1, <2>2, <2>3
<1>4. \A r \in 0..(CODE_LENGTH - 1) : Bit(block, start + r) = WordBit(w, r)
  BY <1>2, <1>3
<1>5. CodeAt(block, start) = w
  BY <1>3, <1>4, CodeAtIs
<1> QED
  BY <1>2, <1>3, <1>5
-----------------------------------------------------------------------------
(* The bits of the block, step by step *)

LEMMA WordsAreCodes ==
  ASSUME TypeOK
  PROVE  /\ Len(code_words) \in Nat /\ code_words \in [1..Len(code_words) -> Code]
         /\ \A k \in 1..Len(code_words) : /\ code_words[k] \in Nat
                                          /\ code_words[k] < Power[CODE_LENGTH]
                                          /\ code_words[k] % Power[CODE_LENGTH] = code_words[k]
<1>0. dict_size \in Nat /\ dict_size <= MAX_DICT_SIZE /\ MAX_DICT_SIZE \in Nat
  BY Constants DEF TypeOK
<1>1. Len(code_words) \in Nat
  BY DEF TypeOK
<1>2. ASSUME NEW k \in 1..Len(code_words)
      PROVE  code_words[k] \in 0..(dict_size - 1)
  BY ElementOfSeq DEF TypeOK
<1>3. code_words = [k \in 1..Len(code_words) |-> code_words[k]]
  BY DEF TypeOK
<1>4. \A k \in 1..Len(code_words) : code_words[k] \in Code
  BY <1>0, <1>2 DEF Code
<1>5. PICK p \in Nat : p = Power[CODE_LENGTH] /\ p > 0 /\ MAX_DICT_SIZE <= p
  <2>1. CODE_LENGTH \in Nat /\ CODE_LENGTH <= BufferBits
    BY Constants
  <2> QED
    BY <2>1, PowerPositive, LzwAssumption
<1>6. ASSUME NEW k \in 1..Len(code_words)
      PROVE  /\ code_words[k] \in Nat /\ code_words[k] < p
             /\ code_words[k] % p = code_words[k]
  <2>1. PICK w \in Nat : w = code_words[k] /\ w < p
    BY <1>0, <1>2, <1>5
  <2>2. w = p * 0 + w
    BY <1>5
  <2>3. w % p = w
    BY <1>5, <2>1, <2>2, QuotientIs
  <2> QED
    BY <2>1, <2>3
<1>7. code_words \in [1..Len(code_words) -> Code]
  BY <1>3, <1>4
<1> QED
  BY <1>1, <1>5, <1>6, <1>7

LEMMA BufferIsNatural ==
  ASSUME TypeOK
  PROVE  bit_buffer \in Nat
<1>1. PICK p \in Nat : p = Power[BufferBits] /\ p > 0
  BY Constants, PowerPositive
<1> QED
  BY <1>1 DEF TypeOK

(* Bit positions of one code word.                                          *)
LEMMA Position ==
  ASSUME NEW n \in Nat, NEW j \in 0..(n - 1), NEW r \in 0..(CODE_LENGTH - 1)
  PROVE  CODE_LENGTH * j + r \in 0..(CODE_LENGTH * n - 1)
<1>1. CODE_LENGTH \in Nat /\ j \in Nat /\ j + 1 \in Nat /\ j + 1 <= n
  BY Constants
<1>2. /\ CODE_LENGTH * (j + 1) = CODE_LENGTH * j + CODE_LENGTH
      /\ CODE_LENGTH * j \in Nat /\ CODE_LENGTH * n \in Nat
  BY <1>1, Times
<1>3. CODE_LENGTH * (j + 1) <= CODE_LENGTH * n
  BY <1>1, TimesMonotone
<1> DEFINE x == CODE_LENGTH * j
           y == CODE_LENGTH * n
<1>4. x + CODE_LENGTH <= y /\ x \in Nat /\ y \in Nat
  BY <1>2, <1>3
<1> HIDE DEF x, y
<1>5. x + r \in 0..(y - 1)
  BY <1>1, <1>4
<1> QED
  BY <1>5 DEF x, y

LEMMA PackStream ==
  ASSUME TypeOK, SizeInv, StreamInv, Pack
  PROVE  StreamInv'
<1>1. /\ stage = "pack" /\ stage' = "pack" /\ packed' = packed + 1 /\ packed < Len(code_words)
      /\ code_words' = code_words
  BY DEF Pack, PackCode
<1>2. /\ bit_buffer' = (bit_buffer * Power[CODE_LENGTH]
                         + (code_words[packed + 1] % Power[CODE_LENGTH])) % Power[BufferBits]
      /\ bit_count' = (bit_count + CODE_LENGTH) % 8
      /\ compressed_data' = compressed_data \o Extracted(bit_buffer', bit_count + CODE_LENGTH)
  BY DEF Pack, PackCode
<1>3. /\ packed \in Nat /\ packed + 1 \in 1..Len(code_words) /\ bit_count \in 0..7
      /\ compressed_data \in Seq(Byte) /\ bit_buffer \in Nat
  BY <1>1, WordsAreCodes, BufferIsNatural DEF TypeOK, Byte
<1>4. PICK w \in Nat : /\ w = code_words[packed + 1] /\ w < Power[CODE_LENGTH]
                       /\ w % Power[CODE_LENGTH] = w
  BY <1>3, WordsAreCodes
<1>5. PICK L \in Nat : L = Len(compressed_data) /\ 8 * L + bit_count = CODE_LENGTH * packed
  BY <1>1, <1>3 DEF SizeInv, BitInv
<1>6. PICK block \in Seq(Byte), B \in Nat, bits \in 0..7, number \in Nat :
        block = compressed_data /\ B = bit_buffer /\ bits = bit_count /\ number = packed
  BY <1>3
<1>7. PICK buffer, whole, words : /\ buffer = bit_buffer' /\ whole = compressed_data'
                                  /\ words = code_words
  OBVIOUS
<1>8. /\ buffer = Joined(B, CODE_LENGTH, w) % Power[BufferBits]
      /\ whole = block \o Extracted(buffer, bits + CODE_LENGTH)
  BY <1>2, <1>4, <1>6, <1>7 DEF Joined
<1>9. StreamGrows(block, B, bits, w, buffer, whole)
  BY <1>4, <1>8, PackBits
<1>10. 8 * Len(block) + bits = CODE_LENGTH * number
  BY <1>5, <1>6
<1>11. Streamed(words, number, block, B, bits)
  BY <1>1, <1>6, <1>7 DEF StreamInv
<1>12. Streamed(words, number + 1, whole, buffer, (bits + CODE_LENGTH) % 8)
  <2> DEFINE c2 == (bits + CODE_LENGTH) % 8
             all == CODE_LENGTH * number
  <2>1. /\ \A p \in 0..(all - 1) : Stream(whole, buffer, c2, p) = Stream(block, B, bits, p)
        /\ \A r \in 0..(CODE_LENGTH - 1) : Stream(whole, buffer, c2, all + r) = WordBit(w, r)
    BY <1>9, <1>10 DEF StreamGrows
  <2> SUFFICES ASSUME NEW j \in 0..number, NEW r \in 0..(CODE_LENGTH - 1)
               PROVE  Stream(whole, buffer, c2, CODE_LENGTH * j + r) = WordBit(words[j + 1], r)
    <3> (number + 1) - 1 = number
      OBVIOUS
    <3> QED
      BY DEF Streamed
  <2> HIDE DEF c2
  <2>2. CASE j = number
    BY <1>4, <1>6, <1>7, <2>1, <2>2
  <2>3. CASE j # number
    <3>1. j \in 0..(number - 1)
      BY <2>3
    <3>2. CODE_LENGTH * j + r \in 0..(all - 1)
      BY <3>1, Position
    <3> HIDE DEF all
    <3>3. Stream(block, B, bits, CODE_LENGTH * j + r) = WordBit(words[j + 1], r)
      BY <1>11, <3>1 DEF Streamed
    <3> QED
      BY <2>1, <3>2, <3>3
  <2> QED
    BY <2>2, <2>3
<1>13. Streamed(code_words, packed, compressed_data, bit_buffer, bit_count)'
  BY <1>1, <1>2, <1>6, <1>7, <1>12 DEF Streamed
<1> QED
  BY <1>1, <1>13 DEF StreamInv

LEMMA RestoreStream ==
  ASSUME TypeOK, SizeInv, StreamInv, Restore
  PROVE  StreamInv'
<1>1. /\ stage = "pack" /\ stage' = "decode" /\ packed = Len(code_words)
      /\ code_words' = code_words
      /\ compressed_data' = IF bit_count > 0
                            THEN Append(compressed_data, (bit_buffer * Power[8 - bit_count]) % 256)
                            ELSE compressed_data
  BY DEF Restore, PackTail
<1>2. PICK block \in Seq(Byte), B \in Nat, bits \in 0..7, number \in Nat :
        block = compressed_data /\ B = bit_buffer /\ bits = bit_count /\ number = packed
  BY <1>1, WordsAreCodes, BufferIsNatural DEF TypeOK, Byte
<1>3. PICK whole, words : whole = compressed_data' /\ words = code_words
  OBVIOUS
<1>4. whole = IF bits > 0 THEN Append(block, (B * Power[8 - bits]) % 256) ELSE block
  BY <1>1, <1>2, <1>3
<1>5. PICK all \in Nat : all = CODE_LENGTH * number /\ 8 * Len(block) + bits = all
  <2>1. CODE_LENGTH * number \in Nat
    BY Times
  <2> QED
    BY <1>1, <1>2, <2>1 DEF SizeInv, BitInv
<1>6. \A p \in 0..(all - 1) : Bit(whole, p) = Stream(block, B, bits, p)
  <2>1. CASE bits > 0
    <3>1. PICK b \in 1..7 : b = bits
      BY <2>1
    <3>2. \A p \in 0..(8 * Len(block) + b - 1) :
            Bit(Append(block, (B * Power[8 - b]) % 256), p) = Stream(block, B, b, p)
      BY TailBits
    <3> QED
      BY <1>4, <1>5, <2>1, <3>1, <3>2
  <2>2. CASE bits = 0
    <3>1. whole = block /\ 8 * Len(block) = all
      BY <1>4, <1>5, <2>2
    <3> QED
      BY <3>1 DEF Stream
  <2> QED
    BY <2>1, <2>2
<1>7. Streamed(words, number, block, B, bits)
  BY <1>1, <1>2, <1>3 DEF StreamInv
<1>8. ASSUME NEW j \in 0..(number - 1), NEW r \in 0..(CODE_LENGTH - 1)
      PROVE  Bit(whole, CODE_LENGTH * j + r) = WordBit(words[j + 1], r)
  <2>1. CODE_LENGTH * j + r \in 0..(all - 1)
    BY <1>5, Position
  <2>2. Stream(block, B, bits, CODE_LENGTH * j + r) = WordBit(words[j + 1], r)
    BY <1>7 DEF Streamed
  <2> QED
    BY <1>6, <2>1, <2>2
<1>9. number = Len(code_words') /\ words = code_words'
  BY <1>1, <1>2, <1>3
<1> QED
  BY <1>1, <1>3, <1>8, <1>9 DEF StreamInv

LEMMA StreamStep ==
  ASSUME TypeOK, SizeInv, StreamInv, [Next]_vars
  PROVE  StreamInv'
<1>1. CASE Call \/ Read
  <2> stage' = "read"
    BY <1>1 DEF Call, Read
  <2> QED
    BY DEF StreamInv
<1>2. CASE ReadLast
  <2>1. /\ stage = "read" /\ stage' = "pack" /\ packed' = packed /\ packed = 0
    BY <1>2 DEF ReadLast, EmitLast, SizeInv, CodeInv
  <2>2. 0..(0 - 1) = {}
    OBVIOUS
  <2> QED
    BY <2>1, <2>2 DEF StreamInv, Streamed
<1>3. CASE Pack
  BY <1>3, PackStream
<1>4. CASE Restore
  BY <1>4, RestoreStream
<1>5. CASE RestoreNext
  BY <1>5 DEF RestoreNext, encVars, StreamInv, Streamed
<1>6. CASE RestoreEnd
  BY <1>6 DEF RestoreEnd, StreamInv
<1>7. CASE UNCHANGED vars
  BY <1>7 DEF vars, encVars, decVars, StreamInv, Streamed
<1> QED
  BY <1>1, <1>2, <1>3, <1>4, <1>5, <1>6, <1>7 DEF Next
-----------------------------------------------------------------------------
(* The parse, step by step *)

LEMMA CodesTyped ==
  ASSUME TypeOK
  PROVE  /\ Codes \in Seq(Nat) /\ Len(Codes) \in Nat /\ Len(code_words) \in Nat
         /\ stage = "read" => /\ Len(Codes) = Len(code_words) + 1
                              /\ \A k \in 1..Len(code_words) : Codes[k] = code_words[k]
                              /\ Codes[Len(code_words) + 1] = current_code
         /\ stage # "read" => Codes = code_words
<1>1. Len(code_words) \in Nat /\ code_words \in Seq(Nat)
  <2>1. 0..(dict_size - 1) \subseteq Nat
    BY Constants DEF TypeOK
  <2> QED
    BY <2>1 DEF TypeOK
<1>2. current_code \in Nat
  BY Constants DEF TypeOK
<1>3. PICK e \in Nat, w \in Seq(Nat) : e = current_code /\ w = code_words
  BY <1>1, <1>2
<1>4. /\ Append(w, e) \in Seq(Nat) /\ Len(Append(w, e)) = Len(w) + 1
      /\ \A k \in 1..Len(w) : Append(w, e)[k] = w[k]
      /\ Append(w, e)[Len(w) + 1] = e
  BY Appended
<1>5. CASE stage = "read"
  BY <1>1, <1>3, <1>4, <1>5 DEF Codes
<1>6. CASE stage # "read"
  BY <1>1, <1>6 DEF Codes
<1> QED
  BY <1>5, <1>6

LEMMA StateTyped ==
  ASSUME TypeOK
  PROVE  /\ input_data \in Seq(Char) /\ Len(input_data) \in Nat /\ i \in Nat /\ i <= Len(input_data)
         /\ dict_size \in Nat /\ AlphabetSize <= dict_size /\ dict_size <= MAX_DICT_SIZE
         /\ current_code \in Nat /\ current_code < dict_size
BY Constants DEF TypeOK

LEMMA CallTyped ==
  ASSUME TypeOK, Call
  PROVE  /\ TypeOK'
         /\ stage' = "read" /\ Len(input_data') > 0 /\ i' = 1 /\ dict_size' = AlphabetSize
         /\ current_code' = input_data'[1] /\ code_words' = << >>
<1>0. PICK size \in 1..INPUT_SIZE : \E data \in [1..size -> Char] : EncodeCall(data)
  BY DEF Call
<1>1. PICK data \in [1..size -> Char] : EncodeCall(data)
  BY <1>0
<1>2. /\ stage' = "read" /\ input_data' = data /\ i' = 1 /\ dict_size' = AlphabetSize
      /\ current_code' = data[1] /\ code_words' = << >> /\ packed' = 0
      /\ bit_buffer' = 0 /\ bit_count' = 0 /\ compressed_data' = << >>
      /\ dictionary' = dictionary /\ calls' = calls + 1 /\ calls < MaxCalls
      /\ UNCHANGED decVars
  BY <1>1 DEF Call, EncodeCall
<1>3. data \in Seq(Char) /\ Len(data) = size /\ size \in Nat /\ size >= 1
  BY LzwAssumption, SeqDef
<1>4. data[1] \in Char /\ data[1] \in 0..(AlphabetSize - 1)
  <2> 1 \in 1..size
    BY <1>3
  <2> QED
    BY DEF Char
<1>5. 0 \in 0..(Power[BufferBits] - 1)
  <2>1. PICK p \in Nat : p = Power[BufferBits] /\ p > 0
    BY Constants, PowerPositive
  <2> QED
    BY <2>1
<1>6. AlphabetSize \in AlphabetSize..MAX_DICT_SIZE
  BY Constants
<1>7. /\ << >> \in Seq(0..(dict_size' - 1)) /\ << >> \in Seq(0..255) /\ Len(<< >>) = 0
      /\ 0 \in 0..0 /\ 0 \in 0..7
  BY EmptySeq
<1>8. calls' \in 0..MaxCalls /\ 1 \in 0..size
  <2>1. calls' \in 0..MaxCalls
    BY <1>2, CallsAssumption DEF TypeOK
  <2> QED
    BY <1>3, <2>1
<1>9. TypeOK'
  BY <1>2, <1>3, <1>4, <1>5, <1>6, <1>7, <1>8 DEF TypeOK, decVars
<1> QED
  BY <1>2, <1>3, <1>9

LEMMA CallParse ==
  ASSUME TypeOK, Call
  PROVE  ParseInv'
<1>1. /\ TypeOK' /\ stage' = "read" /\ Len(input_data') > 0 /\ i' = 1
      /\ dict_size' = AlphabetSize
      /\ current_code' = input_data'[1] /\ code_words' = << >>
  BY CallTyped
<1>2. Codes' = <<input_data'[1]>>
  BY <1>1 DEF Codes
<1>3. PICK data \in Seq(Char) : data = input_data'
  BY <1>1 DEF TypeOK
<1>3a. PICK codes, rows : codes = Codes' /\ rows = dictionary'
  OBVIOUS
<1>4. Len(codes) = 1 /\ codes[1] = data[1]
  BY <1>2, <1>3, <1>3a
<1>5. Len(data) > 0
  BY <1>1, <1>3
<1>6. \E s, at : Parse(s, at, rows, AlphabetSize, codes, data, 1)
  BY <1>4, <1>5, ParseFirst
<1>7. stage' # "decode" /\ stage' # "pack" /\ stage' # "idle"
  BY <1>1
<1> QED
  BY <1>1, <1>3, <1>3a, <1>6, <1>7 DEF ParseInv

LEMMA LengthenKeeps ==
  ASSUME TypeOK, ParseInv, Read, LengthenString
  PROVE  TypeOK' /\ ParseInv'
<1>1. /\ stage = "read" /\ stage' = "read" /\ i < Len(input_data) /\ i' = i + 1
      /\ UNCHANGED <<input_data, dictionary, dict_size, code_words, packed,
                     bit_buffer, bit_count, compressed_data, calls>>
      /\ UNCHANGED decVars
  BY DEF Read, LengthenString, Reading
<1>2. PICK j \in Matches : current_code' = j
  BY DEF LengthenString
<1>3. /\ j \in AlphabetSize..(dict_size - 1)
      /\ dictionary[j].prefix = current_code /\ dictionary[j].char = input_data[i + 1]
  BY DEF Matches, next_char
<1>4. j \in 0..(dict_size - 1)
  BY <1>3, StateTyped, Constants
<1>5. TypeOK'
  <2>1. i' \in 0..Len(input_data)
    BY <1>1, StateTyped
  <2> QED
    BY <1>1, <1>2, <1>4, <2>1 DEF TypeOK, decVars
<1>6. PICK s, at : Parse(s, at, dictionary, dict_size, Codes, input_data, i)
  BY <1>1 DEF ParseInv
<1>7. PICK N \in Nat : N = Len(code_words) + 1
  BY CodesTyped
<1>8. PICK size \in Nat, data \in Seq(Char), end \in Nat :
        size = dict_size /\ data = input_data /\ end = i
  BY StateTyped
<1>8a. PICK rows, codes, codes2 : rows = dictionary /\ codes = Codes /\ codes2 = Codes'
  OBVIOUS
<1>9. /\ Len(codes) = N /\ Len(codes2) = N /\ N > 0
      /\ \A k \in 1..(N - 1) : codes2[k] = codes[k]
      /\ codes2[N] = j /\ codes[N] = current_code
  <2>1. /\ Len(Codes) = Len(code_words) + 1 /\ Len(code_words) \in Nat
        /\ \A k \in 1..Len(code_words) : Codes[k] = code_words[k]
        /\ Codes[Len(code_words) + 1] = current_code
    BY <1>1, CodesTyped
  <2>2. /\ Len(Codes') = Len(code_words) + 1
        /\ \A k \in 1..Len(code_words) : Codes'[k] = code_words[k]
        /\ Codes'[Len(code_words) + 1] = j
    <3>1. PICK w \in Seq(Nat), e \in Nat : w = code_words /\ e = j
      <4>1. code_words \in Seq(Nat)
        <5> 0..(dict_size - 1) \subseteq Nat
          BY StateTyped
        <5> QED
          BY DEF TypeOK
      <4> QED
        BY <1>4, <4>1, StateTyped
    <3>2. /\ Len(Append(w, e)) = Len(w) + 1
          /\ \A k \in 1..Len(w) : Append(w, e)[k] = w[k]
          /\ Append(w, e)[Len(w) + 1] = e
      BY Appended
    <3>3. Codes' = Append(w, e)
      BY <1>1, <1>2, <3>1 DEF Codes
    <3> QED
      BY <3>1, <3>2, <3>3
  <2>3. N - 1 = Len(code_words)
    BY <1>7, <2>1
  <2> QED
    BY <1>7, <1>8a, <2>1, <2>2, <2>3
<1>10. /\ end < Len(data) /\ rows[j].prefix = codes[N] /\ rows[j].char = data[end + 1]
       /\ j \in AlphabetSize..(size - 1)
       /\ Parse(s, at, rows, size, codes, data, end)
  BY <1>1, <1>3, <1>6, <1>8, <1>8a, <1>9
<1>11. \E at2 : Parse(s, at2, rows, size, codes2, data, end + 1)
  BY <1>9, <1>10, ParseLengthen
<1>12. \E s2, at2 : Parse(s2, at2, dictionary', dict_size', Codes', input_data', i')
  BY <1>1, <1>8, <1>8a, <1>11
<1>13. stage' # "decode" /\ stage' # "pack" /\ stage' # "idle"
  BY <1>1
<1> QED
  BY <1>5, <1>12, <1>13 DEF ParseInv

LEMMA LargerSet ==
  ASSUME NEW S, NEW T, NEW s \in Seq(S), S \subseteq T
  PROVE  s \in Seq(T)
OBVIOUS

LEMMA EmitKeeps ==
  ASSUME TypeOK, ParseInv, Read, EmitCode
  PROVE  TypeOK' /\ ParseInv'
<1>1. /\ stage = "read" /\ stage' = "read" /\ i < Len(input_data) /\ i' = i + 1
      /\ code_words' = Append(code_words, current_code) /\ current_code' = input_data[i + 1]
      /\ UNCHANGED <<input_data, packed, bit_buffer, bit_count, compressed_data, calls>>
      /\ UNCHANGED decVars
  BY DEF Read, EmitCode, Reading, next_char
<1>2. /\ dict_size < MAX_DICT_SIZE =>
           /\ dict_size' = dict_size + 1
           /\ dictionary' = [dictionary EXCEPT ![dict_size] =
                               [prefix |-> current_code, char |-> input_data[i + 1]]]
      /\ ~(dict_size < MAX_DICT_SIZE) => dict_size' = dict_size /\ dictionary' = dictionary
  BY DEF EmitCode, AddRow, next_char
<1>3. PICK N \in Nat : N = Len(code_words) + 1
  BY CodesTyped
<1>4. PICK size \in Nat, data \in Seq(Char), end \in Nat, cur \in Nat :
        size = dict_size /\ data = input_data /\ end = i /\ cur = current_code
  BY StateTyped
<1>5. PICK size2, rows, rows2, codes, codes2 :
        /\ size2 = dict_size' /\ rows = dictionary /\ rows2 = dictionary'
        /\ codes = Codes /\ codes2 = Codes'
  OBVIOUS
<1>6. PICK x \in Char : x = data[end + 1]
  <2> end + 1 \in 1..Len(data)
    BY <1>1, <1>4
  <2> QED
    BY ElementOfSeq
<1>7. /\ AlphabetSize \in Nat /\ MAX_DICT_SIZE \in Nat /\ AlphabetSize <= size /\ size <= MAX_DICT_SIZE
      /\ cur < size /\ x \in 0..(AlphabetSize - 1)
  BY <1>4, <1>6, StateTyped, Constants DEF Char
<1>8. rows \in [AlphabetSize..(MAX_DICT_SIZE - 1) -> Row]
  BY <1>5 DEF TypeOK
<1>9. /\ size < MAX_DICT_SIZE =>
           /\ size2 = size + 1
           /\ \A c \in AlphabetSize..(size - 1) : rows2[c] = rows[c]
           /\ rows2[size].prefix = cur /\ rows2[size].char = x
      /\ size >= MAX_DICT_SIZE => size2 = size /\ rows2 = rows
      /\ rows2 \in [AlphabetSize..(MAX_DICT_SIZE - 1) -> Row]
  <2>1. CASE size < MAX_DICT_SIZE
    <3>1. size2 = size + 1 /\ rows2 = [rows EXCEPT ![size] = [prefix |-> cur, char |-> x]]
      BY <1>2, <1>4, <1>5, <1>6, <2>1
    <3>2. size \in AlphabetSize..(MAX_DICT_SIZE - 1)
      BY <1>7, <2>1
    <3>3. [prefix |-> cur, char |-> x] \in Row
      <4> cur \in Code
        BY <1>7 DEF Code
      <4> QED
        BY DEF Row
    <3>4. \A c \in AlphabetSize..(size - 1) : c # size /\ c \in AlphabetSize..(MAX_DICT_SIZE - 1)
      BY <1>7
    <3>5. rows2 \in [AlphabetSize..(MAX_DICT_SIZE - 1) -> Row]
      BY <1>8, <3>1, <3>2, <3>3
    <3>6. rows2[size] = [prefix |-> cur, char |-> x]
      BY <1>8, <3>1, <3>2
    <3>7. \A c \in AlphabetSize..(size - 1) : rows2[c] = rows[c]
      BY <1>8, <3>1, <3>4
    <3> QED
      BY <1>7, <2>1, <3>1, <3>5, <3>6, <3>7
  <2>2. CASE ~(size < MAX_DICT_SIZE)
    BY <1>2, <1>4, <1>5, <1>8, <2>2
  <2> QED
    BY <2>1, <2>2
<1>10. size2 \in Nat /\ size <= size2 /\ size2 <= MAX_DICT_SIZE
  BY <1>7, <1>9
<1>11. PICK w \in Seq(0..(size2 - 1)) : w = code_words /\ cur \in 0..(size2 - 1)
  <2>1. 0..(size - 1) \subseteq 0..(size2 - 1)
    BY <1>10
  <2>2. code_words \in Seq(0..(size - 1)) /\ cur \in 0..(size - 1)
    BY <1>4, <1>7 DEF TypeOK
  <2>3. code_words \in Seq(0..(size2 - 1))
    BY <2>1, <2>2, LargerSet
  <2> QED
    BY <2>1, <2>2, <2>3
<1>12. /\ Append(w, cur) \in Seq(0..(size2 - 1)) /\ Len(Append(w, cur)) = Len(w) + 1
       /\ Len(w) \in Nat
       /\ \A k \in 1..Len(w) : Append(w, cur)[k] = w[k]
       /\ Append(w, cur)[Len(w) + 1] = cur
  BY <1>11, Appended
<1>13. code_words' = Append(w, cur)
  BY <1>1, <1>4, <1>11
<1>14. TypeOK'
  <2>1. i' \in 0..Len(input_data)
    BY <1>1, StateTyped
  <2>2. code_words' \in Seq(0..(dict_size' - 1))
    BY <1>5, <1>12, <1>13
  <2>3. packed \in 0..Len(code_words')
    BY <1>11, <1>12, <1>13 DEF TypeOK
  <2>4. current_code' \in 0..(dict_size' - 1)
    BY <1>1, <1>4, <1>5, <1>6, <1>7, <1>10
  <2>5. dict_size' \in AlphabetSize..MAX_DICT_SIZE
    BY <1>5, <1>7, <1>10
  <2>6. dictionary' \in [AlphabetSize..(MAX_DICT_SIZE - 1) -> Row]
    BY <1>5, <1>9
  <2> QED
    BY <1>1, <2>1, <2>2, <2>3, <2>4, <2>5, <2>6 DEF TypeOK, decVars
<1>15. PICK s, at : Parse(s, at, rows, size, codes, data, end)
  BY <1>1, <1>4, <1>5 DEF ParseInv
<1>16. /\ Len(codes) = N /\ N > 0 /\ codes[N] = cur
       /\ \A k \in 1..(N - 1) : codes[k] = w[k]
  <2>1. N - 1 = Len(code_words) /\ N > 0
    BY <1>3, CodesTyped
  <2> QED
    BY <1>1, <1>3, <1>4, <1>5, <1>11, <2>1, CodesTyped
<1>17. /\ Len(codes2) = N + 1 /\ codes2[N + 1] = x
       /\ \A k \in 1..N : codes2[k] = codes[k]
  <2>1. PICK v \in Seq(Nat) : v = Append(w, cur) /\ Len(v) = N
    <3>1. 0..(size2 - 1) \subseteq Nat
      BY <1>10
    <3>2. Append(w, cur) \in Seq(Nat)
      BY <1>12, <3>1, LargerSet
    <3> QED
      BY <1>3, <1>11, <1>12, <3>2
  <2>2. PICK y \in Nat : y = x
    BY <1>7
  <2>3. /\ Len(Append(v, y)) = N + 1
        /\ \A k \in 1..N : Append(v, y)[k] = v[k]
        /\ Append(v, y)[N + 1] = y
    BY <2>1, Appended
  <2>4. codes2 = Append(v, y)
    BY <1>1, <1>4, <1>5, <1>6, <1>13, <2>1, <2>2 DEF Codes
  <2>5. \A k \in 1..N : v[k] = codes[k]
    <3> SUFFICES ASSUME NEW k \in 1..N
                 PROVE  v[k] = codes[k]
      OBVIOUS
    <3>1. Len(w) = N - 1
      BY <1>3, <1>11, <1>12
    <3>2. CASE k = N
      BY <1>12, <1>16, <2>1, <3>1, <3>2
    <3>3. CASE k # N
      <4> k \in 1..(N - 1)
        BY <3>3
      <4> QED
        BY <1>12, <1>16, <2>1, <3>1
    <3> QED
      BY <3>2, <3>3
  <2> QED
    BY <2>2, <2>3, <2>4, <2>5
<1>18. \E s2, at2 : Parse(s2, at2, rows2, size2, codes2, data, end + 1)
  <2>1. end < Len(data)
    BY <1>1, <1>4
  <2>2. codes2[N + 1] = data[end + 1]
    BY <1>6, <1>17
  <2>3. RowAdded(rows2, size2, rows, size, codes[N], data[end + 1])
    BY <1>6, <1>9, <1>16 DEF RowAdded
  <2> QED
    BY <1>15, <1>16, <1>17, <2>1, <2>2, <2>3, ParseEmit
<1>19. \E s2, at2 : Parse(s2, at2, dictionary', dict_size', Codes', input_data', i')
  BY <1>1, <1>4, <1>5, <1>18
<1>20. stage' # "decode" /\ stage' # "pack" /\ stage' # "idle"
  BY <1>1
<1> QED
  BY <1>14, <1>19, <1>20 DEF ParseInv

LEMMA ReadLastKeeps ==
  ASSUME TypeOK, ParseInv, ReadLast
  PROVE  TypeOK' /\ ParseInv'
<1>1. /\ stage = "read" /\ stage' = "pack" /\ ~(i < Len(input_data))
      /\ code_words' = Append(code_words, current_code)
      /\ UNCHANGED <<input_data, i, dictionary, dict_size, current_code,
                     packed, bit_buffer, bit_count, compressed_data, calls>>
      /\ UNCHANGED decVars
  BY DEF ReadLast, EmitLast, Reading
<1>2. i' = Len(input_data')
  BY <1>1, StateTyped
<1>3. Codes' = Codes
  BY <1>1 DEF Codes
<1>4. TypeOK'
  <2>1. code_words' \in Seq(0..(dict_size - 1)) /\ Len(code_words') = Len(code_words) + 1
    BY <1>1, Appended DEF TypeOK
  <2>2. packed \in 0..Len(code_words')
    BY <2>1, CodesTyped DEF TypeOK
  <2> QED
    BY <1>1, <2>1, <2>2 DEF TypeOK, decVars
<1>5. \E s, at : Parse(s, at, dictionary', dict_size', Codes', input_data', i')
  BY <1>1, <1>3 DEF ParseInv
<1>6. stage' # "decode" /\ stage' # "idle"
  BY <1>1
<1> QED
  BY <1>2, <1>4, <1>5, <1>6 DEF ParseInv

LEMMA PackKeeps ==
  ASSUME TypeOK, ParseInv, Pack
  PROVE  TypeOK' /\ ParseInv'
<1>1. /\ stage = "pack" /\ stage' = "pack" /\ packed' = packed + 1 /\ packed < Len(code_words)
      /\ UNCHANGED <<input_data, i, dictionary, dict_size, current_code, code_words, calls>>
      /\ UNCHANGED decVars
  BY DEF Pack, PackCode
<1>2. PICK a : a = bit_buffer * Power[CODE_LENGTH] + (code_words[packed + 1] % Power[CODE_LENGTH])
  OBVIOUS
<1>3. /\ bit_buffer' = a % Power[BufferBits]
      /\ bit_count' = (bit_count + CODE_LENGTH) % 8
      /\ compressed_data' = compressed_data \o Extracted(bit_buffer', bit_count + CODE_LENGTH)
  BY <1>2 DEF Pack, PackCode
<1>4. packed \in Nat /\ packed + 1 \in 1..Len(code_words)
  BY <1>1, WordsAreCodes DEF TypeOK
<1>5. a \in Nat
  <2>1. PICK w \in Nat : /\ w = code_words[packed + 1] /\ w < Power[CODE_LENGTH]
                         /\ w % Power[CODE_LENGTH] = w
    BY <1>4, WordsAreCodes
  <2>2. PICK p \in Nat : p = Power[CODE_LENGTH]
    <3> CODE_LENGTH \in Nat /\ CODE_LENGTH <= BufferBits
      BY Constants
    <3> QED
      BY PowerPositive
  <2>3. PICK b \in Nat : b = bit_buffer
    BY BufferIsNatural
  <2>4. b * p + w \in Nat
    OBVIOUS
  <2> QED
    BY <1>2, <2>1, <2>2, <2>3, <2>4
<1>6. bit_buffer' \in Nat /\ bit_buffer' \in 0..(Power[BufferBits] - 1)
  <2>1. PICK p \in Nat : p = Power[BufferBits] /\ p > 0
    BY Constants, PowerPositive
  <2>2. a % p \in 0..(p - 1)
    BY <1>5, <2>1
  <2> QED
    BY <1>3, <2>1, <2>2
<1>7. bit_count + CODE_LENGTH \in Nat /\ bit_count + CODE_LENGTH <= BufferBits
  BY Constants DEF TypeOK
<1>8. bit_count' \in 0..7
  <2>1. PICK n \in Nat : n = bit_count + CODE_LENGTH
    BY <1>7
  <2> QED
    BY <1>3, <2>1
<1>9. compressed_data' \in Seq(0..255)
  <2>1. PICK buffer \in Nat, n \in Nat : /\ buffer = bit_buffer' /\ n = bit_count + CODE_LENGTH
                                         /\ n <= BufferBits
    BY <1>6, <1>7
  <2>2. Extracted(buffer, n) \in Seq(Byte)
    BY <2>1, ExtractedBytes
  <2>3. compressed_data \in Seq(Byte)
    BY DEF TypeOK, Byte
  <2>4. compressed_data \o Extracted(buffer, n) \in Seq(Byte)
    BY <2>2, <2>3, ConcatAt
  <2> QED
    BY <1>3, <2>1, <2>4 DEF Byte
<1>10. packed' \in 0..Len(code_words)
  BY <1>1, <1>4
<1>11. TypeOK'
  BY <1>1, <1>6, <1>8, <1>9, <1>10 DEF TypeOK, decVars
<1>12. Codes' = Codes /\ stage' = stage
  BY <1>1 DEF Codes
<1>13. ParseInv'
  <2>1. \E s, at : Parse(s, at, dictionary', dict_size', Codes', input_data', i')
    BY <1>1, <1>12 DEF ParseInv
  <2>2. i' = Len(input_data')
    BY <1>1 DEF ParseInv
  <2>3. stage' # "decode" /\ stage' # "idle"
    BY <1>1
  <2> QED
    BY <2>1, <2>2, <2>3 DEF ParseInv
<1> QED
  BY <1>11, <1>13

(* The first code word of the block makes the decoder what Decoded says.    *)
LEMMA RestoreKeeps ==
  ASSUME TypeOK, SizeInv, ParseInv, StreamInv, Restore
  PROVE  TypeOK' /\ ParseInv'
<1>1. /\ stage = "pack" /\ stage' = "decode" /\ packed = Len(code_words)
      /\ UNCHANGED <<input_data, i, dictionary, dict_size, current_code, code_words,
                     packed, bit_buffer, bit_count, calls>>
      /\ Code_table' = [c \in 1..AlphabetSize |-> <<c - 1>>]
      /\ Old' = CodeAt(compressed_data', 0) /\ Symbol' = <<Old' % AlphabetSize>>
      /\ Output' = Symbol' /\ Input_position' = CODE_LENGTH
  BY DEF Restore, PackTail, DecodeFirst
<1>2a. PICK N \in Nat : N = Len(code_words)
  BY WordsAreCodes
<1>2b. PICK words \in [1..N -> Code] : words = code_words
  BY <1>2a, WordsAreCodes
<1>2c. PICK block : block = compressed_data'
  OBVIOUS
<1>2. N = Len(code_words) /\ words = code_words /\ block = compressed_data'
  BY <1>2a, <1>2b, <1>2c
<1>3. N >= 1 /\ 1 \in 1..N /\ 0 \in 0..(N - 1)
  BY <1>1, <1>2 DEF SizeInv, CodeInv
<1>4. CodeAt(block, 0) = words[1]
  <2>1. StreamInv'
    BY RestoreStream
  <2>2. \A j \in 0..(N - 1), r \in 0..(CODE_LENGTH - 1) :
           Bit(block, CODE_LENGTH * j + r) = WordBit(words[j + 1], r)
    BY <1>1, <1>2, <2>1 DEF StreamInv
  <2>3. PICK j \in 0..(N - 1) : j = 0
    BY <1>3
  <2>4. CodeAt(block, CODE_LENGTH * j) = words[j + 1]
    BY <2>2, BlockRead
  <2>5. CODE_LENGTH * j = 0 /\ j + 1 = 1
    BY <2>3, Width
  <2> QED
    BY <2>4, <2>5
<1>5. PICK s, at : Parse(s, at, dictionary, dict_size, Codes, input_data, i)
  BY <1>1 DEF ParseInv
<1>6. PICK size \in Nat, data \in Seq(Char), end \in Nat, old \in Code :
        size = dict_size /\ data = input_data /\ end = i /\ old = words[1]
  BY <1>3, StateTyped
<1>7. PICK rows : rows = dictionary
  OBVIOUS
<1>8. Codes = words /\ Codes' = words
  BY <1>1, <1>2 DEF Codes
<1>9. /\ Parse(s, at, rows, size, words, data, end) /\ Len(words) = N
      /\ end <= Len(data) /\ end = Len(data)
  BY <1>1, <1>2, <1>5, <1>6, <1>7, <1>8, StateTyped DEF ParseInv
<1>10. /\ old \in Char /\ old \in 0..(size - 1) /\ s[old] = <<old>> /\ s[old][1] = old
       /\ <<old>> = SubSeq(data, 1, at[2])
       /\ \A c \in 0..(AlphabetSize - 1) : c < size => s[c] = <<c>>
  <2>1. DecodesFirst(s, at, size, data, words[1])
    BY <1>3, <1>9, ParseDecodeFirst
  <2> QED
    BY <1>6, <2>1 DEF DecodesFirst
<1>11. Old' = old /\ Symbol' = <<old>> /\ Output' = <<old>>
  <2>1. PICK A \in Nat, c \in Nat : A = AlphabetSize /\ c = old /\ c < A
    BY <1>10, Constants DEF Char
  <2>2. c = A * 0 + c
    OBVIOUS
  <2>3. old % AlphabetSize = old
    BY <2>1, <2>2, QuotientIs
  <2> QED
    BY <1>1, <1>2, <1>4, <1>6, <2>3
<1>12. /\ Code_table' \in Seq(Seq(Char)) /\ Len(Code_table') = AlphabetSize
       /\ \A c \in 0..(AlphabetSize - 1) : Code_table'[c + 1] = <<c>>
  <2>1. AlphabetSize \in Nat
    BY Constants
  <2>2. \A c \in 1..AlphabetSize : <<c - 1>> \in Seq(Char)
    BY <2>1 DEF Char
  <2>3. Code_table' \in [1..AlphabetSize -> Seq(Char)]
    BY <1>1, <2>2
  <2>4. Code_table' \in Seq(Seq(Char)) /\ Len(Code_table') = AlphabetSize
    BY <2>1, <2>3, SeqDef
  <2>5. \A c \in 0..(AlphabetSize - 1) : c + 1 \in 1..AlphabetSize /\ (c + 1) - 1 = c
    BY <2>1
  <2> QED
    BY <1>1, <2>4, <2>5
<1>13. compressed_data' \in Seq(0..255)
  <2>1. CASE bit_count > 0
    <3>1. compressed_data' = Append(compressed_data, (bit_buffer * Power[8 - bit_count]) % 256)
      BY <2>1 DEF Restore, PackTail
    <3>2. (bit_buffer * Power[8 - bit_count]) % 256 \in 0..255
      <4>1. PICK n \in Nat : n = 8 - bit_count /\ n <= BufferBits
        BY Constants DEF TypeOK
      <4>2. PICK p \in Nat : p = Power[n]
        BY <4>1, PowerPositive
      <4>3. PICK b \in Nat : b = bit_buffer
        BY BufferIsNatural
      <4>4. PICK m \in Nat : m = b * p
        OBVIOUS
      <4>5. m % 256 \in 0..255
        OBVIOUS
      <4> QED
        BY <4>1, <4>2, <4>3, <4>4, <4>5
    <3>3. PICK y \in 0..255 : y = (bit_buffer * Power[8 - bit_count]) % 256
      BY <3>2
    <3> QED
      BY <3>1, <3>3, AppendProperties DEF TypeOK
  <2>2. CASE ~(bit_count > 0)
    BY <2>2 DEF Restore, PackTail, TypeOK
  <2> QED
    BY <2>1, <2>2
<1>14. TypeOK'
  <2>1. <<old>> \in Seq(Char) /\ CODE_LENGTH \in Nat
    BY <1>10, Constants
  <2> QED
    BY <1>1, <1>11, <1>12, <1>13, <2>1 DEF TypeOK
<1>15. Decoded(1, s, at)'
  <2>1. CODE_LENGTH = CODE_LENGTH * 1 /\ AlphabetSize = AlphabetSize + 1 - 1
    BY Constants
  <2>2. \A c \in 0..(dict_size' - 1) : c < Len(Code_table') => Code_table'[c + 1] = s[c]
    <3> SUFFICES ASSUME NEW c \in 0..(dict_size' - 1), c < Len(Code_table')
                 PROVE  Code_table'[c + 1] = s[c]
      OBVIOUS
    <3>1. c \in 0..(AlphabetSize - 1) /\ c < size
      BY <1>1, <1>6, <1>12, Constants
    <3> QED
      BY <1>10, <1>12, <3>1
  <2>3. Old' = code_words'[1]
    BY <1>1, <1>2, <1>6, <1>11
  <2>4. Symbol' = <<s[Old'][1]>>
    BY <1>10, <1>11
  <2>5. Output' = SubSeq(input_data', 1, at[1 + 1])
    BY <1>1, <1>6, <1>10, <1>11
  <2>6. Input_position' = CODE_LENGTH * 1
    BY <1>1, <2>1
  <2>7. Len(Code_table') = AlphabetSize + 1 - 1
    BY <1>12, <2>1
  <2> QED
    BY <2>2, <2>3, <2>4, <2>5, <2>6, <2>7 DEF Decoded
<1>16. ParseInv'
  <2>1. Parse(s, at, dictionary', dict_size', Codes', input_data', i')
    BY <1>1, <1>5, <1>8
  <2>2. 1 \in 1..Len(code_words')
    BY <1>1, <1>2, <1>3
  <2>3. i' = Len(input_data')
    BY <1>1 DEF ParseInv
  <2>4. stage' # "idle"
    BY <1>1
  <2> QED
    BY <1>15, <2>1, <2>2, <2>3, <2>4 DEF ParseInv
<1> QED
  BY <1>14, <1>16

(* Where the decoder is, it reads the next code word right.                 *)
LEMMA NextCode ==
  ASSUME TypeOK, StreamInv, stage = "decode", NEW d \in 0..(Len(code_words) - 1)
  PROVE  CodeAt(compressed_data, CODE_LENGTH * d) = code_words[d + 1]
<1>1a. PICK N \in Nat : N = Len(code_words)
  BY WordsAreCodes
<1>1b. PICK words \in [1..N -> Code] : words = code_words
  BY <1>1a, WordsAreCodes
<1>1c. PICK block : block = compressed_data
  OBVIOUS
<1>1. N = Len(code_words) /\ words = code_words /\ block = compressed_data
  BY <1>1a, <1>1b, <1>1c
<1>2. \A j \in 0..(N - 1), r \in 0..(CODE_LENGTH - 1) :
         Bit(block, CODE_LENGTH * j + r) = WordBit(words[j + 1], r)
  BY <1>1 DEF StreamInv
<1>3. PICK j \in 0..(N - 1) : j = d
  BY <1>1
<1>4. CodeAt(block, CODE_LENGTH * j) = words[j + 1]
  BY <1>2, BlockRead
<1> QED
  BY <1>1, <1>3, <1>4

LEMMA RestoreNextKeeps ==
  ASSUME TypeOK, SizeInv, ParseInv, StreamInv, RestoreNext
  PROVE  TypeOK' /\ ParseInv'
<1>1. /\ stage = "decode" /\ stage' = "decode" /\ MoreCodes(compressed_data)
      /\ UNCHANGED encVars /\ calls' = calls
      /\ Input_position' = Input_position + CODE_LENGTH
  BY DEF RestoreNext, DecodeNext
<1>2. PICK new : new = CodeAt(compressed_data, Input_position)
  OBVIOUS
<1>3. /\ Output' = Output \o Symbols(new) /\ Symbol' = SubSeq(Symbols(new), 1, 1) /\ Old' = new
      /\ Code_table' = Append(Code_table, Entry(Old) \o Symbol')
  BY <1>2 DEF RestoreNext, DecodeNext
<1>4. PICK s, at : /\ Parse(s, at, dictionary, dict_size, Codes, input_data, i)
                   /\ \E d \in 1..Len(code_words) : Decoded(d, s, at)
  BY <1>1 DEF ParseInv
<1>5. PICK e \in 1..Len(code_words) : Decoded(e, s, at)
  BY <1>4
<1>6a. PICK N \in Nat : N = Len(code_words)
  BY WordsAreCodes
<1>6b. PICK words \in [1..N -> Code] : words = code_words
  BY <1>6a, WordsAreCodes
<1>6. N = Len(code_words) /\ words = code_words
  BY <1>6a, <1>6b
<1>7. e < Len(code_words)
  BY <1>1, <1>5, MoreCodesRight DEF Decoded, SizeInv
<1>8. PICK d \in 1..(N - 1) : d = e
  BY <1>6, <1>7
<1>9. PICK size \in Nat, data \in Seq(Char), end \in Nat :
        /\ size = dict_size /\ data = input_data /\ end = i /\ end <= Len(data)
        /\ size <= MAX_DICT_SIZE
  BY StateTyped
<1>10. PICK rows : rows = dictionary
  OBVIOUS
<1>11. Codes = words /\ Codes' = words
  BY <1>1, <1>6 DEF Codes, encVars
<1>12. PICK old, last : old = words[d] /\ last = AlphabetSize + d - 1
  OBVIOUS
<1>13. new = words[d + 1]
  <2>1. PICK j \in 0..(Len(code_words) - 1) : j = d
    BY <1>6
  <2>2. CodeAt(compressed_data, CODE_LENGTH * j) = code_words[j + 1]
    BY <1>1, NextCode
  <2> QED
    BY <1>2, <1>5, <1>6, <1>8, <2>1, <2>2 DEF Decoded
<1>14. /\ old \in 0..(size - 1) /\ old < last /\ new \in 0..(size - 1) /\ new <= last
       /\ s[old] \in Seq(Char) /\ s[new] \in Seq(Char) /\ Len(s[new]) > 0
       /\ s[old][1] \in Char /\ s[new][1] \in Char
       /\ last < size => s[last] = s[old] \o <<s[new][1]>>
       /\ new = last => s[new] = s[old] \o <<s[old][1]>>
       /\ SubSeq(data, 1, at[d + 1]) \o s[new] = SubSeq(data, 1, at[d + 2])
  <2>1. Parse(s, at, rows, size, words, data, end) /\ Len(words) = N
    BY <1>4, <1>6, <1>9, <1>10, <1>11
  <2>2. d \in Nat /\ d >= 1 /\ d < Len(words) /\ Len(words) \in Nat
    BY <2>1
  <2>3. DecodesNext(s, at, size, words, data, d)
    BY <1>9, <2>1, <2>2, ParseDecode
  <2> QED
    BY <1>12, <1>13, <2>3 DEF DecodesNext
<1>15. PICK table \in Seq(Seq(Char)) : table = Code_table
  BY DEF TypeOK
<1>16. /\ Old = old /\ Symbol = <<s[old][1]>> /\ Output = SubSeq(data, 1, at[d + 1])
       /\ Len(table) = last
       /\ \A c \in 0..(size - 1) : c < last => table[c + 1] = s[c]
       /\ Input_position = CODE_LENGTH * d
  BY <1>5, <1>6, <1>8, <1>9, <1>12, <1>15 DEF Decoded
<1>17. last \in Nat
  BY <1>12, Constants
<1>18. Entry(Old) = s[old]
  BY <1>14, <1>15, <1>16 DEF Entry
<1>19. Symbols(new) = s[new]
  <2>1. CASE new = last
    <3>1. new >= Len(Code_table)
      BY <1>14, <1>15, <1>16, <1>17, <2>1
    <3> QED
      BY <1>14, <1>16, <1>18, <2>1, <3>1 DEF Symbols
  <2>2. CASE new # last
    <3>1. ~(new >= Len(Code_table)) /\ new < last
      BY <1>14, <1>15, <1>16, <1>17, <2>2
    <3> QED
      BY <1>14, <1>15, <1>16, <3>1 DEF Symbols, Entry
  <2> QED
    BY <2>1, <2>2
<1>20. Symbol' = <<s[new][1]>>
  <2>1. PICK t \in Seq(Char) : t = s[new] /\ Len(t) > 0
    BY <1>14
  <2>2. PICK b \in 1..Len(t) : b = 1
    BY <2>1
  <2>3. SubSeq(t, b, b) = <<t[b]>>
    BY OnePiece
  <2> QED
    BY <1>3, <1>19, <2>1, <2>2, <2>3
<1>21. PICK row \in Seq(Char) : row = s[old] \o <<s[new][1]>>
  <2>1. s[old] \in Seq(Char) /\ <<s[new][1]>> \in Seq(Char)
    BY <1>14
  <2> QED
    BY <2>1, ConcatProperties
<1>22. /\ Code_table' = Append(table, row)
       /\ Append(table, row) \in Seq(Seq(Char)) /\ Len(Append(table, row)) = last + 1
       /\ \A k \in 1..last : Append(table, row)[k] = table[k]
       /\ Append(table, row)[last + 1] = row
  <2>1. Code_table' = Append(table, row)
    BY <1>3, <1>15, <1>18, <1>20, <1>21
  <2>2. Append(table, row) \in Seq(Seq(Char)) /\ Len(Append(table, row)) = Len(table) + 1
    BY AppendProperties
  <2>3. /\ \A k \in 1..Len(table) : Append(table, row)[k] = table[k]
        /\ Append(table, row)[Len(table) + 1] = row
    BY AppendProperties
  <2> QED
    BY <1>16, <2>1, <2>2, <2>3
<1>23. TypeOK'
  <2>1. Output' \in Seq(Char)
    <3>1. Output \in Seq(Char) /\ s[new] \in Seq(Char)
      BY <1>14 DEF TypeOK
    <3> QED
      BY <1>3, <1>19, <3>1, ConcatProperties
  <2>2. Symbol' \in Seq(Char)
    BY <1>14, <1>20
  <2>3. Old' \in Code
    BY <1>3, <1>9, <1>14, Constants DEF Code
  <2>4. Input_position' \in Nat
    BY <1>1, Constants DEF TypeOK
  <2> QED
    BY <1>1, <1>22, <2>1, <2>2, <2>3, <2>4 DEF TypeOK, encVars
<1>24. Decoded(d + 1, s, at)'
  <2>1. Input_position' = CODE_LENGTH * (d + 1)
    BY <1>1, <1>16, Times
  <2>2. Old' = code_words'[d + 1] /\ Symbol' = <<s[Old'][1]>>
    BY <1>1, <1>3, <1>6, <1>13, <1>20 DEF encVars
  <2>3. Output' = SubSeq(input_data', 1, at[(d + 1) + 1])
    <3>1. (d + 1) + 1 = d + 2
      OBVIOUS
    <3> QED
      BY <1>1, <1>3, <1>9, <1>14, <1>16, <1>19, <3>1 DEF encVars
  <2>4. Len(Code_table') = AlphabetSize + (d + 1) - 1
    BY <1>12, <1>17, <1>22, Constants
  <2>5. ASSUME NEW c \in 0..(dict_size' - 1), c < Len(Code_table')
        PROVE  Code_table'[c + 1] = s[c]
    <3>1. c \in 0..(size - 1) /\ c < last + 1
      <4>1. dict_size' = dict_size /\ Len(Code_table') = last + 1
        BY <1>1, <1>22 DEF encVars
      <4> QED
        BY <1>9, <2>5, <4>1
    <3>2. CASE c = last
      <4>1. last < size
        BY <1>9, <1>17, <3>1, <3>2
      <4>2. Code_table'[last + 1] = row
        BY <1>22
      <4> QED
        BY <1>14, <1>21, <3>2, <4>1, <4>2
    <3>3. CASE c # last
      <4>1. c < last /\ c + 1 \in 1..last
        BY <1>17, <3>1, <3>3
      <4> QED
        BY <1>16, <1>22, <3>1, <4>1
    <3> QED
      BY <3>2, <3>3
  <2> QED
    BY <2>1, <2>2, <2>3, <2>4, <2>5 DEF Decoded
<1>25. ParseInv'
  <2>1. Parse(s, at, dictionary', dict_size', Codes', input_data', i')
    BY <1>1, <1>4, <1>11 DEF encVars
  <2>2. d + 1 \in 1..Len(code_words')
    BY <1>1, <1>6 DEF encVars
  <2>3. i' = Len(input_data') /\ stage' # "idle"
    BY <1>1 DEF ParseInv, encVars
  <2> QED
    BY <1>24, <2>1, <2>2, <2>3 DEF ParseInv
<1> QED
  BY <1>23, <1>25

(* At the end the decoder has the strings of all code words.                *)
LEMMA RestoreEndKeeps ==
  ASSUME TypeOK, SizeInv, ParseInv, RestoreEnd
  PROVE  TypeOK' /\ ParseInv'
<1>1. /\ stage = "decode" /\ stage' = "idle" /\ ~MoreCodes(compressed_data)
      /\ UNCHANGED <<encVars, decVars, calls>>
  BY DEF RestoreEnd
<1>2. TypeOK'
  BY <1>1 DEF TypeOK, encVars, decVars
<1>3. PICK s, at : /\ Parse(s, at, dictionary, dict_size, Codes, input_data, i)
                   /\ \E d \in 1..Len(code_words) : Decoded(d, s, at)
  BY <1>1 DEF ParseInv
<1>4. PICK d \in 1..Len(code_words) : Decoded(d, s, at)
  BY <1>3
<1>5. d = Len(code_words)
  <2>1. Len(code_words) \in Nat /\ ~(d < Len(code_words))
    BY <1>1, <1>4, MoreCodesRight, CodesTyped DEF Decoded, SizeInv
  <2> QED
    BY <2>1
<1>6. Codes = code_words /\ i = Len(input_data)
  BY <1>1 DEF Codes, ParseInv
<1>7. at[Len(code_words) + 1] = i
  BY <1>3, <1>6 DEF Parse, Covers
<1>8. Output = SubSeq(input_data, 1, Len(input_data))
  BY <1>4, <1>5, <1>6, <1>7 DEF Decoded
<1>9. Output = input_data
  BY <1>8, SubSeqFull DEF TypeOK
<1>10. ParseInv'
  BY <1>1, <1>9 DEF ParseInv, encVars, decVars
<1> QED
  BY <1>2, <1>10
-----------------------------------------------------------------------------
LzwInv == TypeOK /\ SizeInv /\ ParseInv /\ StreamInv

LEMMA InitLzw == Init => LzwInv
<1> SUFFICES ASSUME Init PROVE LzwInv
  OBVIOUS
<1>1. SizeInv
  BY InitSizes
<1>2. ParseInv /\ StreamInv
  BY DEF Init, EncInit, DecInit, ParseInv, StreamInv
<1>3. TypeOK
  <2>1. \A S : << >> \in Seq(S)
    BY EmptySeq
  <2>2. Len(<< >>) = 0 /\ 0 \in 0..0
    OBVIOUS
  <2>3. /\ AlphabetSize \in Nat /\ AlphabetSize >= 1 /\ MAX_DICT_SIZE \in Nat
        /\ AlphabetSize <= MAX_DICT_SIZE
    BY Constants
  <2>4. /\ AlphabetSize \in AlphabetSize..MAX_DICT_SIZE /\ 0 \in 0..(AlphabetSize - 1)
        /\ 0 \in Code /\ 0 \in Char
    BY <2>3 DEF Code, Char
  <2>5. 0 \in 0..(Power[BufferBits] - 1)
    <3>1. PICK p \in Nat : p = Power[BufferBits] /\ p > 0
      BY Constants, PowerPositive
    <3> QED
      BY <3>1
  <2>6. 0 \in 0..MaxCalls
    BY CallsAssumption
  <2>7. dictionary \in [AlphabetSize..(MAX_DICT_SIZE - 1) -> Row]
    BY <2>4 DEF Init, EncInit, Row
  <2> QED
    BY <2>1, <2>2, <2>4, <2>5, <2>6, <2>7 DEF Init, EncInit, DecInit, TypeOK
<1> QED
  BY <1>1, <1>2, <1>3 DEF LzwInv

LEMMA StepLzw == LzwInv /\ [Next]_vars => LzwInv'
<1> SUFFICES ASSUME LzwInv, [Next]_vars PROVE LzwInv'
  OBVIOUS
<1> USE DEF LzwInv
<1>1. SizeInv' /\ StreamInv'
  BY StepSizes, StreamStep
<1>2. TypeOK' /\ ParseInv'
  <2>1. CASE Call
    BY <2>1, CallTyped, CallParse
  <2>2. CASE Read
    <3>1. CASE LengthenString
      BY <2>2, <3>1, LengthenKeeps
    <3>2. CASE EmitCode
      BY <2>2, <3>2, EmitKeeps
    <3> QED
      BY <2>2, <3>1, <3>2 DEF Read
  <2>3. CASE ReadLast
    BY <2>3, ReadLastKeeps
  <2>4. CASE Pack
    BY <2>4, PackKeeps
  <2>5. CASE Restore
    BY <2>5, RestoreKeeps
  <2>6. CASE RestoreNext
    BY <2>6, RestoreNextKeeps
  <2>7. CASE RestoreEnd
    BY <2>7, RestoreEndKeeps
  <2>8. CASE UNCHANGED vars
    <3>1. Codes' = Codes
      BY <2>8 DEF vars, encVars, Codes
    <3> QED
      BY <2>8, <3>1 DEF vars, encVars, decVars, TypeOK, ParseInv, Decoded
  <2> QED
    BY <2>1, <2>2, <2>3, <2>4, <2>5, <2>6, <2>7, <2>8 DEF Next
<1> QED
  BY <1>1, <1>2

LEMMA LzwInvariant == Spec => []LzwInv
BY InitLzw, StepLzw, PTL DEF Spec

(* Every chunk comes back as it was, whatever its bytes, whatever earlier   *)
(* calls left in the dictionary, and whether the dictionary fills or not.   *)
THEOREM ChunksComeBack == Spec => []RoundTrip
<1>1. LzwInv => RoundTrip
  BY DEF LzwInv, ParseInv, RoundTrip
<1> QED
  BY <1>1, LzwInvariant, PTL

(* Decompress indexes its table only where it has a string, or with the     *)
(* code of the very string it is about to add.                              *)
THEOREM CodesWithinReach == Spec => []CodeWithinReach
<1>1. LzwInv => CodeWithinReach
  <2> SUFFICES ASSUME LzwInv PROVE CodeWithinReach
    OBVIOUS
  <2> SUFFICES ASSUME stage = "decode"
               PROVE  /\ Old < Len(Code_table)
                      /\ MoreCodes(compressed_data) =>
                           CodeAt(compressed_data, Input_position) <= Len(Code_table)
    BY DEF LzwInv, CodeWithinReach
  <2>1. PICK s, at : /\ Parse(s, at, dictionary, dict_size, Codes, input_data, i)
                     /\ \E d \in 1..Len(code_words) : Decoded(d, s, at)
    BY DEF LzwInv, ParseInv
  <2>2. PICK d \in 1..Len(code_words) : Decoded(d, s, at)
    BY <2>1
  <2>3. Codes = code_words /\ Len(code_words) \in Nat
    BY CodesTyped DEF LzwInv, Codes
  <2>4. \A k \in 1..Len(code_words) : code_words[k] \in Nat /\ code_words[k] < AlphabetSize + k - 1
    <3>1. dict_size \in Nat
      BY StateTyped DEF LzwInv
    <3> QED
      BY <2>1, <2>3, <3>1 DEF Parse, CodesKnown
  <2>5. Old < Len(Code_table)
    BY <2>2, <2>4 DEF Decoded
  <2>6. ASSUME MoreCodes(compressed_data)
        PROVE  CodeAt(compressed_data, Input_position) <= Len(Code_table)
    <3>1. d < Len(code_words)
      BY <2>2, <2>6, MoreCodesRight DEF Decoded, LzwInv, SizeInv
    <3>2. PICK j \in 0..(Len(code_words) - 1) : j = d /\ j + 1 \in 1..Len(code_words)
      BY <2>3, <3>1
    <3>3. CodeAt(compressed_data, CODE_LENGTH * j) = code_words[j + 1]
      BY NextCode DEF LzwInv
    <3>4. code_words[j + 1] \in Nat /\ code_words[j + 1] < AlphabetSize + (j + 1) - 1
      BY <2>4, <3>2
    <3>5. Len(Code_table) = AlphabetSize + j - 1 /\ Input_position = CODE_LENGTH * j
      BY <2>2, <3>2 DEF Decoded
    <3> QED
      BY <3>3, <3>4, <3>5, Constants
  <2> QED
    BY <2>5, <2>6
<1> QED
  BY <1>1, LzwInvariant, PTL

(* The strings of a parse are those that the rows define.                   *)
LEMMA StringIs ==
  ASSUME TypeOK, NEW s, Strings(s, dictionary, dict_size)
  PROVE  \A c \in 0..(dict_size - 1) : String[c] = s[c]
<1> DEFINE A == AlphabetSize
           D == 0..(dict_size - 1)
           body(f) == [c \in D |-> IF c < A THEN <<c>>
                                   ELSE Append(f[dictionary[c].prefix], dictionary[c].char)]
<1>0. A \in Nat /\ dict_size \in Nat
  BY Constants, StateTyped
<1>1. /\ s \in [D -> Seq(Char)]
      /\ \A c \in D : /\ c < A => s[c] = <<c>>
                      /\ c >= A => /\ dictionary[c].prefix \in 0..(c - 1)
                                   /\ s[c] = Append(s[dictionary[c].prefix], dictionary[c].char)
  BY DEF Strings
<1>2. \A c \in D : c \in Nat /\ (c < A \/ c >= A) /\ ~(c < A /\ c >= A)
  BY <1>0
<1>3. s = body(s)
  <2>1. \A c \in D : s[c] = IF c < A THEN <<c>>
                            ELSE Append(s[dictionary[c].prefix], dictionary[c].char)
    <3> HIDE DEF D
    <3> QED
      BY <1>1, <1>2
  <2> QED
    BY <1>1, <2>1
<1>4. String = body(String)
  <2>1. String = CHOOSE f : f = body(f)
    BY DEF String
  <2> HIDE DEF body
  <2> QED
    BY <1>3, <2>1
<1>5. \A c \in D : String[c] = IF c < A THEN <<c>>
                               ELSE Append(String[dictionary[c].prefix], dictionary[c].char)
  BY <1>4
<1> DEFINE T == {c \in D : String[c] # s[c]}
<1>6. T \subseteq Nat
  BY <1>2
<1>7. T = {}
  <2> SUFFICES ASSUME T # {} PROVE FALSE
    OBVIOUS
  <2>1. PICK c \in T : \A y \in T : c <= y
    <3> HIDE DEF T
    <3> QED
      BY <1>6, LeastNatural
  <2>2. c \in D /\ String[c] # s[c] /\ c \in Nat
    BY <1>6, <2>1
  <2>3. CASE c < A
    BY <1>1, <1>5, <2>2, <2>3
  <2>4. CASE c >= A
    <3>1. PICK b \in 0..(c - 1) : b = dictionary[c].prefix
      BY <1>1, <2>2, <2>4
    <3>2. b \in D /\ ~(c <= b)
      BY <1>0, <2>2
    <3>3. String[b] = s[b]
      BY <2>1, <3>2
    <3>4. ~(c < A)
      BY <1>2, <2>2, <2>4
    <3>5. String[c] = Append(String[b], dictionary[c].char)
      BY <1>5, <2>2, <3>1, <3>4
    <3>6. s[c] = Append(s[b], dictionary[c].char)
      BY <1>1, <2>2, <2>4, <3>1
    <3> QED
      BY <2>2, <3>3, <3>5, <3>6
  <2> QED
    BY <1>2, <2>2, <2>3, <2>4
<1> QED
  BY <1>7

(* Encoder and decoder, one ahead of the other, build the same dictionary.  *)
THEOREM TablesTheSame == Spec => []TablesAgree
<1>1. LzwInv => TablesAgree
  <2> SUFFICES ASSUME LzwInv, stage = "decode"
               PROVE  \A c \in 0..(dict_size - 1) :
                        c < Len(Code_table) => Code_table[c + 1] = String[c]
    BY DEF TablesAgree
  <2>1. PICK s, at : /\ Parse(s, at, dictionary, dict_size, Codes, input_data, i)
                     /\ \E d \in 1..Len(code_words) : Decoded(d, s, at)
    BY DEF LzwInv, ParseInv
  <2>2. \A c \in 0..(dict_size - 1) : String[c] = s[c]
    BY <2>1, StringIs DEF Parse, LzwInv
  <2> HIDE DEF String
  <2> QED
    BY <2>1, <2>2 DEF Decoded
<1> QED
  BY <1>1, LzwInvariant, PTL
-----------------------------------------------------------------------------
(* The first lzw_encode *)

(* The dictionary *)

LEMMA OldConstants ==
  /\ Letters \in Nat /\ Letters > 0 /\ CAPACITY \in Nat /\ CAPACITY > 0
  /\ ASSOCIATE_MEM_STORE \in Nat /\ MaxInput \in Nat
  /\ my_hash \in [KeyRange -> Slot]
BY LzwOldAssumption

(* Keys tell prefixes and characters apart.                                 *)
LEMMA KeyIs ==
  ASSUME NEW prefix \in Nat, NEW char \in Letter
  PROVE  /\ Key(prefix, char) \in Nat /\ char \in Nat
         /\ Key(prefix, char) \div Letters = prefix /\ Key(prefix, char) % Letters = char
         /\ prefix < Letters + MaxInput => Key(prefix, char) \in KeyRange
<1>0. Letters \in Nat /\ Letters > 0 /\ char \in Nat /\ char < Letters /\ MaxInput \in Nat
  BY OldConstants DEF Letter
<1>1. PICK a \in Nat : a = Key(prefix, char) /\ a = Letters * prefix + char
  <2>1. prefix * Letters = Letters * prefix /\ prefix * Letters \in Nat
    BY <1>0
  <2> QED
    BY <1>0, <2>1 DEF Key
<1>2. a \div Letters = prefix /\ a % Letters = char
  BY <1>0, <1>1, QuotientIs
<1>3. ASSUME prefix < Letters + MaxInput
      PROVE  a \in KeyRange
  <2>1. PICK z \in Nat : Letters + MaxInput = prefix + 1 + z
    <3> Letters + MaxInput - prefix - 1 \in Nat
      BY <1>0, <1>3
    <3> QED
      BY <1>0
  <2>2. Letters * (Letters + MaxInput) = Letters * prefix + Letters + Letters * z
    BY <1>0, <2>1
  <2>3. Letters * z \in Nat /\ Letters * prefix \in Nat
    BY <1>0
  <2>4. PICK m \in Nat : m = Letters * (Letters + MaxInput) /\ a <= m - 1
    BY <1>0, <1>1, <2>2, <2>3
  <2> QED
    BY <2>4 DEF KeyRange
<1> QED
  BY <1>0, <1>1, <1>2, <1>3

LEMMA InvalidIs ==
  /\ Invalid.key = None /\ Invalid.value = None /\ None \notin Nat
  /\ Invalid \notin OldEntry
<1>1. Invalid.key = None /\ Invalid.value = None /\ None \notin Nat
  BY DEF Invalid, None
<1>2. \A e \in OldEntry : e.value \in Nat
  BY DEF OldEntry
<1> QED
  BY <1>1, <1>2

(* insert puts an entry where lookup comes by, or leaves everything.        *)
LEMMA InsertStores ==
  ASSUME NEW table, NEW mem, NEW history, Stored(table, mem, history),
         NEW k \in KeyRange, NEW v \in Nat, NEW d, NEW d2,
         d = Dictionary(table, mem, history), d2 = insert(d, k, v)
  PROVE  /\ Stored(d2.table, d2.mem, d2.inserted)
         /\ d2 = Dictionary(d2.table, d2.mem, d2.inserted)
         /\ d2.inserted = IF Collides(d, k) THEN history
                          ELSE history \cup {[key |-> k, value |-> v]}
<1> DEFINE e == [key |-> k, value |-> v]
           h == my_hash[k]
<1>1. h \in Slot /\ e \in OldEntry /\ e # Invalid /\ e.key = k
  <2>1. h \in Slot
    BY OldConstants
  <2>2. e \in OldEntry
    BY DEF OldEntry
  <2> QED
    BY <2>1, <2>2, InvalidIs
<1>2. d = [table |-> table, mem |-> mem, inserted |-> history]
  BY DEF Dictionary
<1>3. /\ history \subseteq OldEntry
      /\ table \in [Slot -> history \cup {Invalid}]
      /\ mem \in Seq(history)
      /\ \A f \in history :
           table[my_hash[f.key]] = f \/ \E j \in 1..Len(mem) : mem[j] = f
  BY DEF Stored
<1>4. \A f \in history : f \in OldEntry /\ f # Invalid /\ my_hash[f.key] \in Slot
  <2>1. \A f \in OldEntry : f.key \in KeyRange
    BY DEF OldEntry
  <2> QED
    BY <1>3, <2>1, OldConstants, InvalidIs
<1>5. CASE table[h] = Invalid
  <2> DEFINE t2 == [table EXCEPT ![h] = e]
             H2 == history \cup {e}
  <2>1. d2 = Dictionary(t2, mem, H2)
    <3>1. insert([table |-> table, mem |-> mem, inserted |-> history], k, v)
            = Dictionary(t2, mem, H2)
      BY <1>5 DEF insert, Dictionary
    <3> QED
      BY <1>2, <3>1
  <2>2. ~Collides(d, k)
    BY <1>2, <1>5 DEF Collides
  <2>3. t2 \in [Slot -> H2 \cup {Invalid}] /\ H2 \subseteq OldEntry
    BY <1>1, <1>3
  <2>4. mem \in Seq(H2)
    BY <1>3
  <2>5. ASSUME NEW f \in H2
        PROVE  t2[my_hash[f.key]] = f \/ \E j \in 1..Len(mem) : mem[j] = f
    <3>1. CASE f = e
      BY <1>1, <1>3, <3>1
    <3>2. CASE f # e
      <4>1. f \in history
        BY <3>2
      <4>2. CASE table[my_hash[f.key]] = f
        BY <1>1, <1>3, <1>4, <1>5, <4>1, <4>2
      <4>3. CASE \E j \in 1..Len(mem) : mem[j] = f
        BY <4>3
      <4> QED
        BY <1>3, <4>1, <4>2, <4>3
    <3> QED
      BY <3>1, <3>2
  <2>6. Stored(t2, mem, H2)
    BY <2>3, <2>4, <2>5 DEF Stored
  <2> HIDE DEF t2, H2
  <2>7. d2.table = t2 /\ d2.mem = mem /\ d2.inserted = H2
    BY <2>1 DEF Dictionary
  <2> QED
    BY <2>1, <2>2, <2>6, <2>7 DEF H2
<1>6. CASE table[h] # Invalid /\ ~Collides(d, k)
  <2> DEFINE m2 == Append(mem, e)
             H2 == history \cup {e}
  <2>1. d2 = Dictionary(table, m2, H2)
    <3>1. ~Collides([table |-> table, mem |-> mem, inserted |-> history], k)
      BY <1>2, <1>6
    <3>2. insert([table |-> table, mem |-> mem, inserted |-> history], k, v)
            = Dictionary(table, m2, H2)
      BY <1>6, <3>1 DEF insert, Dictionary
    <3> QED
      BY <1>2, <3>2
  <2>2. mem \in Seq(H2) /\ e \in H2
    BY <1>3
  <2>3. /\ Len(mem) \in Nat /\ m2 \in Seq(H2) /\ Len(m2) = Len(mem) + 1
        /\ \A j \in 1..Len(mem) : m2[j] = mem[j]
        /\ m2[Len(mem) + 1] = e
    BY <2>2, Appended
  <2>4. table \in [Slot -> H2 \cup {Invalid}] /\ H2 \subseteq OldEntry
    BY <1>1, <1>3
  <2>5. ASSUME NEW f \in H2
        PROVE  table[my_hash[f.key]] = f \/ \E j \in 1..Len(m2) : m2[j] = f
    <3>0. \A j \in 1..Len(mem) : j \in 1..Len(m2)
      BY <2>3
    <3>1. CASE f = e
      <4> Len(mem) + 1 \in 1..Len(m2)
        BY <2>3
      <4> QED
        BY <2>3, <3>1
    <3>2. CASE f # e
      BY <1>3, <2>3, <3>0, <3>2
    <3> QED
      BY <3>1, <3>2
  <2> HIDE DEF m2
  <2>6. Stored(table, m2, H2)
    BY <2>3, <2>4, <2>5 DEF Stored
  <2> HIDE DEF H2
  <2>7. d2.table = table /\ d2.mem = m2 /\ d2.inserted = H2
    BY <2>1 DEF Dictionary
  <2> QED
    BY <1>6, <2>1, <2>6, <2>7 DEF H2
<1>7. CASE Collides(d, k)
  <2>1. table[h] # Invalid
    BY <1>2, <1>7 DEF Collides
  <2>2. d2 = d
    BY <1>2, <1>7, <2>1 DEF insert
  <2>3. d2.table = table /\ d2.mem = mem /\ d2.inserted = history
    BY <1>2, <2>2
  <2> QED
    BY <1>7, <2>2, <2>3
<1> QED
  BY <1>5, <1>6, <1>7

(* lookup finds what was inserted under the key, if anything was.           *)
LEMMA LookupFinds ==
  ASSUME NEW table, NEW mem, NEW history, Stored(table, mem, history), NEW k \in KeyRange
  PROVE  LET found == lookup(table, mem, k)
         IN  /\ found # None => found \in Nat /\ [key |-> k, value |-> found] \in history
             /\ found = None => \A e \in history : e.key # k
<1> DEFINE h == my_hash[k]
           found == lookup(table, mem, k)
           Match(m) == mem[m].key = k
           I == {m \in 1..Len(mem) : Match(m)}
<1>1. /\ history \subseteq OldEntry
      /\ table \in [Slot -> history \cup {Invalid}]
      /\ mem \in Seq(history)
      /\ \A f \in history :
           table[my_hash[f.key]] = f \/ \E j \in 1..Len(mem) : mem[j] = f
  BY DEF Stored
<1>2. h \in Slot
  BY OldConstants
<1>3. \A e \in history : e.value \in Nat /\ e.value # None /\ e = [key |-> e.key, value |-> e.value]
  <2>1. \A e \in OldEntry : e.value \in Nat /\ e = [key |-> e.key, value |-> e.value]
    BY DEF OldEntry
  <2> QED
    BY <1>1, <2>1, InvalidIs
<1>4. k # None /\ k \in Nat
  <2>1. KeyRange \subseteq Nat
    BY OldConstants DEF KeyRange
  <2> QED
    BY <2>1, InvalidIs
<1>5. CASE table[h].key = k
  <2>1. table[h] \in history
    BY <1>1, <1>2, <1>4, <1>5, InvalidIs
  <2>2. hash_lookup(table, k) = table[h].value
    BY <1>5 DEF hash_lookup
  <2>3. found = table[h].value /\ found # None
    BY <1>3, <2>1, <2>2 DEF lookup
  <2> HIDE DEF found
  <2> QED
    BY <1>3, <1>5, <2>1, <2>3 DEF found
<1>6. CASE table[h].key # k
  <2>1. hash_lookup(table, k) = None
    BY <1>6 DEF hash_lookup
  <2>2. found = assoc_lookup(mem, k)
    BY <2>1 DEF lookup
  <2>3. assoc_lookup(mem, k) = IF SelectInSeq(mem, LAMBDA e : e.key = k) # 0
                               THEN mem[SelectInSeq(mem, LAMBDA e : e.key = k)].value ELSE None
    BY DEF assoc_lookup
  <2>4. SelectInSeq(mem, LAMBDA e : e.key = k) = IF I # {} THEN Min(I) ELSE 0
    BY DEF SelectInSeq
  <2>5. CASE I # {}
    <3>1. I \subseteq Nat
      OBVIOUS
    <3>2. \E x \in I : \A y \in I : x <= y
      <4> HIDE DEF I
      <4> QED
        BY <2>5, <3>1, LeastNatural
    <3>3. Min(I) \in I
      <4> HIDE DEF I
      <4> QED
        BY <3>2 DEF Min
    <3>4. PICK m \in I : m = Min(I)
      BY <3>3
    <3>4a. m \in 1..Len(mem) /\ mem[m].key = k /\ m # 0
      OBVIOUS
    <3>5. found = mem[m].value
      <4> HIDE DEF found
      <4> QED
        BY <2>2, <2>3, <2>4, <2>5, <3>4, <3>4a
    <3>6. mem[m] \in history
      BY <1>1, <3>4a, ElementOfSeq
    <3> HIDE DEF found, I
    <3> QED
      BY <1>3, <3>4a, <3>5, <3>6 DEF found
  <2>6. CASE I = {}
    <3>1. found = None
      BY <2>2, <2>3, <2>4, <2>6
    <3>2. \A e \in history : e.key # k
      <4> SUFFICES ASSUME NEW e \in history, e.key = k
                   PROVE  FALSE
        OBVIOUS
      <4>1. CASE table[my_hash[e.key]] = e
        BY <1>6, <4>1
      <4>2. CASE \E j \in 1..Len(mem) : mem[j] = e
        BY <2>6, <4>2
      <4> QED
        BY <1>1, <4>1, <4>2
    <3> HIDE DEF found
    <3> QED
      BY <3>1, <3>2 DEF found
  <2> QED
    BY <2>5, <2>6
<1> QED
  BY <1>5, <1>6

(* The single characters, those that found room.                            *)
LEMMA InitializedIs ==
  LET d == Initialized
  IN  /\ Stored(d.table, d.mem, d.inserted)
      /\ \A e \in d.inserted : e.value \in 0..(Letters - 1) /\ e.key = Key(e.value, 0)
<1> DEFINE Single(history) ==
             \A e \in history : e.value \in 0..(Letters - 1) /\ e.key = Key(e.value, 0)
           All == [table : [Slot -> OldEntry \cup {Invalid}], mem : Seq(OldEntry),
                   inserted : SUBSET OldEntry]
           V == {d \in All : Stored(d.table, d.mem, d.inserted) /\ Single(d.inserted)}
           first == Dictionary([s \in Slot |-> Invalid], << >>, {})
           step == [p \in (1..Letters) \X V |-> insert(p[2], Key(p[1] - 1, 0), p[1] - 1)]
           body(f) == [n \in 0..Letters |->
                         IF n = 0 THEN first ELSE insert(f[n - 1], Key(n - 1, 0), n - 1)]
           with == CHOOSE f : f = body(f)
<1>0. Letters \in Nat /\ Letters > 0
  BY OldConstants
<1>1. first \in V
  <2>1. Stored([s \in Slot |-> Invalid], << >>, {})
    BY DEF Stored
  <2>2. first \in All
    BY DEF Dictionary
  <2>3. first.table = [s \in Slot |-> Invalid] /\ first.mem = << >> /\ first.inserted = {}
    BY DEF Dictionary
  <2> HIDE DEF first, All
  <2> QED
    BY <2>1, <2>2, <2>3
<1>2. ASSUME NEW n \in 1..Letters, NEW v \in V
      PROVE  insert(v, Key(n - 1, 0), n - 1) \in V
  <2>0. PICK c \in 0..(Letters - 1) : c = n - 1
    BY <1>0
  <2>1. 0 \in Letter /\ c \in Nat /\ c < Letters + MaxInput
    BY <1>0, OldConstants DEF Letter
  <2>2. Key(c, 0) \in KeyRange
    BY <2>1, KeyIs
  <2>3. v \in All /\ Stored(v.table, v.mem, v.inserted) /\ Single(v.inserted)
    OBVIOUS
  <2>4. v = Dictionary(v.table, v.mem, v.inserted)
    BY <2>3 DEF Dictionary
  <2> DEFINE w == insert(v, Key(c, 0), c)
             e == [key |-> Key(c, 0), value |-> c]
  <2>5. /\ Stored(w.table, w.mem, w.inserted)
        /\ w = Dictionary(w.table, w.mem, w.inserted)
        /\ w.inserted \subseteq v.inserted \cup {e}
    <3> HIDE DEF V, All
    <3> DEFINE k == Key(c, 0)
    <3>1. k \in KeyRange /\ c \in Nat
      BY <2>1, <2>2
    <3> HIDE DEF k
    <3>2. /\ Stored(w.table, w.mem, w.inserted)
          /\ w = Dictionary(w.table, w.mem, w.inserted)
          /\ w.inserted = IF Collides(v, k) THEN v.inserted
                          ELSE v.inserted \cup {[key |-> k, value |-> c]}
      <4>1. w = insert(v, k, c)
        BY DEF k
      <4> HIDE DEF w
      <4>2. PICK table, mem, history : /\ Stored(table, mem, history)
                                       /\ v = Dictionary(table, mem, history)
                                       /\ v.inserted = history
        BY <2>3, <2>4
      <4> QED
        BY <3>1, <4>1, <4>2, InsertStores
    <3> HIDE DEF w
    <3> QED
      BY <3>2 DEF k
  <2> HIDE DEF w
  <2>6. w \in All
    <3>1. /\ w.inserted \subseteq OldEntry
          /\ w.table \in [Slot -> OldEntry \cup {Invalid}]
      BY <2>5 DEF Stored
    <3>2. w.mem \in Seq(OldEntry)
      BY <2>5 DEF Stored
    <3> HIDE DEF e
    <3> QED
      BY <2>5, <3>1, <3>2 DEF Dictionary
  <2>7. Single(w.inserted)
    <3>1. e.value \in 0..(Letters - 1) /\ e.key = Key(e.value, 0)
      OBVIOUS
    <3> HIDE DEF e
    <3> QED
      BY <2>3, <2>5, <3>1
  <2> HIDE DEF All
  <2> QED
    BY <2>0, <2>5, <2>6, <2>7 DEF w
<1> HIDE DEF V, first
<1>3. \A n \in 1..Letters, v \in V : step[<<n, v>>] = insert(v, Key(n - 1, 0), n - 1)
  OBVIOUS
<1>4. IsStep(step, Letters, V)
  <2> HIDE DEF step
  <2> QED
    BY <1>2, <1>3 DEF IsStep
<1> HIDE DEF step
<1>5. PICK f : Iterates(f, Letters, V, first, step)
  BY <1>0, <1>1, <1>4, PrimitiveRecursion
<1>6. f \in [0..Letters -> V] /\ f[0] = first /\ \A n \in 1..Letters : f[n] = step[<<n, f[n - 1]>>]
  BY <1>5 DEF Iterates
<1>7. f = body(f)
  <2>1. ASSUME NEW n \in 0..Letters
        PROVE  f[n] = IF n = 0 THEN first ELSE insert(f[n - 1], Key(n - 1, 0), n - 1)
    <3>1. CASE n = 0
      BY <1>6, <3>1
    <3>2. CASE n # 0
      <4>1. n \in 1..Letters /\ n - 1 \in 0..Letters
        BY <1>0, <3>2
      <4>2. f[n - 1] \in V
        BY <1>6, <4>1
      <4> QED
        BY <1>3, <1>6, <3>2, <4>1, <4>2
    <3> QED
      BY <3>1, <3>2
  <2> QED
    BY <1>6, <2>1
<1>8. with = body(with)
  <2> HIDE DEF body
  <2> QED
    BY <1>7
<1>9. Initialized = with[Letters]
  BY DEF Initialized, first
<1> DEFINE T == {n \in 0..Letters : with[n] \in V}
<1> HIDE DEF with
<1>10. \A n \in 0..Letters :
         with[n] = IF n = 0 THEN first ELSE insert(with[n - 1], Key(n - 1, 0), n - 1)
  BY <1>8
<1> HIDE DEF body
<1>11. 0 \in T
  BY <1>0, <1>1, <1>10
<1>12. ASSUME NEW n \in 0..(Letters - 1), n \in T
       PROVE  n + 1 \in T
  <2>1. PICK m \in 1..Letters : m = n + 1 /\ m - 1 = n /\ m \in 0..Letters /\ m # 0
    BY <1>0
  <2>2. with[m] = insert(with[m - 1], Key(m - 1, 0), m - 1)
    BY <1>10, <2>1
  <2>3. with[m] \in V
    BY <1>2, <1>12, <2>1, <2>2
  <2> QED
    BY <2>1, <2>3
<1>13. with[Letters] \in V
  <2>1. 0..Letters \subseteq T
    <3> HIDE DEF T
    <3> QED
      BY <1>0, <1>11, <1>12, InductiveInterval
  <2> QED
    BY <1>0, <2>1
<1> QED
  BY <1>9, <1>13 DEF V

-----------------------------------------------------------------------------
(* The parse of the old codes *)

(* A text with one character more has the same pieces, and one that         *)
(* reaches to its end.                                                      *)
Lengthened(t, text, x, n) ==
    /\ Len(t) = n + 1
    /\ \A a \in 0..n, b \in 0..n :
         a < b => SubSeq(t, a + 1, b) = SubSeq(text, a + 1, b)
    /\ \A a \in 0..n :
         a < n => SubSeq(t, a + 1, n + 1) = Append(SubSeq(text, a + 1, n), x)
    /\ SubSeq(t, n + 1, n + 1) = <<x>>

LEMMA LongerText ==
  ASSUME NEW S, NEW text \in Seq(S), NEW x \in S, NEW n, n = Len(text),
         NEW t, t = Append(text, x)
  PROVE  t \in Seq(S) /\ Lengthened(t, text, x, n)
<1>1. /\ t \in Seq(S) /\ t = text \o <<x>> /\ Len(t) = Len(text) + 1
      /\ t[Len(text) + 1] = x
  BY Appended
<1>2. n \in Nat /\ n = Len(text)
  OBVIOUS
<1>3. ASSUME NEW a \in 0..n, NEW b \in 0..n, a < b
      PROVE  SubSeq(t, a + 1, b) = SubSeq(text, a + 1, b)
  <2>1. PICK m \in 1..Len(text) : m = a + 1
    BY <1>2, <1>3
  <2>2. b \in 1..Len(text) /\ <<x>> \in Seq(S)
    BY <1>2, <1>3
  <2> QED
    BY <1>1, <2>1, <2>2, SubSeqOfConcat1
<1>4. ASSUME NEW a \in 0..n, a < n
      PROVE  SubSeq(t, a + 1, n + 1) = Append(SubSeq(text, a + 1, n), x)
  <2>1. a \in 0..Len(t) /\ n \in a..Len(t) /\ n < Len(t) /\ n \in 0..n
    BY <1>1, <1>2, <1>4
  <2>2. Append(SubSeq(t, a + 1, n), t[n + 1]) = SubSeq(t, a + 1, n + 1)
    BY <2>1, Pieces
  <2>3. SubSeq(t, a + 1, n) = SubSeq(text, a + 1, n)
    BY <1>3, <1>4, <2>1
  <2> QED
    BY <1>1, <1>2, <2>2, <2>3
<1>5. SubSeq(t, n + 1, n + 1) = <<x>>
  <2>1. PICK b \in 1..Len(t) : b = n + 1
    BY <1>1, <1>2
  <2> QED
    BY <1>1, <1>2, <2>1, OnePiece
<1> QED
  BY <1>1, <1>2, <1>3, <1>4, <1>5 DEF Lengthened

(* The parse of the first character.                                        *)
LEMMA OldParseFirst ==
  ASSUME NEW history, NEW x \in Letter, NEW codes, Len(codes) = 1, codes[1] = x,
         \A e \in history : e.value \in 0..(Letters - 1) /\ e.key = Key(e.value, 0)
  PROVE  \E s, at : OldParse(s, at, history, Letters, codes, <<x>>, TRUE)
<1> DEFINE s == [c \in 0..(Letters - 1) |-> <<c>>]
           at == [k \in 1..2 |-> k - 1]
<1>0. /\ Letters \in Nat /\ Letters > 0 /\ x \in 0..(Letters - 1) /\ x < Letters
      /\ Letter = 0..(Letters - 1)
  BY OldConstants DEF Letter
<1>1. \A c \in 0..(Letters - 1) :
        s[c] = <<c>> /\ Len(<<c>>) = 1 /\ <<c>> \in Seq(Letter) /\ c < Letters
  BY <1>0
<1>2. s \in [0..(Letters - 1) -> Seq(Letter)]
  BY <1>1
<1>3. at \in [1..2 -> 0..1] /\ at[1] = 0 /\ at[2] = 1
  OBVIOUS
<1>4. Len(<<x>>) = 1 /\ <<x>>[1] = x /\ <<x>> \in Seq(Letter)
  BY <1>0
<1> HIDE DEF s, at
<1>5. OldStrings(s, history, Letters)
  <2>1. \A e \in history : ~(e.value >= Letters)
    BY <1>0
  <2>2. Letters..(Letters - 1) = {}
    BY <1>0
  <2>3. \A c \in 0..(Letters - 1) : Len(s[c]) > 0
    BY <1>1
  <2> QED
    BY <1>1, <1>2, <2>1, <2>2, <2>3 DEF OldStrings
<1>6. OldCovers(s, Letters, codes, at, <<x>>)
  <2>1. SubSeq(<<x>>, 1, 1) = <<x>>
    <3> 1 \in 1..Len(<<x>>)
      BY <1>4
    <3> QED
      BY <1>4, OnePiece
  <2> DEFINE text == <<x>>
  <2>2. ASSUME NEW k \in 1..1
        PROVE  /\ codes[k] \in 0..(Letters - 1) /\ at[k] < at[k + 1]
               /\ s[codes[k]] = SubSeq(text, at[k] + 1, at[k + 1])
    <3>1. k = 1 /\ at[k] = 0 /\ at[k + 1] = 1 /\ at[k] + 1 = 1
      BY <1>3
    <3> QED
      BY <1>0, <1>1, <2>1, <3>1
  <2>3. Len(text) = 1
    BY <1>4
  <2> HIDE DEF text
  <2>4. OldCovers(s, Letters, codes, at, text)
    BY <1>3, <2>2, <2>3 DEF OldCovers
  <2> QED
    BY <2>4 DEF text
<1>7. OldFollows(s, Letters, codes)
  BY <1>0 DEF OldFollows
<1> QED
  BY <1>5, <1>6, <1>7 DEF OldParse

(* What the codes covers when the text is one character longer: either the  *)
(* last code stands for a longer string, or there is a code more.           *)
LEMMA CoversLengthened ==
  ASSUME NEW s, NEW size \in Nat, NEW codes, NEW codes2, NEW at, NEW text \in Seq(Letter),
         NEW N \in Nat, N > 0, Len(codes) = N, Len(codes2) = N,
         \A k \in 1..(N - 1) : codes2[k] = codes[k],
         NEW x \in Letter, codes2[N] \in 0..(size - 1), s[codes2[N]] = Append(s[codes[N]], x),
         OldCovers(s, size, codes, at, text)
  PROVE  OldCovers(s, size, codes2, [at EXCEPT ![N + 1] = Len(text) + 1], Append(text, x))
<1> DEFINE at2 == [at EXCEPT ![N + 1] = Len(text) + 1]
<1>0. PICK n \in Nat : n = Len(text)
  OBVIOUS
<1>t. PICK t : t = Append(text, x)
  OBVIOUS
<1>1. /\ at \in [1..(N + 1) -> 0..n] /\ at[1] = 0 /\ at[N + 1] = n
      /\ \A k \in 1..N : /\ codes[k] \in 0..(size - 1) /\ at[k] < at[k + 1]
                         /\ s[codes[k]] = SubSeq(text, at[k] + 1, at[k + 1])
  BY <1>0 DEF OldCovers
<1>2. /\ Len(t) = n + 1
      /\ \A a \in 0..n, b \in 0..n : a < b => SubSeq(t, a + 1, b) = SubSeq(text, a + 1, b)
      /\ \A a \in 0..n : a < n => SubSeq(t, a + 1, n + 1) = Append(SubSeq(text, a + 1, n), x)
  <2>1. Lengthened(t, text, x, n)
    BY <1>0, <1>t, LongerText
  <2> QED
    BY <2>1 DEF Lengthened
<1>3. /\ at2 \in [1..(N + 1) -> 0..(n + 1)] /\ at2[N + 1] = n + 1
      /\ \A k \in 1..N : at2[k] = at[k] /\ at[k] \in 0..n
  <2>1. N + 1 \in 1..(N + 1) /\ \A k \in 1..N : k \in 1..(N + 1) /\ k # N + 1
    OBVIOUS
  <2> DEFINE D == 1..(N + 1)
             R == 0..(n + 1)
  <2>2. 0..n \subseteq R /\ n + 1 \in R
    OBVIOUS
  <2> HIDE DEF R
  <2>3. at \in [D -> R] /\ \A k \in D : at[k] \in 0..n
    BY <1>1, <2>2
  <2>4. N + 1 \in D
    BY <2>1
  <2> HIDE DEF D
  <2>5. at2 = [at EXCEPT ![N + 1] = n + 1]
    BY <1>0
  <2> HIDE DEF at2
  <2>6. at2 \in [D -> R] /\ at2[N + 1] = n + 1 /\ \A k \in D : k # N + 1 => at2[k] = at[k]
    BY <2>2, <2>3, <2>4, <2>5
  <2> QED
    BY <2>1, <2>3, <2>6 DEF D, R
<1> HIDE DEF at2
<1>4. at2[1] = 0
  BY <1>1, <1>3
<1>5. ASSUME NEW k \in 1..N
      PROVE  /\ codes2[k] \in 0..(size - 1) /\ at2[k] < at2[k + 1]
             /\ s[codes2[k]] = SubSeq(t, at2[k] + 1, at2[k + 1])
  <2>1. CASE k = N
    <3>1. at2[k] = at[k] /\ at2[k + 1] = n + 1 /\ at[k] < n /\ at[k] \in 0..n
      BY <1>1, <1>3, <2>1
    <3>2. PICK a \in 0..n : a = at[k] /\ a < n
      BY <3>1
    <3>3. s[codes2[k]] = Append(SubSeq(text, a + 1, n), x)
      BY <1>1, <2>1, <3>2
    <3>4. s[codes2[k]] = SubSeq(t, a + 1, n + 1)
      BY <1>2, <3>2, <3>3
    <3>5. codes2[k] \in 0..(size - 1) /\ at2[k] < at2[k + 1]
      BY <2>1, <3>1
    <3> QED
      BY <3>1, <3>2, <3>4, <3>5
  <2>2. CASE k # N
    <3>1. k \in 1..(N - 1) /\ k + 1 \in 1..N
      BY <2>2
    <3>2. codes2[k] = codes[k] /\ at2[k] = at[k] /\ at2[k + 1] = at[k + 1]
      BY <1>3, <3>1
    <3>3. at[k] \in 0..n /\ at[k + 1] \in 0..n /\ at[k] < at[k + 1]
      BY <1>1, <1>3, <3>1
    <3>4. PICK a \in 0..n, b \in 0..n : a = at[k] /\ b = at[k + 1] /\ a < b
      BY <3>3
    <3>5. s[codes2[k]] = SubSeq(text, a + 1, b)
      BY <1>1, <3>2, <3>4
    <3>6. s[codes2[k]] = SubSeq(t, a + 1, b)
      BY <1>2, <3>4, <3>5
    <3> QED
      BY <1>1, <3>2, <3>4, <3>6
  <2> QED
    BY <2>1, <2>2
<1>6. OldCovers(s, size, codes2, at2, t)
  BY <1>2, <1>3, <1>4, <1>5 DEF OldCovers
<1> QED
  BY <1>0, <1>t, <1>6 DEF at2

LEMMA CoversExtended ==
  ASSUME NEW s, NEW size \in Nat, NEW codes, NEW at, NEW text \in Seq(Letter),
         NEW s2, NEW size2 \in Nat, NEW codes2,
         NEW N \in Nat, Len(codes) = N, Len(codes2) = N + 1,
         \A k \in 1..N : codes2[k] = codes[k],
         NEW x \in Letter, codes2[N + 1] = x, x < size2, s2[x] = <<x>>,
         size <= size2, \A c \in 0..(size - 1) : s2[c] = s[c],
         OldCovers(s, size, codes, at, text)
  PROVE  \E at2 : OldCovers(s2, size2, codes2, at2, Append(text, x))
<1> DEFINE at2 == [k \in 1..((N + 1) + 1) |-> IF k <= N + 1 THEN at[k] ELSE Len(text) + 1]
<1>0. x \in Nat
  BY OldConstants DEF Letter
<1>0a. PICK n \in Nat : n = Len(text)
  OBVIOUS
<1>t. PICK t : t = Append(text, x)
  OBVIOUS
<1>1. /\ at \in [1..(N + 1) -> 0..n] /\ at[1] = 0 /\ at[N + 1] = n
      /\ \A k \in 1..N : /\ codes[k] \in 0..(size - 1) /\ at[k] < at[k + 1]
                         /\ s[codes[k]] = SubSeq(text, at[k] + 1, at[k + 1])
  BY <1>0a DEF OldCovers
<1>2. /\ Len(t) = n + 1
      /\ \A a \in 0..n, b \in 0..n : a < b => SubSeq(t, a + 1, b) = SubSeq(text, a + 1, b)
      /\ SubSeq(t, n + 1, n + 1) = <<x>>
  <2>1. Lengthened(t, text, x, n)
    BY <1>0a, <1>t, LongerText
  <2> QED
    BY <2>1 DEF Lengthened
<1>3. /\ at2 \in [1..((N + 1) + 1) -> 0..(n + 1)] /\ at2[(N + 1) + 1] = n + 1
      /\ \A k \in 1..(N + 1) : at2[k] = at[k] /\ at[k] \in 0..n
  <2>1. \A k \in 1..((N + 1) + 1) : /\ k <= N + 1 => k \in 1..(N + 1)
                                    /\ ~(k <= N + 1) => k = (N + 1) + 1
    OBVIOUS
  <2>2. \A k \in 1..(N + 1) : k \in 1..((N + 1) + 1) /\ k <= N + 1
    OBVIOUS
  <2>3. ~((N + 1) + 1 <= N + 1) /\ (N + 1) + 1 \in 1..((N + 1) + 1)
    OBVIOUS
  <2>4. \A k \in 1..((N + 1) + 1) :
          (IF k <= N + 1 THEN at[k] ELSE Len(text) + 1) \in 0..(n + 1)
    BY <1>0a, <1>1, <2>1
  <2>5. at2 \in [1..((N + 1) + 1) -> 0..(n + 1)]
    BY <2>4
  <2>6. \A k \in 1..(N + 1) : at2[k] = at[k]
    BY <2>2
  <2>7. at2[(N + 1) + 1] = n + 1
    BY <1>0a, <2>3
  <2> HIDE DEF at2
  <2> QED
    BY <1>1, <2>5, <2>6, <2>7
<1> HIDE DEF at2
<1>4. at2[1] = 0
  BY <1>1, <1>3
<1>5. ASSUME NEW k \in 1..(N + 1)
      PROVE  /\ codes2[k] \in 0..(size2 - 1) /\ at2[k] < at2[k + 1]
             /\ s2[codes2[k]] = SubSeq(t, at2[k] + 1, at2[k + 1])
  <2>1. CASE k = N + 1
    <3>1. at2[k] = n /\ at2[k + 1] = n + 1 /\ codes2[k] = x
      BY <1>1, <1>3, <2>1
    <3>2. s2[codes2[k]] = SubSeq(t, n + 1, n + 1) /\ n \in Nat /\ n < n + 1
      <4>1. s2[codes2[k]] = <<x>>
        BY <3>1
      <4>2. s2[codes2[k]] = SubSeq(t, n + 1, n + 1)
        BY <1>2, <4>1, Zenon
      <4> QED
        BY <4>2
    <3>3. codes2[k] \in 0..(size2 - 1)
      BY <1>0, <3>1
    <3> QED
      BY <3>1, <3>2, <3>3
  <2>2. CASE k # N + 1
    <3>1. k \in 1..N /\ k \in 1..(N + 1) /\ k + 1 \in 1..(N + 1)
      BY <2>2
    <3>2. codes2[k] = codes[k] /\ at2[k] = at[k] /\ at2[k + 1] = at[k + 1]
      BY <1>3, <3>1
    <3>3. at[k] \in 0..n /\ at[k + 1] \in 0..n /\ at[k] < at[k + 1]
      BY <1>1, <1>3, <3>1
    <3>4. codes[k] \in 0..(size - 1) /\ codes[k] \in 0..(size2 - 1)
      BY <1>1, <3>1
    <3>5. PICK a \in 0..n, b \in 0..n : a = at[k] /\ b = at[k + 1] /\ a < b
      BY <3>3
    <3>6. s2[codes2[k]] = SubSeq(text, a + 1, b)
      BY <1>1, <3>1, <3>2, <3>4, <3>5
    <3>7. s2[codes2[k]] = SubSeq(t, a + 1, b)
      BY <1>2, <3>5, <3>6
    <3> QED
      BY <3>2, <3>4, <3>5, <3>7
  <2> QED
    BY <2>1, <2>2
<1>6. OldCovers(s2, size2, codes2, at2, t)
  BY <1>2, <1>3, <1>4, <1>5 DEF OldCovers
<1> QED
  BY <1>0a, <1>t, <1>6

(* The last code stands for a string with one character more.               *)
LEMMA OldParseLengthen ==
  ASSUME NEW s, NEW at, NEW history, NEW size \in Nat, NEW codes, NEW codes2,
         NEW text \in Seq(Letter), NEW complete, NEW N \in Nat, N > 0,
         Len(codes) = N, Len(codes2) = N,
         \A k \in 1..(N - 1) : codes2[k] = codes[k],
         NEW x \in Letter, codes2[N] \in 0..(size - 1), s[codes2[N]] = Append(s[codes[N]], x),
         OldParse(s, at, history, size, codes, text, complete)
  PROVE  \E at2 : OldParse(s, at2, history, size, codes2, Append(text, x), complete)
<1>0. Letters \in Nat
  BY OldConstants
<1>1. OldStrings(s, history, size) /\ OldCovers(s, size, codes, at, text)
  BY DEF OldParse
<1>2. \E at2 : OldCovers(s, size, codes2, at2, Append(text, x))
  BY <1>1, CoversLengthened
<1>3. /\ N \in 1..N /\ codes[N] \in 0..(size - 1)
      /\ s[codes[N]] \in Seq(Letter) /\ Len(s[codes[N]]) > 0
  <2>1. N \in 1..N
    OBVIOUS
  <2>2. codes[N] \in 0..(size - 1)
    BY <1>1, <2>1 DEF OldCovers
  <2> QED
    BY <1>1, <2>1, <2>2 DEF OldStrings
<1>4. s[codes2[N]][1] = s[codes[N]][1]
  <2> DEFINE u == s[codes[N]]
  <2>1. u \in Seq(Letter) /\ 1 \in 1..Len(u)
    BY <1>3
  <2> HIDE DEF u
  <2>2. Append(u, x)[1] = u[1]
    BY <2>1, Appended
  <2> QED
    BY <2>2 DEF u
<1>5. ASSUME OldFollows(s, size, codes)
      PROVE  OldFollows(s, size, codes2)
  <2>1. /\ size = Letters + N - 1
        /\ \A k \in 1..N : codes[k] < Letters + k - 1
        /\ \A k \in 1..(N - 1) : s[Letters + k - 1] = Append(s[codes[k]], s[codes[k + 1]][1])
    BY <1>5 DEF OldFollows
  <2>2. ASSUME NEW k \in 1..N
        PROVE  codes2[k] < Letters + k - 1
    <3>1. CASE k = N
      BY <1>0, <2>1, <3>1
    <3>2. CASE k # N
      <4> k \in 1..(N - 1)
        BY <3>2
      <4> QED
        BY <2>1
    <3> QED
      BY <3>1, <3>2
  <2>3. ASSUME NEW k \in 1..(N - 1)
        PROVE  s[Letters + k - 1] = Append(s[codes2[k]], s[codes2[k + 1]][1])
    <3>1. PICK m \in 2..N : m = k + 1
      OBVIOUS
    <3>2. s[codes2[m]][1] = s[codes[m]][1]
      <4>1. CASE m = N
        BY <1>4, <4>1
      <4>2. CASE m # N
        <5> m \in 1..(N - 1)
          BY <4>2
        <5> QED
          OBVIOUS
      <4> QED
        BY <4>1, <4>2
    <3>3. s[Letters + k - 1] = Append(s[codes[k]], s[codes[m]][1]) /\ codes2[k] = codes[k]
      BY <2>1, <3>1
    <3> QED
      BY <3>1, <3>2, <3>3
  <2> QED
    BY <2>1, <2>2, <2>3 DEF OldFollows
<1> QED
  BY <1>1, <1>2, <1>5 DEF OldParse

(* A code more, of one character, when the insertion was refused...         *)
LEMMA OldParseRefused ==
  ASSUME NEW s, NEW at, NEW history, NEW size \in Nat, size >= Letters, NEW codes, NEW codes2,
         NEW text \in Seq(Letter), NEW complete, NEW N \in Nat,
         Len(codes) = N, Len(codes2) = N + 1,
         \A k \in 1..N : codes2[k] = codes[k],
         NEW x \in Letter, codes2[N + 1] = x,
         OldParse(s, at, history, size, codes, text, complete)
  PROVE  \E at2 : OldParse(s, at2, history, size, codes2, Append(text, x), FALSE)
<1>1. OldStrings(s, history, size) /\ OldCovers(s, size, codes, at, text)
  BY DEF OldParse
<1>2. x \in 0..(size - 1) /\ x < size /\ s[x] = <<x>>
  <2>1. x \in 0..(size - 1) /\ x < Letters
    BY OldConstants DEF Letter
  <2> QED
    BY <1>1, <2>1 DEF OldStrings
<1>3. \E at2 : OldCovers(s, size, codes2, at2, Append(text, x))
  <2> size <= size
    OBVIOUS
  <2> QED
    BY <1>1, <1>2, CoversExtended
<1> QED
  BY <1>1, <1>3 DEF OldParse

(* ... and when it was not.                                                 *)
LEMMA OldParseInserted ==
  ASSUME NEW s, NEW at, NEW history, history \subseteq OldEntry,
         NEW size \in Nat, size >= Letters, NEW codes, NEW codes2,
         NEW text \in Seq(Letter), NEW complete, NEW N \in Nat, N > 0,
         Len(codes) = N, Len(codes2) = N + 1,
         \A k \in 1..N : codes2[k] = codes[k],
         NEW x \in Letter, codes2[N + 1] = x,
         OldParse(s, at, history, size, codes, text, complete)
  PROVE  \E s2, at2 :
           OldParse(s2, at2, history \cup {[key |-> Key(codes[N], x), value |-> size]},
                    size + 1, codes2, Append(text, x), complete)
<1> DEFINE c0 == codes[N]
           new == Append(s[c0], x)
           e0 == [key |-> Key(c0, x), value |-> size]
           s2 == [c \in 0..size |-> IF c < size THEN s[c] ELSE new]
<1>0. Letters \in Nat /\ Letters > 0 /\ x \in 0..(Letters - 1) /\ x \in 0..(size - 1) /\ x < Letters
  BY OldConstants DEF Letter
<1>1. OldStrings(s, history, size) /\ OldCovers(s, size, codes, at, text)
  BY DEF OldParse
<1>2. /\ s \in [0..(size - 1) -> Seq(Letter)]
      /\ \A c \in 0..(size - 1) : Len(s[c]) > 0 /\ (c < Letters => s[c] = <<c>>)
      /\ \A c \in Letters..(size - 1) : \E e \in history : e.value = c
      /\ \A e \in history :
           /\ e.value < Letters => e.key = Key(e.value, 0)
           /\ e.value >= Letters =>
                /\ e.value < size /\ e.key \div Letters < e.value
                /\ s[e.value] = Append(s[e.key \div Letters], e.key % Letters)
  BY <1>1 DEF OldStrings
<1>3. \A k \in 1..N : codes[k] \in 0..(size - 1)
  BY <1>1 DEF OldCovers
<1>4. c0 \in 0..(size - 1) /\ c0 \in Nat /\ c0 < size
  <2> N \in 1..N
    OBVIOUS
  <2> QED
    BY <1>3
<1>5. new \in Seq(Letter) /\ Len(new) > 0
  <2> DEFINE u == s[c0]
  <2>1. u \in Seq(Letter)
    BY <1>2, <1>4
  <2> HIDE DEF u
  <2>2. Append(u, x) \in Seq(Letter) /\ Len(Append(u, x)) = Len(u) + 1 /\ Len(u) \in Nat
    BY <2>1, Appended
  <2>3. Len(Append(u, x)) > 0
    BY <2>2
  <2> QED
    BY <2>2, <2>3 DEF u
<1>6. e0.value = size /\ e0.key = Key(c0, x) /\ e0.key \div Letters = c0 /\ e0.key % Letters = x
  BY <1>4, KeyIs
<1> HIDE DEF c0, e0
<1>7. /\ \A c \in 0..(size - 1) : c \in 0..size /\ s2[c] = s[c]
      /\ s2[size] = new
  <2>1. \A c \in 0..(size - 1) : c \in 0..size /\ c < size
    OBVIOUS
  <2>2. size \in 0..size /\ ~(size < size)
    OBVIOUS
  <2> QED
    BY <2>1, <2>2
<1>8. s2 \in [0..size -> Seq(Letter)]
  <2>1. \A c \in 0..size : c < size => c \in 0..(size - 1)
    OBVIOUS
  <2> HIDE DEF new
  <2> QED
    BY <1>2, <1>5, <2>1
<1> HIDE DEF s2
<1>8a. \A c \in 0..size : c \in 0..(size - 1) \/ c = size
  OBVIOUS
<1>9. \A e \in history : e.value \in Nat /\ e.key \in Nat /\ e.key \div Letters \in Nat
  <2>1. \A e \in history : e.value \in Nat /\ e.key \in KeyRange
    BY DEF OldEntry
  <2>2. KeyRange \subseteq Nat
    BY OldConstants DEF KeyRange
  <2> QED
    BY <1>0, <2>1, <2>2, Quotient
<1>10. OldStrings(s2, history \cup {e0}, size + 1)
  <2>1. 0..((size + 1) - 1) = 0..size /\ Letters..((size + 1) - 1) = Letters..size
    OBVIOUS
  <2>2. \A c \in 0..size : Len(s2[c]) > 0 /\ (c < Letters => s2[c] = <<c>>)
    <3>1. \A c \in 0..(size - 1) : Len(s2[c]) > 0 /\ (c < Letters => s2[c] = <<c>>)
      BY <1>2, <1>7
    <3>2. Len(s2[size]) > 0 /\ ~(size < Letters)
      BY <1>0, <1>5, <1>7
    <3> QED
      BY <1>8a, <3>1, <3>2
  <2>3. ASSUME NEW c \in Letters..size
        PROVE  \E e \in history \cup {e0} : e.value = c
    <3>1. CASE c = size
      BY <1>6, <3>1
    <3>2. CASE c # size
      <4> c \in Letters..(size - 1)
        BY <1>0, <3>2
      <4> QED
        BY <1>2
    <3> QED
      BY <3>1, <3>2
  <2>4. ASSUME NEW e \in history \cup {e0}
        PROVE  /\ e.value < Letters => e.key = Key(e.value, 0)
               /\ e.value >= Letters =>
                    /\ e.value < size + 1 /\ e.key \div Letters < e.value
                    /\ s2[e.value] = Append(s2[e.key \div Letters], e.key % Letters)
    <3>1. CASE e = e0
      <4>1. ~(e.value < Letters) /\ e.value < size + 1 /\ e.key \div Letters < e.value
        BY <1>0, <1>4, <1>6, <3>1
      <4>2. s2[e.value] = new /\ s2[c0] = s[c0]
        BY <1>4, <1>6, <1>7, <3>1
      <4>3. s2[e.value] = Append(s2[c0], x)
        BY <4>2
      <4> HIDE DEF new
      <4> QED
        BY <1>6, <3>1, <4>1, <4>3
    <3>2. CASE e # e0
      <4>1. e \in history
        BY <3>2
      <4>2. CASE e.value < Letters
        <5> ~(e.value >= Letters)
          BY <1>0, <1>9, <4>1, <4>2
        <5> QED
          BY <1>2, <4>1, <4>2
      <4>3. CASE e.value >= Letters
        <5>1. /\ e.value < size /\ e.key \div Letters < e.value
              /\ s[e.value] = Append(s[e.key \div Letters], e.key % Letters)
          BY <1>2, <4>1, <4>3
        <5>2. PICK v \in 0..(size - 1), p \in 0..(size - 1) : v = e.value /\ p = e.key \div Letters
          BY <1>9, <4>1, <5>1
        <5>3. s2[v] = s[v] /\ s2[p] = s[p]
          BY <1>7
        <5>4. ~(e.value < Letters) /\ e.value < size + 1
          BY <1>0, <1>9, <4>1, <4>3, <5>1
        <5> QED
          BY <5>1, <5>2, <5>3, <5>4
      <4> QED
        BY <1>0, <1>9, <4>1, <4>2, <4>3
    <3> QED
      BY <3>1, <3>2
  <2> HIDE DEF new
  <2> QED
    BY <1>8, <2>1, <2>2, <2>3, <2>4 DEF OldStrings
<1>11. s2[x] = <<x>> /\ <<x>>[1] = x
  BY <1>0, <1>2, <1>7
<1>12. \E at2 : OldCovers(s2, size + 1, codes2, at2, Append(text, x))
  <2>1. PICK size2 \in Nat : size2 = size + 1 /\ size <= size2 /\ x < size2
    BY <1>0
  <2>2. \E at2 : OldCovers(s2, size2, codes2, at2, Append(text, x))
    BY <1>1, <1>7, <1>11, <2>1, CoversExtended
  <2> QED
    BY <2>1, <2>2
<1>13. ASSUME OldFollows(s, size, codes)
       PROVE  OldFollows(s2, size + 1, codes2)
  <2>1. /\ size = Letters + N - 1
        /\ \A k \in 1..N : codes[k] < Letters + k - 1
        /\ \A k \in 1..(N - 1) : s[Letters + k - 1] = Append(s[codes[k]], s[codes[k + 1]][1])
    BY <1>13 DEF OldFollows
  <2>2. ASSUME NEW k \in 1..(N + 1)
        PROVE  codes2[k] < Letters + k - 1
    <3>1. CASE k = N + 1
      BY <1>0, <3>1
    <3>2. CASE k # N + 1
      <4> k \in 1..N
        BY <3>2
      <4> QED
        BY <2>1
    <3> QED
      BY <3>1, <3>2
  <2>3. ASSUME NEW k \in 1..N
        PROVE  s2[Letters + k - 1] = Append(s2[codes2[k]], s2[codes2[k + 1]][1])
    <3>1. codes2[k] = codes[k] /\ s2[codes[k]] = s[codes[k]]
      BY <1>3, <1>7
    <3>2. CASE k = N
      <4>1. Letters + k - 1 = size /\ k + 1 = N + 1
        BY <2>1, <3>2
      <4>2. s2[codes2[k + 1]][1] = x
        BY <1>11, <4>1
      <4>3. s2[Letters + k - 1] = Append(s[codes[k]], x)
        BY <1>7, <3>2, <4>1 DEF c0
      <4> QED
        BY <3>1, <4>2, <4>3
    <3>3. CASE k # N
      <4>1. PICK m \in 1..N : m = k + 1
        BY <3>3
      <4>2. k \in 1..(N - 1)
        BY <3>3
      <4>3. PICK c \in 0..(size - 1) : c = Letters + k - 1
        BY <1>0, <2>1, <4>2
      <4>4. s[c] = Append(s[codes[k]], s[codes[m]][1])
        BY <2>1, <4>1, <4>2, <4>3
      <4>5. s2[c] = s[c] /\ codes2[m] = codes[m] /\ s2[codes[m]] = s[codes[m]]
        BY <1>3, <1>7
      <4> QED
        BY <3>1, <4>1, <4>3, <4>4, <4>5
    <3> QED
      BY <3>2, <3>3
  <2>4. (N + 1) - 1 = N /\ size + 1 = Letters + (N + 1) - 1
    BY <1>0, <2>1
  <2> HIDE DEF new
  <2> QED
    BY <2>2, <2>3, <2>4 DEF OldFollows
<1> QED
  BY <1>10, <1>12, <1>13 DEF OldParse, e0, c0

(* The strings of the parse are those that the entries define.              *)
LEMMA OldStringIs ==
  ASSUME NEW s, next_code \in Nat, next_code >= Letters,
         inserted \subseteq OldEntry, OldStrings(s, inserted, next_code)
  PROVE  \A c \in 0..(next_code - 1) : OldString[c] = s[c]
<1>9. \A e \in inserted : e.value \in Nat /\ (e.value >= Letters => e.value < next_code)
  BY DEF OldStrings, OldEntry
<1> DEFINE D == 0..(next_code - 1)
           entry(c) == CHOOSE e \in inserted : e.value = c
           prefix(c) == entry(c).key \div Letters
           char(c) == entry(c).key % Letters
           body(f) == [c \in D |-> IF c < Letters THEN <<c>> ELSE Append(f[prefix(c)], char(c))]
<1>0. Letters \in Nat /\ Letters > 0
  BY OldConstants
<1>1. /\ s \in [D -> Seq(Letter)]
      /\ \A c \in D : c < Letters => s[c] = <<c>>
      /\ \A c \in Letters..(next_code - 1) : \E e \in inserted : e.value = c
      /\ \A e \in inserted : e.value >= Letters =>
           /\ e.key \div Letters < e.value
           /\ s[e.value] = Append(s[e.key \div Letters], e.key % Letters)
  BY DEF OldStrings
<1>2. ASSUME NEW c \in D, ~(c < Letters)
      PROVE  prefix(c) \in D /\ prefix(c) < c /\ s[c] = Append(s[prefix(c)], char(c))
  <2>1. c \in Letters..(next_code - 1) /\ c >= Letters
    BY <1>0, <1>2
  <2>2. entry(c) \in inserted /\ entry(c).value = c
    BY <1>1, <2>1
  <2> DEFINE e == entry(c)
  <2> HIDE DEF entry
  <2>3. e.key \div Letters < c /\ s[c] = Append(s[e.key \div Letters], e.key % Letters)
    BY <1>1, <2>1, <2>2
  <2>4. e.key \div Letters \in Nat
    <3>1. e.key \in KeyRange
      BY <2>2 DEF OldEntry
    <3>2. KeyRange \subseteq Nat
      BY OldConstants DEF KeyRange
    <3> QED
      BY <1>0, <3>1, <3>2, Quotient
  <2> QED
    BY <2>3, <2>4
<1> HIDE DEF prefix, char
<1>3. s = body(s)
  <2>1. \A c \in D : s[c] = IF c < Letters THEN <<c>> ELSE Append(s[prefix(c)], char(c))
    BY <1>1, <1>2
  <2> QED
    BY <1>1, <2>1
<1>8. Letter \cup {e.value : e \in inserted} = D
  <2>1. Letter \subseteq D
    BY <1>0 DEF Letter
  <2>2. \A e \in inserted : e.value \in D
    BY <1>0, <1>9
  <2>3. \A c \in D : c \in Letter \/ \E e \in inserted : e.value = c
    BY <1>0, <1>1 DEF Letter
  <2> HIDE DEF D
  <2> QED
    BY <2>1, <2>2, <2>3
<1>4. OldString = body(OldString)
  <2> DEFINE D2 == Letter \cup {e.value : e \in inserted}
             body2(f) == [c \in D2 |-> IF c < Letters THEN <<c>>
                                       ELSE Append(f[prefix(c)], char(c))]
  <2>1. OldString = CHOOSE f : f = body2(f)
    BY DEF OldString, prefix, char
  <2>2. D2 = D
    BY <1>8
  <2>3. OldString = CHOOSE f : f = body(f)
    <3> HIDE DEF D2, D
    <3> QED
      BY <2>1, <2>2
  <2> HIDE DEF body
  <2> QED
    BY <1>3, <2>3
<1>5. \A c \in D : OldString[c] = IF c < Letters THEN <<c>>
                                  ELSE Append(OldString[prefix(c)], char(c))
  BY <1>4
<1> DEFINE T == {c \in D : OldString[c] # s[c]}
<1>6. T \subseteq Nat
  OBVIOUS
<1>7. T = {}
  <2> SUFFICES ASSUME T # {} PROVE FALSE
    OBVIOUS
  <2>1. PICK c \in T : \A y \in T : c <= y
    <3> HIDE DEF T
    <3> QED
      BY <1>6, LeastNatural
  <2>2. c \in D /\ OldString[c] # s[c]
    BY <2>1
  <2>3. ~(c < Letters)
    BY <1>1, <1>5, <2>2
  <2>4. PICK b \in D : b = prefix(c) /\ b < c
    BY <1>2, <2>2, <2>3
  <2>5. OldString[b] = s[b]
    <3>1. b \notin T
      BY <2>1, <2>4
    <3> QED
      BY <2>4, <3>1
  <2>6. OldString[c] = Append(OldString[b], char(c)) /\ s[c] = Append(s[b], char(c))
    BY <1>2, <1>5, <2>2, <2>3, <2>4
  <2> QED
    BY <2>2, <2>5, <2>6
<1> QED
  BY <1>7

(* One after the other, the strings of the codes are the text.              *)
LEMMA TextIsStrings ==
  ASSUME NEW s, NEW size \in Nat, NEW codes, NEW at, NEW text \in Seq(Letter),
         Len(codes) \in Nat, Len(codes) > 0, DOMAIN codes = 1..Len(codes),
         OldCovers(s, size, codes, at, text)
  PROVE  FlattenSeq([j \in DOMAIN codes |-> s[codes[j]]]) = text
<1> DEFINE N == Len(codes)
           parts == [j \in 1..N |-> s[codes[j]]]
           body(f) == [j \in 1..N |-> IF j = 1 THEN parts[j] ELSE f[j - 1] \o parts[j]]
           upTo == [j \in 1..N |-> SubSeq(text, 1, at[j + 1])]
           flat == CHOOSE f : f = body(f)
<1>1. PICK n \in Nat : n = Len(text)
  OBVIOUS
<1>2. /\ at \in [1..(N + 1) -> 0..n] /\ at[1] = 0 /\ at[N + 1] = n
      /\ \A k \in 1..N : at[k] < at[k + 1] /\ s[codes[k]] = SubSeq(text, at[k] + 1, at[k + 1])
  BY <1>1 DEF OldCovers
<1> HIDE DEF N
<1>2a. N \in Nat /\ N > 0
  BY DEF N
<1>3. \A j \in 1..N : parts[j] = s[codes[j]] /\ upTo[j] = SubSeq(text, 1, at[j + 1])
  OBVIOUS
<1> HIDE DEF parts, upTo
<1>4. ASSUME NEW j \in 1..N
      PROVE  upTo[j] = IF j = 1 THEN parts[j] ELSE upTo[j - 1] \o parts[j]
  <2>1. j \in 1..(N + 1) /\ j + 1 \in 1..(N + 1)
    BY <1>2a
  <2>2. PICK a \in 0..n, b \in 0..n : a = at[j] /\ b = at[j + 1] /\ a < b
    BY <1>2, <2>1
  <2>3. parts[j] = SubSeq(text, a + 1, b) /\ upTo[j] = SubSeq(text, 1, b)
    BY <1>2, <1>3, <2>2
  <2>4. CASE j = 1
    <3>1. a = 0 /\ a + 1 = 1
      BY <1>2, <2>2, <2>4
    <3> QED
      BY <2>3, <2>4, <3>1
  <2>5. CASE j # 1
    <3>1. PICK m \in 1..N : m = j - 1 /\ m + 1 = j
      BY <1>2a, <2>5
    <3>2. upTo[m] = SubSeq(text, 1, a)
      BY <1>3, <2>2, <3>1
    <3>3. SubSeq(text, 1, a) \o SubSeq(text, a + 1, b) = SubSeq(text, 1, b)
      <4> a \in 0..Len(text) /\ b \in a..Len(text)
        BY <1>1, <2>2
      <4> QED
        BY Pieces
    <3> QED
      BY <2>3, <2>5, <3>1, <3>2, <3>3
  <2> QED
    BY <2>4, <2>5
<1>5. upTo = body(upTo)
  <2>1. upTo = [j \in 1..N |-> upTo[j]]
    BY DEF upTo
  <2> QED
    BY <1>4, <2>1
<1>6. flat = body(flat)
  <2> HIDE DEF body
  <2> QED
    BY <1>5
<1>7. FlattenSeq(parts) = flat[N]
  <2>1. Len(parts) = N
    BY <1>2a DEF parts
  <2>2. Len(parts) # 0
    BY <1>2a, <2>1
  <2> HIDE DEF parts
  <2> QED
    BY <2>1, <2>2 DEF FlattenSeq
<1> HIDE DEF flat
<1>8. \A j \in 1..N : flat[j] = IF j = 1 THEN parts[j] ELSE flat[j - 1] \o parts[j]
  BY <1>6
<1> HIDE DEF body
<1> DEFINE T == {j \in 0..N : j > 0 => flat[j] = upTo[j]}
<1>9. 0 \in T
  BY <1>2a
<1>10. ASSUME NEW j \in 0..(N - 1), j \in T
       PROVE  j + 1 \in T
  <2>1. PICK m \in 1..N : m = j + 1 /\ m - 1 = j
    BY <1>2a
  <2>2. flat[m] = upTo[m]
    <3>1. CASE m = 1
      <4>1. flat[m] = parts[m]
        BY <1>8, <3>1
      <4>2. upTo[m] = parts[m]
        BY <1>4, <3>1
      <4> QED
        BY <4>1, <4>2
    <3>2. CASE m # 1
      <4>1. flat[j] = upTo[j]
        BY <1>10, <2>1, <3>2
      <4>2. flat[m] = flat[j] \o parts[m]
        BY <1>8, <2>1, <3>2
      <4>3. upTo[m] = upTo[j] \o parts[m]
        BY <1>4, <2>1, <3>2
      <4> QED
        BY <4>1, <4>2, <4>3
    <3> QED
      BY <3>1, <3>2
  <2> QED
    BY <2>1, <2>2
<1>11. flat[N] = upTo[N]
  <2>1. 0..N \subseteq T
    <3> HIDE DEF T
    <3> QED
      BY <1>2a, <1>9, <1>10, InductiveInterval
  <2> QED
    BY <1>2a, <2>1
<1>12. upTo[N] = text
  <2>1. upTo[N] = SubSeq(text, 1, n)
    BY <1>2, <1>2a, <1>3
  <2> QED
    BY <1>1, <2>1, SubSeqFull
<1> QED
  BY <1>7, <1>11, <1>12 DEF parts, N

(* The string that the decoder adds between code k and code m, the next, is *)
(* that of c, the encoder's next code at that point.                        *)
AddsString(s, size, codes, k, m, c) ==
    /\ c \in 0..(size - 1) /\ codes[m] \in 0..c
    /\ s[c] = s[codes[k]] \o SubSeq(s[codes[m]], 1, 1)
    /\ codes[m] = c => s[codes[m]] = s[codes[k]] \o SubSeq(s[codes[k]], 1, 1)

LEMMA OldNextString ==
  ASSUME NEW s, NEW history, NEW size \in Nat, NEW codes, NEW at, NEW text \in Seq(Letter),
         Len(codes) \in Nat, OldParse(s, at, history, size, codes, text, TRUE),
         NEW k \in 1..Len(codes), k < Len(codes), NEW m, m = k + 1, NEW c, c = Letters + k - 1
  PROVE  AddsString(s, size, codes, k, m, c)
<1> DEFINE N == Len(codes)
           u == s[codes[k]]
           v == s[codes[m]]
<1>0. Letters \in Nat /\ Letters > 0
  BY OldConstants
<1>1. /\ s \in [0..(size - 1) -> Seq(Letter)]
      /\ \A d \in 0..(size - 1) : Len(s[d]) > 0
      /\ \A j \in 1..N : codes[j] \in 0..(size - 1)
      /\ size = Letters + N - 1
      /\ \A j \in 1..N : codes[j] < Letters + j - 1
      /\ \A j \in 1..(N - 1) : s[Letters + j - 1] = Append(s[codes[j]], s[codes[j + 1]][1])
  BY DEF OldParse, OldStrings, OldCovers, OldFollows
<1>2. k \in 1..(N - 1) /\ m \in 1..N /\ N \in Nat
  OBVIOUS
<1>3. c \in 0..(size - 1) /\ codes[m] \in 0..c
  <2>1. codes[m] \in 0..(size - 1) /\ codes[m] < Letters + m - 1
    BY <1>1, <1>2
  <2> HIDE DEF N
  <2> QED
    BY <1>0, <1>1, <1>2, <2>1
<1>4. /\ u \in Seq(Letter) /\ Len(u) > 0 /\ v \in Seq(Letter) /\ Len(v) > 0
      /\ s[c] = Append(u, v[1])
  BY <1>1, <1>2
<1> HIDE DEF u, v
<1>5. /\ SubSeq(u, 1, 1) = <<u[1]>> /\ SubSeq(v, 1, 1) = <<v[1]>>
      /\ u[1] \in Letter /\ v[1] \in Letter
  <2> 1 \in 1..Len(u) /\ 1 \in 1..Len(v)
    BY <1>4
  <2> QED
    BY <1>4, OnePiece
<1>6. s[c] = u \o SubSeq(v, 1, 1) /\ Append(u, v[1])[1] = u[1]
  <2>1. Append(u, v[1]) = u \o <<v[1]>>
    BY <1>4, <1>5, Appended
  <2>2. 1 \in 1..Len(u)
    BY <1>4
  <2>3. Append(u, v[1])[1] = u[1]
    BY <1>4, <1>5, <2>2, Appended
  <2> QED
    BY <1>4, <1>5, <2>1, <2>3
<1>7. ASSUME codes[m] = c
      PROVE  v = u \o SubSeq(u, 1, 1)
  <2>1. v = s[c]
    BY <1>7 DEF v
  <2>2. v[1] = u[1]
    BY <1>4, <1>6, <2>1
  <2> QED
    BY <1>5, <1>6, <2>1, <2>2
<1> QED
  BY <1>3, <1>6, <1>7 DEF AddsString, u, v

(* The decoder follows the parse.                                           *)
LEMMA OldDecodes ==
  ASSUME NEW s, NEW at, NEW N \in Nat, N > 0, Len(OldCodes) = N, DOMAIN OldCodes = 1..N,
         next_code \in Nat, kept \in Seq(Letter),
         OldParse(s, at, inserted, next_code, OldCodes, kept, TRUE)
  PROVE  OldDecoder[N].output = kept
<1> DEFINE codes == OldCodes
           first(w) == SubSeq(w, 1, 1)
           start == <<codes[1]>>
           entry(d, c) == IF c < Len(d.strings) THEN d.strings[c + 1] ELSE d.old \o first(d.old)
           begin == [strings |-> [c \in 1..Letters |-> <<c - 1>>], old |-> start, output |-> start]
           next(d, c) == [strings |-> Append(d.strings, d.old \o first(entry(d, c))),
                          old |-> entry(d, c), output |-> d.output \o entry(d, c)]
           body(f) == [j \in 1..N |-> IF j = 1 THEN begin ELSE next(f[j - 1], codes[j])]
           table(j) == [c \in 1..(Letters + j - 1) |-> s[c - 1]]
           D(j) == [strings |-> table(j), old |-> s[codes[j]], output |-> SubSeq(kept, 1, at[j + 1])]
           g == [j \in 1..N |-> D(j)]
<1>0. Letters \in Nat /\ Letters > 0
  BY OldConstants
<1>1. PICK n \in Nat : n = Len(kept)
  OBVIOUS
<1>2. /\ s \in [0..(next_code - 1) -> Seq(Letter)]
      /\ \A c \in 0..(next_code - 1) : c < Letters => s[c] = <<c>>
      /\ next_code = Letters + N - 1
      /\ \A k \in 1..N : codes[k] < Letters + k - 1 /\ codes[k] \in 0..(next_code - 1)
      /\ at \in [1..(N + 1) -> 0..n] /\ at[1] = 0 /\ at[N + 1] = n
      /\ \A k \in 1..N : at[k] < at[k + 1] /\ s[codes[k]] = SubSeq(kept, at[k] + 1, at[k + 1])
  BY <1>1 DEF OldParse, OldStrings, OldCovers, OldFollows
<1>3. OldDecoder = CHOOSE f : f = body(f)
  BY DEF OldDecoder
<1> HIDE DEF codes
<1>4. ASSUME NEW j \in 1..N
      PROVE  /\ table(j) \in Seq(Seq(Letter)) /\ Len(table(j)) = Letters + j - 1
             /\ \A c \in 0..(Letters + j - 2) :
                  c \in 0..(next_code - 1) /\ c + 1 \in 1..(Letters + j - 1) /\ table(j)[c + 1] = s[c]
  <2>1. PICK L \in Nat : L = Letters + j - 1 /\ L <= next_code
    BY <1>0, <1>2
  <2> DEFINE t == [c \in 1..L |-> s[c - 1]]
  <2>2. \A c \in 1..L : s[c - 1] \in Seq(Letter)
    <3> SUFFICES ASSUME NEW c \in 1..L PROVE s[c - 1] \in Seq(Letter)
      OBVIOUS
    <3>1. PICK b \in 0..(next_code - 1) : b = c - 1
      BY <1>2, <2>1
    <3> QED
      BY <1>2, <3>1
  <2>3. t \in Seq(Seq(Letter)) /\ Len(t) = L
    BY <2>2
  <2>4. \A c \in 0..(L - 1) : c \in 0..(next_code - 1) /\ c + 1 \in 1..L /\ t[c + 1] = s[c]
    <3> SUFFICES ASSUME NEW c \in 0..(L - 1)
                 PROVE  c \in 0..(next_code - 1) /\ c + 1 \in 1..L /\ t[c + 1] = s[c]
      OBVIOUS
    <3>1. PICK b \in 1..L : b = c + 1 /\ b - 1 = c
      BY <2>1
    <3>2. t[b] = s[c]
      BY <3>1
    <3> QED
      BY <1>2, <2>1, <3>1, <3>2
  <2>5. L - 1 = Letters + j - 2
    BY <1>0, <2>1
  <2> QED
    BY <2>1, <2>3, <2>4, <2>5
<1>5. D(1) = begin
  <2>1. codes[1] \in 0..(next_code - 1) /\ codes[1] < Letters /\ 1 \in 1..N
    <3>1. PICK k \in 1..N : k = 1
      OBVIOUS
    <3>2. codes[k] < Letters + k - 1 /\ codes[k] \in 0..(next_code - 1)
      BY <1>2
    <3> QED
      BY <1>0, <3>1, <3>2
  <2>2. s[codes[1]] = <<codes[1]>>
    BY <1>2, <2>1
  <2>3. table(1) = [c \in 1..Letters |-> <<c - 1>>]
    <3>1. Letters + 1 - 1 = Letters
      BY <1>0
    <3>2. \A c \in 1..Letters : s[c - 1] = <<c - 1>>
      <4> SUFFICES ASSUME NEW c \in 1..Letters PROVE s[c - 1] = <<c - 1>>
        OBVIOUS
      <4>1. PICK b \in 0..(next_code - 1) : b = c - 1 /\ b < Letters
        BY <1>0, <1>2
      <4> QED
        BY <1>2, <4>1
    <3> QED
      BY <3>1, <3>2
  <2>4. SubSeq(kept, 1, at[1 + 1]) = <<codes[1]>>
    <3>1. PICK a \in 0..n, b \in 0..n : a = at[1] /\ a = 0 /\ a + 1 = 1 /\ b = at[1 + 1]
      <4>1. PICK k \in 1..(N + 1) : k = 1 + 1
        OBVIOUS
      <4>2. at[k] \in 0..n
        BY <1>2
      <4>3. at[1] = 0 /\ 0 \in 0..n
        BY <1>2
      <4> QED
        BY <4>1, <4>2, <4>3
    <3>2. s[codes[1]] = SubSeq(kept, a + 1, b)
      BY <1>2, <2>1, <3>1
    <3> QED
      BY <2>2, <3>1, <3>2
  <2> HIDE DEF table
  <2> QED
    BY <2>2, <2>3, <2>4
<1>6. ASSUME NEW j \in 1..N, j # 1, NEW p \in 1..N, p = j - 1
      PROVE  D(j) = next(D(p), codes[j])
  <2> DEFINE d == D(p)
             c == Letters + p - 1
             u == s[codes[p]]
             v == s[codes[j]]
  <2>0. c \in Nat /\ c = Letters + j - 2 /\ c + 1 = Letters + j - 1 /\ j = p + 1 /\ p < N
    BY <1>0, <1>6
  <2>1. /\ c \in 0..(next_code - 1) /\ codes[j] \in 0..c
        /\ s[c] = u \o first(v)
        /\ codes[j] = c => v = u \o first(u)
    <3>1. OldParse(s, at, inserted, next_code, codes, kept, TRUE) /\ Len(codes) = N
      BY DEF codes
    <3> HIDE DEF codes
    <3>2. p \in 1..Len(codes) /\ p < Len(codes) /\ Len(codes) \in Nat
      BY <2>0, <3>1
    <3>3. PICK b : b = Letters + p - 1
      OBVIOUS
    <3>4. /\ b \in 0..(next_code - 1) /\ codes[j] \in 0..b
          /\ s[b] = s[codes[p]] \o SubSeq(s[codes[j]], 1, 1)
          /\ codes[j] = b => s[codes[j]] = s[codes[p]] \o SubSeq(s[codes[p]], 1, 1)
      <4>1. j = p + 1
        BY <2>0
      <4> DEFINE size == next_code
                 text == kept
                 history == inserted
      <4>2. size \in Nat /\ text \in Seq(Letter) /\ OldParse(s, at, history, size, codes, text, TRUE)
        BY <3>1
      <4> HIDE DEF size, text, history
      <4>3. AddsString(s, size, codes, p, j, b)
        BY <3>2, <3>3, <4>1, <4>2, OldNextString
      <4> QED
        BY <4>3 DEF size, AddsString
    <3> QED
      BY <3>3, <3>4
  <2>2. d.strings = table(p) /\ d.old = u /\ d.output = SubSeq(kept, 1, at[p + 1])
    OBVIOUS
  <2>3. Len(table(p)) = c /\ table(p) \in Seq(Seq(Letter))
    BY <1>4
  <2>4. entry(d, codes[j]) = v
    <3>1. CASE codes[j] < c
      <4>1. codes[j] \in 0..(Letters + p - 2)
        BY <1>0, <2>0, <2>1, <3>1
      <4>2. table(p)[codes[j] + 1] = v
        BY <1>4, <4>1
      <4> HIDE DEF table, d, c, v
      <4> QED
        BY <2>2, <2>3, <3>1, <4>2
    <3>2. CASE ~(codes[j] < c)
      <4>1. codes[j] = c
        BY <2>0, <2>1, <3>2
      <4> HIDE DEF table, d, c, v, u
      <4> QED
        BY <2>1, <2>2, <2>3, <3>2, <4>1
    <3> QED
      BY <3>1, <3>2
  <2>5. Append(table(p), u \o first(v)) = table(j)
    <3> DEFINE t == Append(table(p), s[c])
    <3>1. s[c] \in Seq(Letter)
      BY <1>2, <2>1
    <3>2. /\ t \in Seq(Seq(Letter)) /\ Len(t) = c + 1 /\ t[c + 1] = s[c]
          /\ \A b \in 1..c : t[b] = table(p)[b]
      <4> HIDE DEF table, c
      <4> QED
        BY <2>3, <3>1, Appended
    <3>3. table(j) \in Seq(Seq(Letter)) /\ Len(table(j)) = c + 1
      BY <1>4, <2>0
    <3>4. ASSUME NEW b \in 1..(c + 1)
          PROVE  t[b] = table(j)[b]
      <4>1. PICK a \in 0..(Letters + j - 2) : a = b - 1 /\ a + 1 = b
        BY <2>0
      <4>2. table(j)[b] = s[a]
        BY <1>4, <4>1
      <4>3. CASE b = c + 1
        <5> a = c
          BY <2>0, <4>1, <4>3
        <5> HIDE DEF table, t
        <5> QED
          BY <3>2, <4>2, <4>3
      <4>4. CASE b # c + 1
        <5>1. a \in 0..(Letters + p - 2) /\ b \in 1..c
          BY <1>0, <2>0, <4>1, <4>4
        <5>2. table(p)[b] = s[a]
          BY <1>4, <4>1, <5>1
        <5> HIDE DEF table, t
        <5> QED
          BY <3>2, <4>2, <5>1, <5>2
      <4> QED
        BY <4>3, <4>4
    <3> HIDE DEF table, t
    <3>5. t = table(j)
      BY <3>2, <3>3, <3>4, SeqEqual
    <3> QED
      BY <2>1, <3>5 DEF t
  <2>6. SubSeq(kept, 1, at[p + 1]) \o v = SubSeq(kept, 1, at[j + 1])
    <3>1. j \in 1..(N + 1) /\ j + 1 \in 1..(N + 1)
      OBVIOUS
    <3>2. PICK a \in 0..n, b \in 0..n : a = at[j] /\ b = at[j + 1] /\ a < b
      BY <1>2, <3>1
    <3>3. v = SubSeq(kept, a + 1, b)
      BY <1>2, <3>2
    <3>4. SubSeq(kept, 1, a) \o SubSeq(kept, a + 1, b) = SubSeq(kept, 1, b)
      <4> a \in 0..Len(kept) /\ b \in a..Len(kept)
        BY <1>1, <3>2
      <4> QED
        BY Pieces
    <3> QED
      BY <2>0, <3>2, <3>3, <3>4
  <2>7. next(d, codes[j]) = [strings |-> table(j), old |-> v, output |-> SubSeq(kept, 1, at[j + 1])]
    <3> HIDE DEF table, d, entry, u, v, first
    <3> QED
      BY <2>2, <2>4, <2>5, <2>6
  <2> QED
    BY <2>7
<1> HIDE DEF D, begin, next
<1>7. \A j \in 1..N : g[j] = D(j)
  OBVIOUS
<1>8. g = body(g)
  <2>1. ASSUME NEW j \in 1..N
        PROVE  D(j) = IF j = 1 THEN begin ELSE next(g[j - 1], codes[j])
    <3>1. CASE j = 1
      BY <1>5, <3>1
    <3>2. CASE j # 1
      <4>1. PICK p \in 1..N : p = j - 1
        BY <3>2
      <4> QED
        BY <1>6, <1>7, <3>2, <4>1
    <3> QED
      BY <3>1, <3>2
  <2> QED
    BY <2>1
<1> HIDE DEF g
<1>9. OldDecoder = body(OldDecoder)
  <2> HIDE DEF body
  <2> QED
    BY <1>3, <1>8
<1>10. \A j \in 1..N : OldDecoder[j] = IF j = 1 THEN begin ELSE next(OldDecoder[j - 1], codes[j])
  BY <1>9
<1>11. \A j \in 1..N : g[j] = IF j = 1 THEN begin ELSE next(g[j - 1], codes[j])
  BY <1>8
<1> HIDE DEF body
<1> DEFINE T == {j \in 0..N : j > 0 => OldDecoder[j] = g[j]}
<1>12. 0 \in T
  OBVIOUS
<1>13. ASSUME NEW j \in 0..(N - 1), j \in T
       PROVE  j + 1 \in T
  <2>1. PICK m \in 1..N : m = j + 1 /\ m - 1 = j
    OBVIOUS
  <2>2. OldDecoder[m] = g[m]
    <3>1. CASE m = 1
      <4>1. OldDecoder[m] = begin
        BY <1>10, <3>1
      <4>2. g[m] = begin
        BY <1>11, <3>1
      <4> QED
        BY <4>1, <4>2
    <3>2. CASE m # 1
      <4>1. OldDecoder[j] = g[j]
        BY <1>13, <2>1, <3>2
      <4>2. OldDecoder[m] = next(OldDecoder[j], codes[m])
        BY <1>10, <2>1, <3>2
      <4>3. g[m] = next(g[j], codes[m])
        BY <1>11, <2>1, <3>2
      <4> QED
        BY <4>1, <4>2, <4>3
    <3> QED
      BY <3>1, <3>2
  <2> QED
    BY <2>1, <2>2
<1>14. OldDecoder[N] = D(N)
  <2>1. 0..N \subseteq T
    <3> HIDE DEF T
    <3> QED
      BY <1>12, <1>13, InductiveInterval
  <2> QED
    BY <1>7, <2>1
<1>15. D(N).output = kept
  <2>1. D(N).output = SubSeq(kept, 1, at[N + 1])
    BY DEF D
  <2> QED
    BY <1>1, <1>2, <2>1, SubSeqFull
<1> QED
  BY <1>14, <1>15

-----------------------------------------------------------------------------
(* The invariant *)

LEMMA InitOld == OldInit => OldInv
<1> SUFFICES ASSUME OldInit
             PROVE  OldInv
  OBVIOUS
<1>0. Letters \in Nat /\ MaxInput \in Nat
  BY OldConstants
<1>1. Stored(hash_table, assoc_mem, inserted) /\ KeysApart(inserted)
  BY DEF OldInit, Stored, KeysApart
<1>2. << >> \in Seq(Letter) /\ << >> \in Seq(Nat) /\ Len(<< >>) = 0
  BY EmptySeq
<1>3. /\ old_data = << >> /\ output_codes = << >> /\ kept = << >> /\ next_code = Letters
      /\ refused = FALSE
  BY DEF OldInit
<1>4. /\ old_data \in Seq(Letter) /\ Len(old_data) <= MaxInput
      /\ output_codes \in Seq(Nat) /\ kept \in Seq(Letter)
  BY <1>0, <1>2, <1>3
<1>5. next_code \in Nat /\ refused \in BOOLEAN /\ ~refused
  BY <1>0, <1>3
<1> QED
  BY <1>1, <1>3, <1>4, <1>5 DEF OldInv

(* While the encoder reads, the last code is the one of its prefix, and the *)
(* key that it looks up is a key.                                           *)
LEMMA OldReads ==
  ASSUME OldInv, old_data # << >>, old_at <= Len(old_data)
  PROVE  /\ prefix_code \in Nat /\ prefix_code \in 0..(next_code - 1) /\ prefix_code # None
         /\ OldCodes = Append(output_codes, prefix_code)
         /\ OldCodes \in Seq(Nat) /\ Len(OldCodes) = Len(output_codes) + 1
         /\ Len(output_codes) \in Nat
         /\ OldCodes[Len(OldCodes)] = prefix_code
         /\ \A k \in 1..Len(output_codes) : OldCodes[k] = output_codes[k]
         /\ old_at < Len(old_data) => next_letter \in Letter /\ key \in KeyRange
<1>0. Letters \in Nat /\ MaxInput \in Nat
  BY OldConstants
<1>1. /\ old_data \in Seq(Letter) /\ Len(old_data) <= MaxInput /\ Len(old_data) \in Nat
      /\ old_at \in 1..(Len(old_data) + 1)
      /\ next_code \in Nat /\ next_code < Letters + old_at
      /\ prefix_code \in 0..(next_code - 1) /\ output_codes \in Seq(Nat)
  BY DEF OldInv, OldCoding
<1>2. prefix_code \in Nat /\ prefix_code # None
  BY <1>1, InvalidIs
<1>3. OldCodes = Append(output_codes, prefix_code)
  BY <1>2 DEF OldCodes
<1>4. /\ OldCodes \in Seq(Nat) /\ Len(OldCodes) = Len(output_codes) + 1
      /\ Len(output_codes) \in Nat
      /\ OldCodes[Len(output_codes) + 1] = prefix_code
      /\ \A k \in 1..Len(output_codes) : OldCodes[k] = output_codes[k]
  BY <1>1, <1>2, <1>3, Appended
<1>5. ASSUME old_at < Len(old_data)
      PROVE  next_letter \in Letter /\ key \in KeyRange
  <2>1. next_letter \in Letter
    <3> old_at + 1 \in 1..Len(old_data)
      BY <1>1, <1>5
    <3> QED
      BY <1>1, ElementOfSeq DEF next_letter
  <2>2. prefix_code < Letters + MaxInput
    BY <1>0, <1>1, <1>5
  <2> QED
    BY <1>2, <2>1, <2>2, KeyIs DEF key
<1> QED
  BY <1>1, <1>2, <1>3, <1>4, <1>5

LEMMA OldCallKeeps ==
  ASSUME OldInv, OldCall
  PROVE  OldInv'
<1>0. Letters \in Nat /\ Letters > 0 /\ MaxInput \in Nat
  BY OldConstants
<1>1. next_code = Letters /\ output_codes = << >> /\ ~refused /\ refused \in BOOLEAN
  BY DEF OldInv, OldCall
<1>2. PICK n \in 1..MaxInput : old_data' \in [1..n -> Letter]
  BY DEF OldCall
<1>3. /\ old_data' \in Seq(Letter) /\ Len(old_data') = n /\ old_data' # << >>
      /\ old_data'[1] \in Letter
  <2>1. old_data' \in Seq(Letter) /\ Len(old_data') = n /\ n \in Nat /\ 1 \in 1..n
    BY <1>0, <1>2
  <2>2. Len(<< >>) = 0
    OBVIOUS
  <2> QED
    BY <1>2, <2>1, <2>2
<1>4. PICK x \in Letter : x = old_data'[1]
  BY <1>3
<1>5. /\ prefix_code' = x /\ old_at' = 1 /\ kept' = <<x>>
      /\ next_code' = Letters /\ output_codes' = << >> /\ refused' = refused
  BY <1>1, <1>4 DEF OldCall
<1>6. x \in Nat /\ x \in 0..(Letters - 1) /\ x # None
  BY <1>0, InvalidIs DEF Letter
<1>7. /\ hash_table' = Initialized.table /\ assoc_mem' = Initialized.mem
      /\ inserted' = Initialized.inserted
  BY DEF OldCall, Take
<1>8. /\ Stored(hash_table', assoc_mem', inserted')
      /\ \A e \in inserted' : e.value \in 0..(Letters - 1) /\ e.key = Key(e.value, 0)
  BY <1>7, InitializedIs
<1>13. KeysApart(inserted')
  <2>1. \A c \in 0..(Letters - 1) : Key(c, 0) \div Letters = c
    BY <1>0, KeyIs DEF Letter
  <2>2. inserted' \subseteq OldEntry
    BY <1>8 DEF Stored
  <2>3. ASSUME NEW e \in inserted', NEW f \in inserted', e.key = f.key
        PROVE  e = f
    <3>1. e.value = f.value
      BY <1>8, <2>1, <2>3
    <3> QED
      BY <2>2, <2>3, <3>1 DEF OldEntry
  <2> QED
    BY <2>3 DEF KeysApart
<1>9. Len(OldCodes') = 1 /\ OldCodes'[1] = x
  <2>1. OldCodes' = Append(<< >>, x)
    BY <1>5, <1>6 DEF OldCodes
  <2> QED
    BY <2>1
<1>10. \E s, at : OldParse(s, at, inserted', next_code', OldCodes', kept', ~refused')
  <2> DEFINE codes == OldCodes'
             history == inserted'
  <2>1. Len(codes) = 1 /\ codes[1] = x
    BY <1>9
  <2>2. \A e \in history : e.value \in 0..(Letters - 1) /\ e.key = Key(e.value, 0)
    BY <1>8
  <2> HIDE DEF codes, history
  <2>3. PICK s, at : OldParse(s, at, history, Letters, codes, <<x>>, TRUE)
    BY <2>1, <2>2, OldParseFirst
  <2> QED
    BY <1>5, <2>3 DEF OldParse, codes, history
<1>11. OldCoding'
  <2>1. old_at' \in 1..(Len(old_data') + 1) /\ old_at' <= Len(old_data')
    BY <1>2, <1>3, <1>5
  <2>2. next_code' >= Letters /\ next_code' < Letters + old_at'
    BY <1>0, <1>5
  <2>3. prefix_code' \in 0..(next_code' - 1) /\ Len(OldCodes') > 0
    BY <1>5, <1>6, <1>9
  <2> QED
    BY <1>10, <2>1, <2>2, <2>3 DEF OldCoding
<1>12. output_codes' \in Seq(Nat) /\ kept' \in Seq(Letter) /\ Len(old_data') <= MaxInput
  BY <1>2, <1>3, <1>5
<1> QED
  BY <1>0, <1>1, <1>3, <1>5, <1>8, <1>11, <1>12, <1>13 DEF OldInv

LEMMA OldLengthenKeeps ==
  ASSUME OldInv, OldLengthen
  PROVE  OldInv'
<1>1. old_data # << >> /\ old_at < Len(old_data)
  BY DEF OldLengthen, OldReading
<1>2. /\ old_data \in Seq(Letter) /\ Len(old_data) <= MaxInput /\ Len(old_data) \in Nat
      /\ old_at \in 1..(Len(old_data) + 1)
      /\ output_codes \in Seq(Nat) /\ kept \in Seq(Letter) /\ refused \in BOOLEAN
      /\ next_code \in Nat /\ next_code >= Letters /\ next_code < Letters + old_at
      /\ Stored(hash_table, assoc_mem, inserted) /\ KeysApart(inserted)
  BY <1>1 DEF OldInv, OldCoding
<1>3. /\ prefix_code \in Nat /\ prefix_code \in 0..(next_code - 1)
      /\ OldCodes = Append(output_codes, prefix_code) /\ OldCodes \in Seq(Nat)
      /\ Len(OldCodes) = Len(output_codes) + 1 /\ Len(output_codes) \in Nat
      /\ OldCodes[Len(OldCodes)] = prefix_code
      /\ \A k \in 1..Len(output_codes) : OldCodes[k] = output_codes[k]
      /\ next_letter \in Letter /\ key \in KeyRange
  BY <1>1, <1>2, OldReads
<1>4. /\ code # None /\ prefix_code' = code /\ old_at' = old_at + 1
      /\ kept' = IF code < Letters THEN kept ELSE Append(kept, next_letter)
      /\ old_data' = old_data /\ hash_table' = hash_table /\ assoc_mem' = assoc_mem
      /\ next_code' = next_code /\ output_codes' = output_codes /\ inserted' = inserted
      /\ refused' = refused
  BY DEF OldLengthen
<1>5. PICK s, at : OldParse(s, at, inserted, next_code, OldCodes, kept, ~refused)
  BY <1>1 DEF OldInv, OldCoding
<1>6. code \in Nat /\ [key |-> key, value |-> code] \in inserted
  BY <1>2, <1>3, <1>4, LookupFinds DEF code
<1>7. PICK e \in inserted : e.key = Key(prefix_code, next_letter) /\ e.value = code
  BY <1>6 DEF key
<1>8. /\ e.value < Letters => e.key = Key(e.value, 0)
      /\ e.value >= Letters =>
           /\ e.value < next_code
           /\ s[e.value] = Append(s[e.key \div Letters], e.key % Letters)
  BY <1>5 DEF OldParse, OldStrings
<1>9. /\ Letters \in Nat /\ 0 \in Letter
      /\ Key(prefix_code, next_letter) \div Letters = prefix_code
      /\ Key(prefix_code, next_letter) % Letters = next_letter
  <2>1. Letters \in Nat /\ 0 \in Letter
    BY OldConstants DEF Letter
  <2> QED
    BY <1>3, <2>1, KeyIs
<1>10. CASE code < Letters
  <2>1. Key(code, 0) \div Letters = code
    BY <1>6, <1>9, KeyIs
  <2>2. code = prefix_code
    BY <1>7, <1>8, <1>9, <1>10, <2>1
  <2>3. prefix_code' = prefix_code /\ kept' = kept
    BY <1>4, <1>10, <2>2
  <2>4. OldCodes' = OldCodes
    BY <1>4, <2>3 DEF OldCodes
  <2>5. OldCoding'
    <3>1. old_at' \in 1..(Len(old_data') + 1) /\ old_at' <= Len(old_data')
      BY <1>1, <1>2, <1>4
    <3>2. next_code' >= Letters /\ next_code' < Letters + old_at'
      BY <1>2, <1>4, <1>9
    <3>3. prefix_code' \in 0..(next_code' - 1) /\ Len(OldCodes') > 0
      BY <1>3, <1>4, <2>3, <2>4
    <3>4. \E s2, at2 : OldParse(s2, at2, inserted', next_code', OldCodes', kept', ~refused')
      BY <1>4, <1>5, <2>3, <2>4
    <3> QED
      BY <3>1, <3>2, <3>3, <3>4 DEF OldCoding
  <2> QED
    BY <1>1, <1>2, <1>4, <2>3, <2>5 DEF OldInv
<1>11. CASE ~(code < Letters)
  <2>0. code >= Letters
    BY <1>6, <1>9, <1>11
  <2>1. code \in 0..(next_code - 1) /\ s[code] = Append(s[prefix_code], next_letter)
    BY <1>2, <1>6, <1>7, <1>8, <1>9, <2>0
  <2>2. code # None /\ OldCodes' = Append(output_codes, code)
    BY <1>4 DEF OldCodes
  <2>3. /\ OldCodes' \in Seq(Nat) /\ Len(OldCodes') = Len(output_codes) + 1
        /\ OldCodes'[Len(output_codes) + 1] = code
        /\ \A k \in 1..Len(output_codes) : OldCodes'[k] = output_codes[k]
    BY <1>2, <1>6, <2>2, Appended
  <2>4. kept' = Append(kept, next_letter)
    BY <1>4, <1>11
  <2>5. \E s2, at2 : OldParse(s2, at2, inserted', next_code', OldCodes', kept', ~refused')
    <3> DEFINE codes == OldCodes
               codes2 == OldCodes'
               N == Len(output_codes) + 1
               text == kept
               size == next_code
               history == inserted
               complete == ~refused
               x == next_letter
    <3>1. N \in Nat /\ N > 0 /\ N - 1 = Len(output_codes)
      BY <1>3
    <3>2. /\ Len(codes) = N /\ Len(codes2) = N
          /\ \A k \in 1..(N - 1) : codes2[k] = codes[k]
          /\ codes2[N] \in 0..(size - 1) /\ s[codes2[N]] = Append(s[codes[N]], x)
      BY <1>3, <2>1, <2>3, <3>1
    <3>3. /\ OldParse(s, at, history, size, codes, text, complete)
          /\ text \in Seq(Letter) /\ size \in Nat /\ x \in Letter
      BY <1>2, <1>3, <1>5
    <3> HIDE DEF codes, codes2, N, text, size, history, complete, x
    <3>4. PICK at2 : OldParse(s, at2, history, size, codes2, Append(text, x), complete)
      BY <3>1, <3>2, <3>3, OldParseLengthen
    <3> QED
      BY <1>4, <2>4, <3>4 DEF codes2, text, size, history, complete, x
  <2>6. OldCoding'
    <3>1. old_at' \in 1..(Len(old_data') + 1) /\ old_at' <= Len(old_data')
      BY <1>1, <1>2, <1>4
    <3>2. next_code' >= Letters /\ next_code' < Letters + old_at'
      BY <1>2, <1>4, <1>9
    <3>3. prefix_code' \in 0..(next_code' - 1) /\ Len(OldCodes') > 0
      BY <1>3, <1>4, <2>1, <2>3
    <3> QED
      BY <2>5, <3>1, <3>2, <3>3 DEF OldCoding
  <2>7. kept' \in Seq(Letter)
    BY <1>2, <1>3, <2>4
  <2> QED
    BY <1>1, <1>2, <1>4, <2>6, <2>7 DEF OldInv
<1> QED
  BY <1>10, <1>11

LEMMA OldEmitKeeps ==
  ASSUME OldInv, OldEmit
  PROVE  OldInv'
<1> DEFINE d == Dictionary(hash_table, assoc_mem, inserted)
           d2 == insert(d, key, next_code)
           e == [key |-> key, value |-> next_code]
           N == Len(output_codes) + 1
           x == next_letter
<1>1. old_data # << >> /\ old_at < Len(old_data)
  BY DEF OldEmit, OldReading
<1>2. /\ old_data \in Seq(Letter) /\ Len(old_data) <= MaxInput /\ Len(old_data) \in Nat
      /\ old_at \in 1..(Len(old_data) + 1)
      /\ output_codes \in Seq(Nat) /\ kept \in Seq(Letter) /\ refused \in BOOLEAN
      /\ next_code \in Nat /\ next_code >= Letters /\ next_code < Letters + old_at
      /\ Stored(hash_table, assoc_mem, inserted) /\ KeysApart(inserted)
  BY <1>1 DEF OldInv, OldCoding
<1>3. /\ prefix_code \in Nat /\ OldCodes \in Seq(Nat)
      /\ OldCodes = Append(output_codes, prefix_code)
      /\ Len(OldCodes) = N /\ Len(output_codes) \in Nat
      /\ OldCodes[N] = prefix_code
      /\ x \in Letter /\ key \in KeyRange
  BY <1>1, <1>2, OldReads
<1>4. /\ old_at' = old_at + 1 /\ old_data' = old_data
      /\ output_codes' = Append(output_codes, prefix_code)
      /\ prefix_code' = x /\ kept' = Append(kept, x)
      /\ hash_table' = d2.table /\ assoc_mem' = d2.mem /\ inserted' = d2.inserted
      /\ next_code' = Advanced(Collides(d, key))
      /\ refused' = (refused \/ Collides(d, key))
  BY DEF OldEmit, Take
<1>5. PICK s, at : OldParse(s, at, inserted, next_code, OldCodes, kept, ~refused)
  BY <1>1 DEF OldInv, OldCoding
<1>6. /\ Stored(d2.table, d2.mem, d2.inserted)
      /\ d2.inserted = IF Collides(d, key) THEN inserted ELSE inserted \cup {e}
  <2> DEFINE k == key
             v == next_code
             table == hash_table
             mem == assoc_mem
             history == inserted
  <2>1. Stored(table, mem, history) /\ d = Dictionary(table, mem, history)
    BY <1>2
  <2>2. d2 = insert(d, k, v) /\ k \in KeyRange /\ v \in Nat
    BY <1>2, <1>3
  <2> HIDE DEF d, d2, k, v, table, mem, history
  <2>3. /\ Stored(d2.table, d2.mem, d2.inserted)
        /\ d2.inserted = IF Collides(d, k) THEN history
                         ELSE history \cup {[key |-> k, value |-> v]}
    BY <2>1, <2>2, InsertStores
  <2> QED
    BY <2>3 DEF k, v, history
<1> HIDE DEF d2
<1>7. /\ x \in Nat /\ x # None /\ Letters \in Nat /\ x \in 0..(next_code - 1)
  <2>1. x \in Nat /\ Letters \in Nat /\ x < Letters
    BY <1>3, OldConstants DEF Letter
  <2>2. x # None
    BY <2>1, InvalidIs
  <2> HIDE DEF x
  <2> QED
    BY <1>2, <2>1, <2>2
<1>8. /\ OldCodes' = Append(OldCodes, x)
      /\ Len(OldCodes') = N + 1 /\ OldCodes'[N + 1] = x
      /\ \A k \in 1..N : OldCodes'[k] = OldCodes[k]
  <2>1. OldCodes' = Append(output_codes', prefix_code')
    BY <1>4, <1>7 DEF OldCodes
  <2>2. OldCodes' = Append(OldCodes, x)
    BY <1>3, <1>4, <2>1
  <2> DEFINE codes == OldCodes
  <2>3. codes \in Seq(Nat) /\ Len(codes) = N
    BY <1>3
  <2> HIDE DEF codes, x
  <2>4. /\ Len(Append(codes, x)) = Len(codes) + 1 /\ Append(codes, x)[Len(codes) + 1] = x
        /\ \A k \in 1..Len(codes) : Append(codes, x)[k] = codes[k]
    BY <1>7, <2>3, Appended
  <2> QED
    BY <2>2, <2>3, <2>4 DEF codes
<1>9. /\ next_code' \in Nat /\ next_code' >= next_code /\ next_code' <= next_code + 1
      /\ refused' \in BOOLEAN
  BY <1>2, <1>4 DEF Advanced
<1>10. \E s2, at2 : OldParse(s2, at2, inserted', next_code', OldCodes', kept', ~refused')
  <2> DEFINE codes == OldCodes
             codes2 == OldCodes'
             text == kept
             size == next_code
             history == inserted
             complete == ~refused
  <2>1. /\ N \in Nat /\ N > 0 /\ Len(codes) = N /\ Len(codes2) = N + 1
        /\ \A k \in 1..N : codes2[k] = codes[k]
        /\ codes2[N + 1] = x
    BY <1>3, <1>8
  <2>2. /\ OldParse(s, at, history, size, codes, text, complete)
        /\ text \in Seq(Letter) /\ size \in Nat /\ size >= Letters /\ x \in Letter
        /\ history \subseteq OldEntry
    BY <1>2, <1>3, <1>5 DEF Stored
  <2>3. codes[N] = prefix_code
    BY <1>3
  <2> HIDE DEF codes, codes2, text, size, history, complete, x, N
  <2>4. CASE Collides(d, key)
    <3>1. inserted' = history /\ next_code' = size /\ refused'
      BY <1>4, <1>6, <2>4 DEF Advanced, history, size
    <3>2. PICK at2 : OldParse(s, at2, history, size, codes2, Append(text, x), FALSE)
      BY <2>1, <2>2, OldParseRefused
    <3>3. OldStrings(s, inserted', next_code') /\ OldCovers(s, next_code', OldCodes', at2, kept')
      BY <1>4, <3>1, <3>2 DEF OldParse, codes2, text
    <3> QED
      BY <3>1, <3>3 DEF OldParse
  <2>5. CASE ~Collides(d, key)
    <3>1. /\ inserted' = history \cup {[key |-> Key(codes[N], x), value |-> size]}
          /\ next_code' = size + 1 /\ (refused' <=> refused)
      BY <1>4, <1>6, <2>3, <2>5 DEF Advanced, history, size, key, x
    <3>2. PICK s2, at2 :
            OldParse(s2, at2, history \cup {[key |-> Key(codes[N], x), value |-> size]},
                     size + 1, codes2, Append(text, x), complete)
      BY <2>1, <2>2, OldParseInserted
    <3>3. OldParse(s2, at2, inserted', next_code', OldCodes', kept', complete)
      BY <1>4, <3>1, <3>2 DEF codes2, text
    <3>4. OldParse(s2, at2, inserted', next_code', OldCodes', kept', ~refused')
      BY <3>1, <3>3 DEF OldParse, complete
    <3> QED
      BY <3>4
  <2> QED
    BY <2>4, <2>5
<1>11. OldCoding'
  <2>1. old_at' \in 1..(Len(old_data') + 1) /\ old_at' <= Len(old_data')
    BY <1>1, <1>2, <1>4
  <2>2. next_code' >= Letters /\ next_code' < Letters + old_at'
    BY <1>2, <1>4, <1>7, <1>9
  <2>3. prefix_code' \in 0..(next_code' - 1)
    <3> HIDE DEF x
    <3> QED
      BY <1>2, <1>4, <1>7, <1>9
  <2>4. Len(OldCodes') > 0
    BY <1>3, <1>8
  <2> QED
    BY <1>10, <2>1, <2>2, <2>3, <2>4 DEF OldCoding
<1>12. output_codes' \in Seq(Nat) /\ kept' \in Seq(Letter)
  BY <1>2, <1>3, <1>4
<1>13. Stored(hash_table', assoc_mem', inserted')
  BY <1>4, <1>6
<1>14. KeysApart(inserted')
  <2>1. code = None
    BY DEF OldEmit
  <2>2. \A f \in inserted : f.key # key
    BY <1>2, <1>3, <2>1, LookupFinds DEF code
  <2>3. e.key = key
    OBVIOUS
  <2>4. inserted' \subseteq inserted \cup {e}
    BY <1>4, <1>6
  <2> HIDE DEF e
  <2> QED
    BY <1>2, <2>2, <2>3, <2>4 DEF KeysApart
<1> QED
  BY <1>1, <1>2, <1>4, <1>9, <1>11, <1>12, <1>13, <1>14 DEF OldInv

LEMMA OldEmitLastKeeps ==
  ASSUME OldInv, OldEmitLast
  PROVE  OldInv'
<1>1. old_data # << >> /\ old_at = Len(old_data)
  BY DEF OldEmitLast
<1>2. /\ old_data \in Seq(Letter) /\ Len(old_data) <= MaxInput /\ Len(old_data) \in Nat
      /\ old_at \in 1..(Len(old_data) + 1)
      /\ output_codes \in Seq(Nat) /\ kept \in Seq(Letter) /\ refused \in BOOLEAN
      /\ next_code \in Nat /\ next_code >= Letters /\ next_code < Letters + old_at
      /\ Stored(hash_table, assoc_mem, inserted) /\ KeysApart(inserted)
      /\ Len(OldCodes) > 0
  BY <1>1 DEF OldInv, OldCoding
<1>3. prefix_code \in Nat /\ OldCodes = Append(output_codes, prefix_code)
  BY <1>1, <1>2, OldReads
<1>4. /\ old_at' = old_at + 1 /\ prefix_code' = None
      /\ output_codes' = Append(output_codes, prefix_code)
      /\ old_data' = old_data /\ hash_table' = hash_table /\ assoc_mem' = assoc_mem
      /\ next_code' = next_code /\ inserted' = inserted /\ refused' = refused /\ kept' = kept
  BY DEF OldEmitLast
<1>5. OldCodes' = OldCodes
  BY <1>3, <1>4 DEF OldCodes
<1>6. \E s, at : OldParse(s, at, inserted', next_code', OldCodes', kept', ~refused')
  <2>1. PICK s, at : OldParse(s, at, inserted, next_code, OldCodes, kept, ~refused)
    BY <1>1 DEF OldInv, OldCoding
  <2> QED
    BY <1>4, <1>5, <2>1
<1>7. OldCoding'
  <2>1. old_at' \in 1..(Len(old_data') + 1) /\ ~(old_at' <= Len(old_data'))
    BY <1>1, <1>2, <1>4
  <2>2. next_code' >= Letters /\ next_code' < Letters + old_at' /\ Len(OldCodes') > 0
    BY <1>2, <1>4, <1>5, OldConstants
  <2> QED
    BY <1>4, <1>6, <2>1, <2>2 DEF OldCoding
<1>8. output_codes' \in Seq(Nat)
  BY <1>2, <1>3, <1>4
<1> QED
  BY <1>1, <1>2, <1>4, <1>7, <1>8 DEF OldInv

LEMMA StepOld == OldInv /\ [OldNext]_oldVars => OldInv'
<1> SUFFICES ASSUME OldInv, [OldNext]_oldVars
             PROVE  OldInv'
  OBVIOUS
<1>1. CASE OldCall
  BY <1>1, OldCallKeeps
<1>2. CASE OldLengthen
  BY <1>2, OldLengthenKeeps
<1>3. CASE OldEmit
  BY <1>3, OldEmitKeeps
<1>4. CASE OldEmitLast
  BY <1>4, OldEmitLastKeeps
<1>5. CASE UNCHANGED oldVars
  BY <1>5 DEF oldVars, OldInv, OldCoding, OldCodes
<1> QED
  BY <1>1, <1>2, <1>3, <1>4, <1>5 DEF OldNext

LEMMA OldInvariant == OldSpec => []OldInv
<1>1. OldInit => OldInv
  BY InitOld
<1>2. OldInv /\ [OldNext]_oldVars => OldInv'
  BY StepOld
<1> QED
  BY <1>1, <1>2, PTL DEF OldSpec

(* Whatever keys collide and however small the tables are: every string     *)
(* that was inserted is found with its own code, and no other string is     *)
(* (lookup and insert of lzw_old.cpp).                                      *)
THEOREM OldLookupsAreRight == OldSpec => []OldLookupsRight
<1>1. OldInv => OldLookupsRight
  <2> SUFFICES ASSUME OldInv, old_data # << >>,
                      NEW prefix \in 0..(next_code - 1), NEW char \in Letter
               PROVE  LET k == Key(prefix, char)
                          found == lookup(hash_table, assoc_mem, k)
                      IN  /\ found # None => [key |-> k, value |-> found] \in inserted
                          /\ \A e \in inserted : e.key = k => e.value = found
    BY DEF OldLookupsRight
  <2>1. /\ next_code \in Nat /\ next_code < Letters + old_at
        /\ old_at \in 1..(Len(old_data) + 1) /\ Len(old_data) <= MaxInput
        /\ Len(old_data) \in Nat /\ Stored(hash_table, assoc_mem, inserted)
        /\ KeysApart(inserted)
    BY DEF OldInv, OldCoding
  <2>2. prefix \in Nat /\ prefix < Letters + MaxInput
    BY <2>1, OldConstants
  <2>3. Key(prefix, char) \in KeyRange
    BY <2>2, KeyIs
  <2> DEFINE k == Key(prefix, char)
             found == lookup(hash_table, assoc_mem, k)
  <2>4. /\ found # None => [key |-> k, value |-> found] \in inserted
        /\ found = None => \A e \in inserted : e.key # k
    BY <2>1, <2>3, LookupFinds
  <2> HIDE DEF k, found
  <2>5. \A e \in inserted : e.key = k => e.value = found
    <3> SUFFICES ASSUME NEW e \in inserted, e.key = k
                 PROVE  e.value = found
      OBVIOUS
    <3>1. found # None
      BY <2>4
    <3>2. e = [key |-> k, value |-> found]
      BY <2>1, <2>4, <3>1 DEF KeysApart
    <3> QED
      BY <3>2
  <2> QED
    BY <2>4, <2>5 DEF k, found
<1> QED
  BY <1>1, OldInvariant, PTL

(* The codes stand for what was read, but for the lost zeros, and a decoder *)
(* restores it as long as no insertion was refused (lzw_encode of           *)
(* lzw_old.cpp).                                                            *)
THEOREM OldCodesComeBack == OldSpec => []OldRoundTrip
<1>1. OldInv => OldRoundTrip
  <2> SUFFICES ASSUME OldInv, old_data # << >>
               PROVE  /\ FlattenSeq([j \in DOMAIN OldCodes |-> OldString[OldCodes[j]]]) = kept
                      /\ ~refused => OldDecoder[Len(OldCodes)].output = kept
    BY DEF OldRoundTrip
  <2>1. /\ next_code \in Nat /\ next_code >= Letters
        /\ kept \in Seq(Letter) /\ inserted \subseteq OldEntry
        /\ output_codes \in Seq(Nat) /\ Len(OldCodes) > 0
    BY DEF OldInv, OldCoding, Stored
  <2>2. PICK s, at : OldParse(s, at, inserted, next_code, OldCodes, kept, ~refused)
    BY DEF OldInv, OldCoding
  <2>3. OldCodes \in Seq(Nat)
    <3>1. CASE prefix_code = None
      BY <2>1, <3>1 DEF OldCodes
    <3>2. CASE prefix_code # None
      <4>1. prefix_code \in Nat
        BY <3>2 DEF OldInv, OldCoding
      <4> QED
        BY <2>1, <3>2, <4>1 DEF OldCodes
    <3> QED
      BY <3>1, <3>2
  <2>4. Len(OldCodes) \in Nat /\ DOMAIN OldCodes = 1..Len(OldCodes)
    BY <2>3
  <2>5. \A c \in 0..(next_code - 1) : OldString[c] = s[c]
    BY <2>1, <2>2, OldStringIs DEF OldParse
  <2>6. \A k \in DOMAIN OldCodes : OldCodes[k] \in 0..(next_code - 1)
    BY <2>2, <2>4 DEF OldParse, OldCovers
  <2>7. FlattenSeq([j \in DOMAIN OldCodes |-> s[OldCodes[j]]]) = kept
    <3> DEFINE codes == OldCodes
               text == kept
               size == next_code
    <3>1. /\ size \in Nat /\ text \in Seq(Letter) /\ Len(codes) \in Nat /\ Len(codes) > 0
          /\ DOMAIN codes = 1..Len(codes) /\ OldCovers(s, size, codes, at, text)
      BY <2>1, <2>2, <2>4 DEF OldParse
    <3> HIDE DEF codes, text, size
    <3>2. FlattenSeq([j \in DOMAIN codes |-> s[codes[j]]]) = text
      BY <3>1, TextIsStrings
    <3> QED
      BY <3>2 DEF codes, text
  <2>8. [j \in DOMAIN OldCodes |-> OldString[OldCodes[j]]]
          = [j \in DOMAIN OldCodes |-> s[OldCodes[j]]]
    <3> DEFINE codes == OldCodes
               strings == OldString
    <3>1. \A j \in DOMAIN codes : strings[codes[j]] = s[codes[j]]
      BY <2>5, <2>6
    <3> HIDE DEF codes, strings
    <3>2. [j \in DOMAIN codes |-> strings[codes[j]]] = [j \in DOMAIN codes |-> s[codes[j]]]
      BY <3>1
    <3> QED
      BY <3>2 DEF codes, strings
  <2>9. ASSUME ~refused
        PROVE  OldDecoder[Len(OldCodes)].output = kept
    <3>1. OldParse(s, at, inserted, next_code, OldCodes, kept, TRUE)
      BY <2>2, <2>9 DEF OldParse
    <3> QED
      BY <2>1, <2>4, <3>1, OldDecodes
  <2> QED
    BY <2>7, <2>8, <2>9
<1> QED
  BY <1>1, OldInvariant, PTL

(* Every behaviour of a program is one of the encoder that it is linked     *)
(* with.                                                                    *)
LEMMA VersionsApart == VersionsSpec => Spec /\ OldSpec
<1>1. VersionsInit => Init /\ OldInit
  BY DEF VersionsInit
<1>2. [New \/ Older]_<<vars, oldVars>> => [Next]_vars /\ [OldNext]_oldVars
  BY DEF New, Older
<1> QED
  BY <1>1, <1>2, PTL DEF VersionsSpec, Spec, OldSpec

(* A program linked with either encoder (lzw.cpp or lzw_old.cpp): with the  *)
(* one, blocks restore their chunks out of exactly their own bytes and fit  *)
(* their buffer; with the other, codes stand for the input but for the lost *)
(* zeros, and lookups find what was inserted.                               *)
THEOREM EitherVersion ==
  VersionsSpec => [](/\ RoundTrip /\ CodeWithinReach /\ BlockConsumed
                     /\ TablesAgree /\ BlockFits
                     /\ OldLookupsRight /\ OldRoundTrip)
BY VersionsApart, ChunksComeBack, CodesWithinReach, BlocksConsumed, TablesTheSame,
   BlocksFit, OldLookupsAreRight, OldCodesComeBack, PTL
=============================================================================

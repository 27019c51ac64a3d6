----------------------------- MODULE KernelProofs -----------------------------
(***************************************************************************)
(* Proofs about both ways to call the kernel.                              *)
(*                                                                         *)
(* HostQueue, for all chunks and buffer sizes, whichever launches and      *)
(* reads fail: the queue never holds two commands that could get in each   *)
(* other's way, and the host gets what KernelCalls promises.               *)
(*                                                                         *)
(* KernelDriver, for every set of arguments and masks: its safety          *)
(* properties.  Each follows from DriverInv, which every step keeps; as    *)
(* most of what a step does is a cycle of the registers, what a cycle does *)
(* comes first, for any access.                                            *)
(***************************************************************************)
EXTENDS HostQueue, KernelDriver, SequenceTheorems, TLAPS

HostInv ==
    /\ HostTypeOK
    /\ chunks \in UNION {[1..n -> Calls!Chunk] : n \in 0..MaxChunks}
    /\ QueueInv

LEMMA FunctionIsSeq ==
  ASSUME NEW S, NEW size \in Nat, NEW f \in [1..size -> S]
  PROVE  f \in Seq(S)
BY SeqDef, Zenon

(* The chunk at hand is a sequence of bytes.                                *)
LEMMA ChunkType ==
  ASSUME chunks \in UNION {[1..n -> Calls!Chunk] : n \in 0..MaxChunks},
         results \in Seq({<< >>} \cup {Calls!Block(bytes) : bytes \in Calls!Chunk}),
         Len(results) < Len(chunks)
  PROVE  /\ chunk \in Calls!Chunk
         /\ Len(chunk) \in Nat /\ Len(chunk) > 0
         /\ chunk = [k \in 1..Len(chunk) |-> chunk[k]]
         /\ \A k \in 1..Len(chunk) : chunk[k] \in Byte
<1>1. PICK n \in 0..MaxChunks : chunks \in [1..n -> Calls!Chunk]
  OBVIOUS
<1>2. n \in Nat /\ Len(chunks) = n /\ Len(results) \in Nat
  BY <1>1, QueueAssumption
<1>3. Len(results) + 1 \in 1..n
  BY <1>2
<1>4. chunk \in Calls!Chunk
  BY <1>1, <1>3 DEF chunk
<1>5. PICK len \in 1..MaxLength : chunk \in [1..len -> Byte]
  BY <1>4 DEF Calls!Chunk
<1>6. len \in Nat /\ len > 0
  BY <1>5, QueueAssumption
<1>7. Len(chunk) = len
  BY <1>5, <1>6
<1> QED
  BY <1>4, <1>5, <1>6, <1>7

(* The block of a chunk that fits the input buffer fits the output buffer.  *)
LEMMA BlockFacts ==
  ASSUME NEW bytes, Len(bytes) \in Nat
  PROVE  /\ Calls!CompressedSize(bytes) \in Nat
         /\ Len(Calls!Block(bytes)) = Calls!CompressedSize(bytes)
         /\ Calls!Block(bytes) \in Seq([of : {bytes}, at : Nat])
         /\ Len(bytes) <= INPUT_SIZE => Calls!CompressedSize(bytes) <= OUTPUT_SIZE
<1> DEFINE s == Calls!CompressedSize(bytes)
<1>1. s \in Nat
  BY DEF Calls!CompressedSize
<1>2. Len(bytes) <= INPUT_SIZE => s <= OUTPUT_SIZE
  BY QueueAssumption DEF Calls!CompressedSize
<1>3. Calls!Block(bytes) = [k \in 1..s |-> [of |-> bytes, at |-> k]]
  BY DEF Calls!Block
<1> HIDE DEF s
<1>4. Calls!Block(bytes) \in [1..s -> [of : {bytes}, at : Nat]]
  BY <1>1, <1>3
<1>5. Calls!Block(bytes) \in Seq([of : {bytes}, at : Nat])
  BY <1>1, <1>4, FunctionIsSeq
<1>6. Len(Calls!Block(bytes)) = s
  BY <1>1, <1>3
<1> QED
  BY <1>1, <1>2, <1>5, <1>6 DEF s

LEMMA HostInitInv == HostInit => HostInv
<1> SUFFICES ASSUME HostInit PROVE HostInv
  OBVIOUS
<1>1. PICK n \in 0..MaxChunks : chunks \in [1..n -> Calls!Chunk]
  BY DEF HostInit
<1>2. Len(chunks) \in Nat
  BY <1>1, QueueAssumption
<1>3. Fresh \in InputBuffer
  BY DEF Fresh, InputBuffer
<1>4. [k \in 1..OUTPUT_SIZE |-> Unset] \in [1..OUTPUT_SIZE -> Content]
  BY DEF Content
<1>5. 0 \in 0..OUTPUT_SIZE
  BY QueueAssumption
<1>6. HostTypeOK
  <2>1. results \in Seq({<< >>} \cup {Calls!Block(bytes) : bytes \in Calls!Chunk})
        /\ Len(results) = 0 /\ compressed_data_host \in Seq(Content)
    BY EmptySeq DEF HostInit
  <2>2. Len(results) <= Len(chunks)
    BY <1>2, <2>1
  <2>3. failed \in BOOLEAN
    BY DEF HostInit
  <2> QED
    BY <1>3, <1>4, <1>5, <2>1, <2>2, <2>3 DEF HostInit, HostTypeOK, Command
<1>7. QueueInv
  BY DEF HostInit, QueueInv, Paced, Loaded, Zeroed, Answered, Ready, Waiting, Command
<1> QED
  BY <1>6, <1>7 DEF HostInit, HostInv
-----------------------------------------------------------------------------
(* The steps, for each part of the invariant *)

LEMMA PacedStep == HostInv /\ [HostNext]_hostVars => Paced'
<1> SUFFICES ASSUME HostInv, [HostNext]_hostVars PROVE Paced'
  OBVIOUS
<1> USE DEF HostInv, QueueInv, Paced, Command, Enqueue, Finished, Returned, chunk
<1>1. CASE WriteSize
  BY <1>1 DEF WriteSize
<1>2. CASE Refuse
  BY <1>2 DEF Refuse
<1>3. CASE Map
  BY <1>3 DEF Map
<1>4. CASE Copy
  BY <1>4 DEF Copy
<1>5. CASE Unmap
  BY <1>5 DEF Unmap
<1>6. CASE Migrate
  BY <1>6 DEF Migrate
<1>7. CASE Launch
  BY <1>7 DEF Launch
<1>8. CASE ReadSize
  BY <1>8 DEF ReadSize
<1>9. CASE ReadOutput
  BY <1>9 DEF ReadOutput
<1>10. CASE Emit
  BY <1>10 DEF Emit
<1>11. CASE Run
  BY <1>11 DEF Run, RunWrite, RunMap, RunUnmap, RunMigrate, RunTask, RunReadSize,
               RunReadOutput, Complete
<1>12. CASE Fail
  BY <1>12 DEF Fail, Complete
<1>13. CASE Over \/ UNCHANGED hostVars
  BY <1>13 DEF Over, hostVars
<1> QED
  BY <1>1, <1>2, <1>3, <1>4, <1>5, <1>6, <1>7, <1>8, <1>9, <1>10, <1>11, <1>12, <1>13
     DEF HostNext, Host

LEMMA LoadedStep == HostInv /\ [HostNext]_hostVars => Loaded'
<1> SUFFICES ASSUME HostInv, [HostNext]_hostVars PROVE Loaded'
  OBVIOUS
<1> USE DEF HostInv, QueueInv, Paced, Loaded, Holds, Ready, Command, Enqueue, Finished,
            Returned, chunk, hostSide, device
<1>1. CASE WriteSize
  BY <1>1 DEF WriteSize
<1>2. CASE Refuse
  BY <1>2 DEF Refuse
<1>3. CASE Map
  BY <1>3 DEF Map
<1>4. CASE Copy
  <2>1. Len(chunk) \in Nat /\ Len(chunk) <= INPUT_SIZE
    BY <1>4, ChunkType DEF Copy, HostTypeOK
  <2>2. ASSUME NEW k \in 1..Len(chunk)
        PROVE  input_data_host'[k] = chunk[k]
    <3>1. k \in 1..INPUT_SIZE /\ k <= Len(chunk)
      BY <2>1, QueueAssumption
    <3> QED
      BY <3>1, <1>4 DEF Copy
  <2>3. chunk' = chunk
    BY <1>4 DEF Copy
  <2>4. pc' = "copied"
    BY <1>4 DEF Copy
  <2> QED
    BY <2>2, <2>3, <2>4
<1>5. CASE Unmap
  BY <1>5 DEF Unmap
<1>6. CASE Migrate
  BY <1>6 DEF Migrate
<1>7. CASE Launch
  BY <1>7 DEF Launch
<1>8. CASE ReadSize
  BY <1>8 DEF ReadSize
<1>9. CASE ReadOutput
  BY <1>9 DEF ReadOutput
<1>10. CASE Emit
  BY <1>10 DEF Emit
<1>11. CASE Run
  <2>1. CASE RunWrite
    BY <2>1 DEF RunWrite, Complete
  <2>2. CASE RunMap
    BY <2>2 DEF RunMap, Complete
  <2>3. CASE RunUnmap
    BY <2>3 DEF RunUnmap, Complete
  <2>4. CASE RunMigrate
    BY <2>4 DEF RunMigrate, Complete
  <2>5. CASE RunTask
    BY <2>5 DEF RunTask, Complete
  <2>6. CASE RunReadSize
    BY <2>6 DEF RunReadSize, Complete
  <2>7. CASE RunReadOutput
    BY <2>7 DEF RunReadOutput, Complete
  <2> QED
    BY <1>11, <2>1, <2>2, <2>3, <2>4, <2>5, <2>6, <2>7 DEF Run
<1>12. CASE Fail
  BY <1>12, QueueAssumption DEF Fail, Complete
<1>13. CASE Over \/ UNCHANGED hostVars
  BY <1>13 DEF Over, hostVars
<1> QED
  BY <1>1, <1>2, <1>3, <1>4, <1>5, <1>6, <1>7, <1>8, <1>9, <1>10, <1>11, <1>12, <1>13
     DEF HostNext, Host

LEMMA ZeroedStep == HostInv /\ [HostNext]_hostVars => Zeroed'
<1> SUFFICES ASSUME HostInv, [HostNext]_hostVars PROVE Zeroed'
  OBVIOUS
<1> USE DEF HostInv, QueueInv, Paced, Zeroed, Ready, Waiting, Command, Enqueue, Finished,
            Returned, hostSide, device, read
<1>1. CASE WriteSize
  BY <1>1 DEF WriteSize
<1>2. CASE Refuse
  BY <1>2 DEF Refuse
<1>3. CASE Map
  BY <1>3 DEF Map
<1>4. CASE Copy
  BY <1>4 DEF Copy
<1>5. CASE Unmap
  BY <1>5 DEF Unmap
<1>6. CASE Migrate
  BY <1>6 DEF Migrate
<1>7. CASE Launch
  BY <1>7 DEF Launch
<1>8. CASE ReadSize
  BY <1>8 DEF ReadSize
<1>9. CASE ReadOutput
  BY <1>9 DEF ReadOutput
<1>10. CASE Emit
  BY <1>10 DEF Emit
<1>11. CASE Run
  <2>1. CASE RunWrite
    BY <2>1 DEF RunWrite, Complete
  <2>2. CASE RunMap
    BY <2>2 DEF RunMap, Complete
  <2>3. CASE RunUnmap
    BY <2>3 DEF RunUnmap, Complete
  <2>4. CASE RunMigrate
    BY <2>4 DEF RunMigrate, Complete
  <2>5. CASE RunTask
    BY <2>5 DEF RunTask, Complete
  <2>6. CASE RunReadSize
    BY <2>6 DEF RunReadSize, Complete
  <2>7. CASE RunReadOutput
    BY <2>7 DEF RunReadOutput, Complete
  <2> QED
    BY <1>11, <2>1, <2>2, <2>3, <2>4, <2>5, <2>6, <2>7 DEF Run
<1>12. CASE Fail
  BY <1>12, QueueAssumption DEF Fail, Complete
<1>13. CASE Over \/ UNCHANGED hostVars
  BY <1>13 DEF Over, hostVars
<1> QED
  BY <1>1, <1>2, <1>3, <1>4, <1>5, <1>6, <1>7, <1>8, <1>9, <1>10, <1>11, <1>12, <1>13
     DEF HostNext, Host

LEMMA SmallMod ==
  ASSUME NEW size \in Nat, NEW span \in Nat, size < span
  PROVE  size % span = size
OBVIOUS

(* What a launch computes from the bytes that have been loaded.             *)
LEMMA TaskComputes ==
  ASSUME HostInv, RunTask
  PROVE  /\ Len(chunk) \in Nat
         /\ size_dev' = Calls!CompressedSize(chunk)
         /\ output_dev' = [k \in 1..OUTPUT_SIZE |->
                             IF k <= Calls!CompressedSize(chunk)
                             THEN Calls!Block(chunk)[k] ELSE output_dev[k]]
         /\ Calls!CompressedSize(chunk) \in 0..OUTPUT_SIZE
<1> DEFINE bytes == [k \in 1..(Len(chunk) % SizeSpan) |-> input_dev[k]]
<1>1. pc = "task"
  BY DEF RunTask, Complete, HostInv, QueueInv, Paced
<1>2. /\ Len(chunk) \in Nat /\ Len(chunk) <= INPUT_SIZE
      /\ chunk = [k \in 1..Len(chunk) |-> chunk[k]]
  BY <1>1, ChunkType DEF HostInv, HostTypeOK, QueueInv, Paced, Command
<1>3. Len(chunk) % SizeSpan = Len(chunk)
  <2>1. Len(chunk) < SizeSpan /\ SizeSpan \in Nat
    BY <1>2, QueueAssumption
  <2> QED
    BY <1>2, <2>1, SmallMod
<1>4. \A k \in 1..Len(chunk) : input_dev[k] = chunk[k]
  BY <1>1 DEF HostInv, QueueInv, Loaded, Holds
<1>5. bytes = chunk
  BY <1>2, <1>3, <1>4
<1>6. /\ Calls!CompressedSize(chunk) \in Nat
      /\ Calls!CompressedSize(chunk) <= OUTPUT_SIZE
      /\ Len(Calls!Block(chunk)) = Calls!CompressedSize(chunk)
  BY <1>2, BlockFacts
<1>7. /\ size_dev' = Len(Calls!Block(bytes))
      /\ output_dev' = [k \in 1..OUTPUT_SIZE |->
                          IF k <= Len(Calls!Block(bytes)) THEN Calls!Block(bytes)[k]
                                                          ELSE output_dev[k]]
  BY DEF RunTask
<1> HIDE DEF bytes
<1> QED
  BY <1>2, <1>5, <1>6, <1>7, QueueAssumption

LEMMA AnsweredStep == HostInv /\ [HostNext]_hostVars => Answered'
<1> SUFFICES ASSUME HostInv, [HostNext]_hostVars PROVE Answered'
  OBVIOUS
<1> USE DEF HostInv, QueueInv, Paced, Answered, IsAnswer, Ready, Waiting, Command, Enqueue,
            Finished, Returned, chunk, hostSide, device, read
<1>1. CASE WriteSize
  BY <1>1 DEF WriteSize
<1>2. CASE Refuse
  BY <1>2 DEF Refuse
<1>3. CASE Map
  BY <1>3 DEF Map
<1>4. CASE Copy
  BY <1>4 DEF Copy
<1>5. CASE Unmap
  BY <1>5 DEF Unmap
<1>6. CASE Migrate
  BY <1>6 DEF Migrate
<1>7. CASE Launch
  BY <1>7 DEF Launch
<1>8. CASE ReadSize
  BY <1>8 DEF ReadSize
<1>9. CASE ReadOutput
  BY <1>9 DEF ReadOutput
<1>10. CASE Emit
  BY <1>10 DEF Emit
<1>11. CASE Run
  <2>1. CASE RunWrite
    BY <2>1 DEF RunWrite, Complete
  <2>2. CASE RunMap
    BY <2>2 DEF RunMap, Complete
  <2>3. CASE RunUnmap
    BY <2>3 DEF RunUnmap, Complete
  <2>4. CASE RunMigrate
    BY <2>4 DEF RunMigrate, Complete
  <2>5. CASE RunTask
    <3>1. pc' = "task" /\ chunk' = chunk
      BY <2>5 DEF RunTask, Complete
    <3>2. \A k \in 1..Calls!CompressedSize(chunk) : output_dev'[k] = Calls!Block(chunk)[k]
      BY <2>5, TaskComputes, QueueAssumption
    <3>3. size_dev' = Calls!CompressedSize(chunk)
      BY <2>5, TaskComputes
    <3> QED
      BY <3>1, <3>2, <3>3 DEF Calls!Block, Calls!CompressedSize
  <2>6. CASE RunReadSize
    BY <2>6 DEF RunReadSize, Complete
  <2>7. CASE RunReadOutput
    <3>1. /\ pc = "readOutput" /\ pc' = "readOutput" /\ chunk' = chunk
          /\ UNCHANGED <<compressed_size, output_dev, failed>>
          /\ compressed_data_host' = [k \in 1..compressed_size |-> output_dev[k]]
      BY <2>7 DEF RunReadOutput, Complete
    <3>2. IsAnswer(compressed_size)
      BY <3>1
    <3>3. CASE failed /\ compressed_size = 0
      <4>1. compressed_data_host' = << >>
        BY <3>1, <3>3
      <4>2. IsAnswer(compressed_size)'
        BY <3>1, <3>3
      <4> QED
        BY <3>1, <3>3, <4>1, <4>2
    <3>4. CASE /\ compressed_size = Calls!CompressedSize(chunk)
               /\ \A k \in 1..compressed_size : output_dev[k] = Calls!Block(chunk)[k]
      <4>1. compressed_data_host' = Calls!Block(chunk)
        BY <3>1, <3>4 DEF Calls!Block
      <4> QED
        BY <3>1, <3>4, <4>1 DEF Calls!Block, Calls!CompressedSize
    <3> QED
      BY <3>2, <3>3, <3>4
  <2> QED
    BY <1>11, <2>1, <2>2, <2>3, <2>4, <2>5, <2>6, <2>7 DEF Run
<1>12. CASE Fail
  BY <1>12, QueueAssumption DEF Fail, Complete, Zeroed
<1>13. CASE Over \/ UNCHANGED hostVars
  BY <1>13 DEF Over, hostVars
<1> QED
  BY <1>1, <1>2, <1>3, <1>4, <1>5, <1>6, <1>7, <1>8, <1>9, <1>10, <1>11, <1>12, <1>13
     DEF HostNext, Host

LEMMA TypeStep == HostInv /\ [HostNext]_hostVars => HostTypeOK'
<1> SUFFICES ASSUME HostInv, [HostNext]_hostVars PROVE HostTypeOK'
  OBVIOUS
<1> USE DEF HostInv, HostTypeOK, Command, Enqueue, hostSide, device, read
<1>0. 0 \in 0..OUTPUT_SIZE /\ \A k \in 0..OUTPUT_SIZE : k \in Nat
  BY QueueAssumption
<1>1. CASE WriteSize
  BY <1>0, <1>1 DEF WriteSize
<1>2. CASE Refuse
  BY <1>2 DEF Refuse
<1>3. CASE Map
  BY <1>3 DEF Map
<1>4. CASE Copy
  <2>1. /\ Len(chunk) \in Nat
        /\ \A k \in 1..Len(chunk) : chunk[k] \in Byte
    BY <1>4, ChunkType DEF Copy, QueueInv, Paced
  <2>2. ASSUME NEW k \in 1..INPUT_SIZE, k <= Len(chunk)
        PROVE  chunk[k] \in Byte
    BY <2>1, <2>2, QueueAssumption
  <2>3. ASSUME NEW k \in 1..INPUT_SIZE
        PROVE  input_data_host[k] \in Byte \cup {Unset}
    BY DEF InputBuffer
  <2>4. input_data_host' \in InputBuffer
    BY <1>4, <2>2, <2>3 DEF Copy, InputBuffer
  <2> QED
    BY <1>4, <2>4 DEF Copy
<1>5. CASE Unmap
  BY <1>5 DEF Unmap
<1>6. CASE Migrate
  BY <1>6 DEF Migrate
<1>7. CASE Launch
  BY <1>7 DEF Launch
<1>8. CASE ReadSize
  BY <1>8 DEF ReadSize
<1>9. CASE ReadOutput
  <2>1. compressed_data_host' \in [1..compressed_size -> Content]
    BY <1>9 DEF ReadOutput, Content
  <2>2. compressed_data_host' \in Seq(Content)
    <3>1. compressed_size \in Nat
      BY <1>0
    <3> QED
      BY <3>1, <2>1, FunctionIsSeq
  <2> QED
    BY <1>9, <2>2 DEF ReadOutput
<1>10. CASE Emit
  <2> DEFINE Blocks == {<< >>} \cup {Calls!Block(bytes) : bytes \in Calls!Chunk}
  <2>1. chunk \in Calls!Chunk /\ Len(results) < Len(chunks)
    BY <1>10, ChunkType DEF Emit, QueueInv, Paced
  <2>2. compressed_data_host \in Blocks
    BY <1>10, <2>1 DEF Emit, QueueInv, Paced, Answered, Ready, Returned
  <2>3. results \in Seq(Blocks)
    OBVIOUS
  <2>4. PICK n \in 0..MaxChunks : chunks \in [1..n -> Calls!Chunk]
    OBVIOUS
  <2>5. Len(chunks) \in Nat
    BY <2>4, QueueAssumption
  <2> HIDE DEF Blocks
  <2>6. results' \in Seq(Blocks) /\ Len(results') = Len(results) + 1 /\ Len(results) \in Nat
    BY <1>10, <2>2, <2>3, AppendProperties, LenProperties DEF Emit
  <2>7. Len(results') <= Len(chunks')
    BY <1>10, <2>1, <2>5, <2>6 DEF Emit
  <2> QED
    BY <1>10, <2>6, <2>7 DEF Emit, Blocks
<1>11. CASE Run
  <2>1. CASE RunWrite
    BY <1>0, <2>1 DEF RunWrite, Complete
  <2>2. CASE RunMap
    BY <2>2 DEF RunMap, Complete
  <2>3. CASE RunUnmap
    BY <2>3 DEF RunUnmap, Complete
  <2>4. CASE RunMigrate
    BY <2>4 DEF RunMigrate, Complete
  <2>5. CASE RunTask
    <3>1. chunk \in Seq(Byte \cup {Unset})
      <4>1. chunk \in [1..Len(chunk) -> Byte \cup {Unset}] /\ Len(chunk) \in Nat
        BY <2>5, ChunkType DEF RunTask, Complete, QueueInv, Paced
      <4> QED
        BY <4>1, FunctionIsSeq
    <3>2. ASSUME NEW k \in 1..OUTPUT_SIZE, k <= Calls!CompressedSize(chunk)
          PROVE  Calls!Block(chunk)[k] \in Content
      <4>1. k \in 1..Calls!CompressedSize(chunk) /\ k \in Nat
        BY <2>5, <3>2, TaskComputes, QueueAssumption
      <4>2. Calls!Block(chunk)[k] = [of |-> chunk, at |-> k]
        BY <4>1 DEF Calls!Block
      <4> QED
        BY <3>1, <4>1, <4>2 DEF Content
    <3>3. output_dev' \in [1..OUTPUT_SIZE -> Content]
      BY <2>5, <3>2, TaskComputes
    <3> QED
      BY <2>5, <3>3, TaskComputes DEF RunTask, Complete
  <2>6. CASE RunReadSize
    BY <2>6 DEF RunReadSize, Complete
  <2>7. CASE RunReadOutput
    <3>1. \A k \in 1..compressed_size : k \in 1..OUTPUT_SIZE
      BY QueueAssumption
    <3>2. compressed_data_host' \in [1..compressed_size -> Content]
      BY <2>7, <3>1 DEF RunReadOutput
    <3>3. compressed_data_host' \in Seq(Content)
      <4>1. compressed_size \in Nat
        BY <1>0
      <4> QED
        BY <4>1, <3>2, FunctionIsSeq
    <3> QED
      BY <2>7, <3>3 DEF RunReadOutput, Complete
  <2> QED
    BY <1>11, <2>1, <2>2, <2>3, <2>4, <2>5, <2>6, <2>7 DEF Run
<1>12. CASE Fail
  BY <1>12 DEF Fail, Complete
<1>13. CASE Over \/ UNCHANGED hostVars
  BY <1>13 DEF Over, hostVars
<1> QED
  BY <1>1, <1>2, <1>3, <1>4, <1>5, <1>6, <1>7, <1>8, <1>9, <1>10, <1>11, <1>12, <1>13
     DEF HostNext, Host

LEMMA ChunksFixed == [HostNext]_hostVars => UNCHANGED chunks
  BY DEF HostNext, Host, WriteSize, Refuse, Map, Copy, Unmap, Migrate, Launch, ReadSize,
         ReadOutput, Emit, Run, RunWrite, RunMap, RunUnmap, RunMigrate, RunTask,
         RunReadSize, RunReadOutput, Complete, Fail, Over, hostVars

LEMMA HostInvHolds == Safety => []HostInv
<1>1. HostInv /\ [HostNext]_hostVars => HostInv'
  BY TypeStep, PacedStep, LoadedStep, ZeroedStep, AnsweredStep, ChunksFixed
     DEF HostInv, QueueInv
<1> QED
  BY HostInitInv, <1>1, PTL DEF Safety
-----------------------------------------------------------------------------
(* Every variable keeps its type; in particular sizes read from the device  *)
(* stay within the output buffer.                                           *)
THEOREM TypeCorrect == HostSpec => []HostTypeOK
<1>1. HostInv => HostTypeOK
  BY DEF HostInv
<1> QED
  BY <1>1, HostInvHolds, PTL DEF HostSpec

(* The inductive invariant: how far chunk, zero and block have come.        *)
THEOREM QueueInvariance == HostSpec => []QueueInv
<1>1. HostInv => QueueInv
  BY DEF HostInv
<1> QED
  BY <1>1, HostInvHolds, PTL DEF HostSpec

(* No two commands that touch the same buffer are ever in the out-of-order  *)
(* queue together.                                                          *)
THEOREM CommandsApart == HostSpec => []NoOverlap
<1>1. HostInv => NoOverlap
  BY DEF HostInv, QueueInv, Paced, NoOverlap, Command
<1> QED
  BY <1>1, HostInvHolds, PTL DEF HostSpec

(* The commands and waits of Host.cpp implement a simple call for each      *)
(* chunk: what goes to output_data is the block of this chunk or, after a   *)
(* failure, an empty one, and never anything else.                          *)
THEOREM ImplementsKernelCalls == Safety => Calls!Safety
<1>1. HostInit => Calls!Init
  BY DEF HostInit, Calls!Init
<1>2. HostInv /\ [HostNext]_hostVars => [Calls!Next]_(Calls!callVars)
  <2> SUFFICES ASSUME HostInv, [HostNext]_hostVars
               PROVE  [Calls!Next]_(Calls!callVars)
    OBVIOUS
  <2>1. CASE Emit
    <3>1. Calls!Pending /\ Calls!Current = chunk /\ Len(chunk) <= INPUT_SIZE
      BY <2>1 DEF Emit, HostInv, QueueInv, Paced, Command, Calls!Pending, Calls!Current,
                  chunk
    <3>2. \/ compressed_data_host = Calls!Block(chunk)
          \/ failed /\ compressed_data_host = << >>
      BY <2>1 DEF Emit, HostInv, QueueInv, Paced, Answered, Ready, Returned
    <3>3. Calls!Compress
      BY <2>1, <3>1, <3>2 DEF Emit, Calls!Compress
    <3> QED
      BY <3>3 DEF Calls!Next
  <2>2. CASE Refuse
    <3>1. Calls!Pending /\ Calls!Current = chunk
      BY <2>2 DEF Refuse, HostInv, QueueInv, Paced, Command, Calls!Pending,
                  Calls!Current, chunk
    <3>2. Calls!Refuse
      BY <2>2, <3>1 DEF Refuse, Calls!Refuse
    <3> QED
      BY <3>2 DEF Calls!Next
  <2>3. CASE Host /\ ~Emit /\ ~Refuse
    BY <2>3 DEF Host, WriteSize, Map, Copy, Unmap, Migrate, Launch, ReadSize,
                ReadOutput, Enqueue, Calls!callVars
  <2>4. CASE Run
    BY <2>4 DEF Run, RunWrite, RunMap, RunUnmap, RunMigrate, RunTask, RunReadSize,
                RunReadOutput, Complete, Calls!callVars
  <2>5. CASE Fail
    <3>1. Calls!Pending
      BY <2>5 DEF Fail, Complete, HostInv, QueueInv, Paced, Command, Calls!Pending
    <3>2. Calls!Break
      BY <2>5, <3>1 DEF Fail, Complete, Calls!Break
    <3> QED
      BY <3>2 DEF Calls!Next
  <2>6. CASE Over \/ UNCHANGED hostVars
    BY <2>6 DEF Over, hostVars, Calls!callVars
  <2> QED
    BY <2>1, <2>2, <2>3, <2>4, <2>5, <2>6 DEF HostNext
<1> QED
  BY <1>1, <1>2, HostInvHolds, PTL DEF Safety, Calls!Safety
-----------------------------------------------------------------------------
(* The driver *)

(* What the callers put on the bus.                                         *)
BusOK(w) ==
    /\ w.addr = "IER" => w.data \subseteq Signal
    /\ w.addr \in {"low", "high"} => w.data \in Half

(* A register of an argument holds what was last written to it.             *)
LEMMA FieldWritten ==
  ASSUME NEW S, NEW T, NEW f \in [S -> T], NEW x \in S, NEW value
  PROVE  [f EXCEPT ![x] = value][x] = value
OBVIOUS

LEMMA HalvesWritten ==
  ASSUME NEW T, NEW f \in [{"low", "high"} -> T], NEW value, f["low"] = value[1]
  PROVE  [f EXCEPT !["high"] = value[2]] = Halves(value)
<1> DEFINE g == [f EXCEPT !["high"] = value[2]]
<1>1. DOMAIN g = {"low", "high"} /\ g["low"] = value[1] /\ g["high"] = value[2]
  OBVIOUS
<1>2. g = [x \in {"low", "high"} |-> g[x]]
  OBVIOUS
<1> QED
  BY <1>1, <1>2 DEF Halves

LEMMA CycleTypes ==
  ASSUME NEW w, BusOK(w), RegistersOK, Cycle(w), responding' \in BOOLEAN
  PROVE  RegistersOK'
<1>1. int_ap_start' \in BOOLEAN /\ int_ap_continue' \in BOOLEAN
  BY DEF Cycle, StartNext, ContinueNext, RegistersOK
<1>2. int_auto_restart' \in BOOLEAN
  BY DEF Cycle, RestartNext
<1>3. int_ap_idle' \in BOOLEAN /\ int_gie' \in BOOLEAN
  BY DEF Cycle, RegistersOK, ap_idle
<1>4. int_ier' \subseteq Signal /\ int_isr' \subseteq Signal
  BY DEF Cycle, RegistersOK, BusOK, StatusNext
<1>5. int_input_data' \in [{"low", "high"} -> Half]
  BY DEF Cycle, RegistersOK, BusOK
<1>6. state' \in {"state1", "running", "state293"}
  BY DEF Cycle, RegistersOK, StateNext
<1>7. ap_done_reg' \in BOOLEAN
  BY DEF Cycle, DoneNext, RegistersOK
<1> QED
  BY <1>1, <1>2, <1>3, <1>4, <1>5, <1>6, <1>7 DEF RegistersOK

(* A run leaves the first state with ap_start set, which stays until it is  *)
(* over.                                                                    *)
LEMMA CycleReady ==
  ASSUME NEW w, RegistersOK, ReadyHonest, Cycle(w)
  PROVE  ReadyHonest'
<1>1. SUFFICES ASSUME state' # "state1"
               PROVE  int_ap_start' /\ ~ap_done_reg'
  BY DEF ReadyHonest
<1>2. state # "state293" /\ int_ap_start /\ ~ap_done_reg
  BY <1>1 DEF Cycle, StateNext, ReadyHonest, RegistersOK
<1> QED
  BY <1>2 DEF Cycle, StartNext, DoneNext, ap_ready

(* ap_idle is lost only by a write, and that takes a cycle for its response.*)
LEMMA CycleIdle ==
  ASSUME RegistersOK, NoAccess \/ \E w : Access(w)
  PROVE  IdleHonest'
<1>1. CASE NoAccess
  BY <1>1 DEF NoAccess, Cycle, IdleHonest, ap_idle, ap_ready, StartNext, StateNext,
              Written, NoWrite, Write, RegistersOK
<1>2. CASE \E w : Access(w)
  BY <1>2 DEF Access, IdleHonest
<1> QED
  BY <1>1, <1>2

(* Without a write of ap_start none begins, auto restart or not.            *)
LEMMA CycleStopped ==
  ASSUME NEW w, RegistersOK, ReadyHonest, Cycle(w),
         ~int_ap_start, ~Written(w, "ap_start")
  PROVE  ~int_ap_start'
<1>1. ~ap_ready
  BY DEF ReadyHonest, ap_ready
<1> QED
  BY <1>1 DEF Cycle, StartNext

LEMMA CycleInput ==
  ASSUME NEW w, Cycle(w), w.addr \notin {"low", "high"}
  PROVE  int_input_data' = int_input_data
BY DEF Cycle

LEMMA CycleRestart ==
  ASSUME NEW w, RegistersOK, Cycle(w), w.addr # "AP_CTRL"
  PROVE  int_auto_restart' = int_auto_restart
BY DEF Cycle, RestartNext, Written, RegistersOK

(* Interrupts are cleared by a write to their register only.                *)
LEMMA CycleStatus ==
  ASSUME NEW w, RegistersOK, Cycle(w), w.addr # "ISR"
  PROVE  int_isr \subseteq int_isr'
<1> SUFFICES ASSUME NEW s \in int_isr
             PROVE  s \in StatusNext(w)
  BY DEF Cycle
<1>1. s \in Signal /\ ~(w.addr = "ISR" /\ s \in w.data)
  BY DEF RegistersOK
<1> QED
  BY <1>1 DEF StatusNext

(* Without auto restart, done stays until ap_continue is written.           *)
LEMMA CycleDone ==
  ASSUME NEW w, Cycle(w), ~int_auto_restart
  PROVE  /\ int_ap_continue' = Written(w, "ap_continue")
         /\ ap_done_reg' = (~int_ap_continue /\ ap_done)
<1>1. int_ap_continue' = (Written(w, "ap_continue") \/ FALSE)
  BY DEF Cycle, ContinueNext
<1>2. Written(w, "ap_continue") \in BOOLEAN
  BY DEF Written
<1>3. ap_done_reg' = (~int_ap_continue /\ ap_done)
  BY DEF Cycle, DoneNext, ap_done, ap_ready
<1> QED
  BY <1>1, <1>2, <1>3
-----------------------------------------------------------------------------
LEMMA InitDriver == Init => DriverInv
<1> SUFFICES ASSUME Init PROVE DriverInv
  OBVIOUS
<1>1. RegistersOK
  <2>1. int_input_data \in [{"low", "high"} -> Half]
    <3>1. PICK value \in Values : int_input_data = Halves(value)
      BY DEF Init, RegistersInit
    <3>2. value[1] \in Half /\ value[2] \in Half
      BY DEF Half
    <3> QED
      BY <3>1, <3>2 DEF Halves
  <2> QED
    BY <2>1 DEF Init, RegistersInit, RegistersOK
<1>2. TypeOK
  <2>1. main.op = "none" /\ handler.op = "none"
    BY DEF Init, Idle, Between
  <2>2. \A call \in {main, handler} :
          call.op \notin {"Set", "Start", "Continue", "Enable", "Disable"}
    BY <2>1
  <2> QED
    BY <1>1, <2>2 DEF Init, TypeOK
<1>3. ReadyHonest /\ IdleHonest
  BY DEF Init, RegistersInit, ReadyHonest, IdleHonest
<1>4. ArgumentInv /\ DoneInv /\ RestartInv
  BY DEF Init, RegistersInit, ArgumentInv, DoneInv, RestartInv, Idle, Between
<1>5. status \subseteq int_isr
  BY DEF Init
<1> QED
  BY <1>2, <1>3, <1>4, <1>5 DEF DriverInv

(* What is on the bus says which function has put it there.                 *)
OnBus(w) ==
    /\ BusOK(w)
    /\ w.addr = "ISR" => InterruptClear
    /\ w.addr = "low" => SetLow
    /\ w.addr = "high" => SetHigh
    /\ w.addr = "AP_CTRL" => StartWrite \/ AutoRestart \/ ContinueWrite
    /\ Written(w, "ap_start") => StartWrite
    /\ Written(w, "ap_continue") => ContinueWrite

(* Every step opens, closes, or is a cycle with something on the bus.       *)
LEMMA EachCycle ==
  ASSUME DriverInv, Next
  PROVE  \/ Initialize \/ Release
         \/ \E w : OnBus(w) /\ Cycle(w) /\ (NoAccess \/ Access(w))
<1> USE DEF OnBus, BusOK, Write, Written
<1>1. CASE Initialize \/ Release
  BY <1>1
<1>2. CASE \/ Tick \/ IsReady \/ StartRead \/ InterruptRead
           \/ IsDone \/ ContinueRead \/ InterruptGetStatus
  <2>1. Cycle(NoWrite) /\ (NoAccess \/ Access(NoWrite))
    BY <1>2 DEF Tick, IsReady, StartRead, InterruptRead, IsDone, ContinueRead,
                InterruptGetStatus, Access, NoAccess
  <2>2. OnBus(NoWrite)
    BY DEF NoWrite
  <2> QED
    BY <2>1, <2>2
<1>3. CASE SetLow
  <2>1. PICK value \in Values : Access(Write("low", value[1]))
    BY <1>3 DEF SetLow
  <2>2. value[1] \in Half
    BY DEF Half
  <2>3. OnBus(Write("low", value[1]))
    BY <1>3, <2>2
  <2> QED
    BY <2>1, <2>3 DEF Access
<1>4. CASE SetHigh
  <2>1. main.data \in Values
    BY <1>4 DEF SetHigh, DriverInv, TypeOK
  <2>2. main.data[2] \in Half
    BY <2>1 DEF Half
  <2>3. OnBus(Write("high", main.data[2]))
    BY <1>4, <2>2
  <2> QED
    BY <1>4, <2>3 DEF SetHigh, Access
<1>5. CASE StartWrite
  <2>1. Access(Write("AP_CTRL", main.data \cup {"ap_start"}))
    BY <1>5 DEF StartWrite, KeptBits
  <2>2. main.data \subseteq {"auto_restart"}
    BY <1>5 DEF StartWrite, DriverInv, TypeOK
  <2>3. OnBus(Write("AP_CTRL", main.data \cup {"ap_start"}))
    BY <1>5, <2>2
  <2> QED
    BY <2>1, <2>3 DEF Access
<1>6. CASE AutoRestart
  <2>1. PICK data \in SUBSET {"auto_restart"} : Access(Write("AP_CTRL", data))
    BY <1>6 DEF AutoRestart
  <2>2. OnBus(Write("AP_CTRL", data))
    BY <1>6
  <2> QED
    BY <2>1, <2>2 DEF Access
<1>7. CASE InterruptWrite
  <2>1. PICK Mask \in Masks :
          Access(Write("IER", IF main.op = "Enable" THEN main.data \cup Mask
                                                    ELSE main.data \ Mask))
    BY <1>7 DEF InterruptWrite
  <2>2. main.data \subseteq Signal
    BY <1>7 DEF InterruptWrite, DriverInv, TypeOK
  <2>3. Mask \subseteq Signal
    BY DriverAssumption
  <2>4. OnBus(Write("IER", IF main.op = "Enable" THEN main.data \cup Mask
                                                 ELSE main.data \ Mask))
    BY <2>2, <2>3
  <2> QED
    BY <2>1, <2>4 DEF Access
<1>8. CASE InterruptGlobal
  <2>1. PICK data \in SUBSET {1} : Access(Write("GIE", data))
    BY <1>8 DEF InterruptGlobal
  <2>2. OnBus(Write("GIE", data))
    OBVIOUS
  <2> QED
    BY <2>1, <2>2 DEF Access
<1>9. CASE ContinueWrite
  <2>1. Access(Write("AP_CTRL", handler.data \cup {"ap_continue"}))
    BY <1>9 DEF ContinueWrite, KeptBits
  <2>2. handler.data \subseteq {"auto_restart"}
    BY <1>9 DEF ContinueWrite, DriverInv, TypeOK
  <2>3. OnBus(Write("AP_CTRL", handler.data \cup {"ap_continue"}))
    BY <1>9, <2>2
  <2> QED
    BY <2>1, <2>3 DEF Access
<1>10. CASE InterruptClear
  <2>1. Access(Write("ISR", ToClear))
    BY <1>10 DEF InterruptClear
  <2>2. OnBus(Write("ISR", ToClear))
    BY <1>10
  <2> QED
    BY <2>1, <2>2 DEF Access
<1> QED
  BY <1>1, <1>2, <1>3, <1>4, <1>5, <1>6, <1>7, <1>8, <1>9, <1>10
     DEF Next, Main, Handler, Continue
-----------------------------------------------------------------------------
(* What every step keeps, part by part *)

LEMMA StepRegisters ==
  ASSUME DriverInv, Next
  PROVE  RegistersOK' /\ ReadyHonest' /\ IdleHonest'
<1> USE DEF DriverInv, TypeOK
<1>1. CASE Initialize \/ Release
  <2>1. UNCHANGED <<registers, responding>>
    BY <1>1 DEF Initialize, Release
  <2> QED
    BY <2>1 DEF registers, RegistersOK, ReadyHonest, IdleHonest, ap_idle
<1>2. CASE \E w : OnBus(w) /\ Cycle(w) /\ (NoAccess \/ Access(w))
  <2>1. PICK w : OnBus(w) /\ Cycle(w) /\ (NoAccess \/ Access(w))
    BY <1>2
  <2>2. responding' \in BOOLEAN
    BY <2>1 DEF Access, NoAccess
  <2> QED
    BY <2>1, <2>2, CycleTypes, CycleReady, CycleIdle DEF OnBus
<1> QED
  BY <1>1, <1>2, EachCycle

(* The call of a process is as it was, or one of these.                     *)
CallOK(call) ==
    /\ call.op = "Set" => call.data \in Values
    /\ call.op \in {"Start", "Continue"} => call.data \subseteq {"auto_restart"}
    /\ call.op \in {"Enable", "Disable"} => call.data \subseteq Signal

LEMMA CallsOK ==
  /\ CallOK(Idle)
  /\ \A value \in Values : CallOK(Between("Set", value))
  /\ \A op \in {"Start", "Continue"} : CallOK(Between(op, ReadControl))
  /\ RegistersOK => \A op \in {"Enable", "Disable"} : CallOK(Between(op, int_ier))
BY DEF CallOK, Idle, Between, ReadControl, RegistersOK

LEMMA StepCalls ==
  ASSUME DriverInv, Next
  PROVE  CallOK(main') /\ CallOK(handler')
<1>0. CallOK(main) /\ CallOK(handler) /\ RegistersOK
  BY DEF DriverInv, TypeOK, CallOK
<1>1. CASE SetLow \/ SetHigh \/ StartRead \/ StartWrite \/ InterruptRead \/ InterruptWrite
  <2>1. handler' = handler
    BY <1>1 DEF SetLow, SetHigh, StartRead, StartWrite, InterruptRead, InterruptWrite,
                MainOnly
  <2>2. CASE SetLow
    <3>1. PICK value \in Values : main' = Between("Set", value)
      BY <2>2 DEF SetLow
    <3> QED
      BY <1>0, <2>1, <3>1, CallsOK
  <2>3. CASE InterruptRead
    <3>1. PICK op \in {"Enable", "Disable"} : main' = Between(op, int_ier)
      BY <2>3 DEF InterruptRead
    <3> QED
      BY <1>0, <2>1, <3>1, CallsOK
  <2>4. CASE StartRead
    <3>1. main' = Between("Start", ReadControl)
      BY <2>4 DEF StartRead
    <3> QED
      BY <1>0, <2>1, <3>1, CallsOK
  <2>5. CASE SetHigh \/ StartWrite \/ InterruptWrite
    <3>1. main' = Idle
      BY <2>5 DEF SetHigh, StartWrite, InterruptWrite
    <3> QED
      BY <1>0, <2>1, <3>1, CallsOK
  <2> QED
    BY <1>1, <2>2, <2>3, <2>4, <2>5
<1>2. CASE Continue
  <2>1. main' = main
    BY <1>2 DEF Continue, ContinueRead, ContinueWrite, HandlerOnly
  <2>2. handler' = Between("Continue", ReadControl) \/ handler' = Idle
    BY <1>2 DEF Continue, ContinueRead, ContinueWrite
  <2> QED
    BY <1>0, <2>1, <2>2, CallsOK
<1>3. CASE \/ Initialize \/ Release \/ Tick \/ IsReady \/ AutoRestart \/ InterruptGlobal
           \/ IsDone \/ InterruptGetStatus \/ InterruptClear
  <2>1. UNCHANGED <<main, handler>>
    BY <1>3 DEF Initialize, Release, Tick, IsReady, AutoRestart, InterruptGlobal,
                IsDone, InterruptGetStatus, InterruptClear, MainOnly, HandlerOnly, callers
  <2> QED
    BY <1>0, <2>1
<1> QED
  BY <1>1, <1>2, <1>3 DEF Next, Main, Handler, Continue

LEMMA StepTypes ==
  ASSUME DriverInv, Next
  PROVE  TypeOK'
<1> USE DEF DriverInv, TypeOK
<1>1. RegistersOK' /\ CallOK(main') /\ CallOK(handler')
  BY StepRegisters, StepCalls
<1>2. uio_num' \in {0} \cup DOMAIN Devices
  BY DEF Next, Main, Handler, Continue, Initialize, Matching, Release, Tick, callers,
         MainOnly, HandlerOnly, IsReady, SetLow, SetHigh, StartRead, StartWrite, AutoRestart,
         InterruptRead, InterruptWrite, InterruptGlobal, IsDone, ContinueRead,
         ContinueWrite, InterruptGetStatus, InterruptClear
<1>3. ready' \in BOOLEAN
  BY DEF Next, Main, Handler, Continue, Initialize, Release, Tick, callers, ReadyAnswer,
         HandlerOnly, IsReady, SetLow, SetHigh, StartRead, StartWrite, AutoRestart,
         InterruptRead, InterruptWrite, InterruptGlobal, IsDone, ContinueRead,
         ContinueWrite, InterruptGetStatus, InterruptClear
<1>4. ap_done \in BOOLEAN /\ ap_ready \in BOOLEAN /\ Begins \in BOOLEAN
  BY DEF ap_done, ap_ready, Begins, RegistersOK
<1>5. done' \in BOOLEAN
  BY <1>4 DEF Next, Main, Handler, Continue, Initialize, Release, Tick, callers,
         MainOnly, IsReady, SetLow, SetHigh, StartRead, StartWrite, AutoRestart,
         InterruptRead, InterruptWrite, InterruptGlobal, IsDone, ContinueRead,
         ContinueWrite, InterruptGetStatus, InterruptClear
<1>6. asked' \in BOOLEAN /\ unnoticed' \in BOOLEAN
  BY <1>4 DEF Next, Main, Handler, Continue, Initialize, Release, Tick, history, Observed,
         IsReady, SetLow, SetHigh, StartRead, StartWrite, AutoRestart,
         InterruptRead, InterruptWrite, InterruptGlobal, IsDone, ContinueRead,
         ContinueWrite, InterruptGetStatus, InterruptClear
<1>7. wanted' \in {"never", "on", "off"} /\ overtaken' \in BOOLEAN
  BY DEF Next, Main, Handler, Continue, Initialize, Release, Tick, history, Kept,
         IsReady, SetLow, SetHigh, StartRead, StartWrite, AutoRestart,
         InterruptRead, InterruptWrite, InterruptGlobal, IsDone, ContinueRead,
         ContinueWrite, InterruptGetStatus, InterruptClear
<1>8. status' \subseteq Signal
  BY DEF Next, Main, Handler, Continue, Initialize, Release, Tick, callers, RegistersOK,
         MainOnly, IsReady, SetLow, SetHigh, StartRead, StartWrite, AutoRestart,
         InterruptRead, InterruptWrite, InterruptGlobal, IsDone, ContinueRead,
         ContinueWrite, InterruptGetStatus, InterruptClear
<1> QED
  BY <1>1, <1>2, <1>3, <1>5, <1>6, <1>7, <1>8 DEF CallOK

(* status is cleared together with the bits that it stands for.             *)
LEMMA StepStatus ==
  ASSUME DriverInv, Next
  PROVE  status' \subseteq int_isr'
<1> USE DEF DriverInv, TypeOK
<1>1. CASE Initialize \/ Release
  BY <1>1 DEF Initialize, Release, registers
<1>2. CASE InterruptClear
  BY <1>2 DEF InterruptClear
<1>3. ASSUME NEW w, OnBus(w), Cycle(w), ~InterruptClear, ~Initialize, ~Release
      PROVE  status' \subseteq int_isr'
  <2>1. status' = status \/ status' = int_isr
    BY <1>3 DEF IsDone, Next, Handler, Continue, ContinueRead, ContinueWrite, Tick,
       InterruptGetStatus, callers, Main, MainOnly, IsReady, SetLow, SetHigh, StartRead,
       StartWrite, AutoRestart, InterruptRead, InterruptWrite, InterruptGlobal
  <2>2. int_isr \subseteq int_isr'
    BY <1>3, CycleStatus DEF OnBus
  <2> QED
    BY <2>1, <2>2
<1> QED
  BY <1>1, <1>2, <1>3, EachCycle

(* Only a start that main has written can begin a run once it is ready, and *)
(* main writes no argument unless it is.                                    *)
LEMMA StepArgument ==
  ASSUME DriverInv, Next
  PROVE  ArgumentInv'
<1> USE DEF DriverInv, TypeOK
<1>1. CASE Initialize \/ Release
  BY <1>1 DEF Initialize, Release, registers, history, ArgumentInv, Idle, Between
<1>2. ASSUME NEW w, OnBus(w), Cycle(w), ~Initialize, ~Release
      PROVE  ArgumentInv'
  <2>1. ready /\ ~StartWrite => ~int_ap_start'
    BY <1>2, CycleStopped DEF OnBus, ArgumentInv
  <2>2. ~SetLow /\ ~SetHigh => int_input_data' = int_input_data
    BY <1>2, CycleInput DEF OnBus
  <2>3. CASE SetLow
    <3>1. PICK value \in Values : /\ Access(Write("low", value[1]))
                                  /\ main' = Between("Set", value)
      BY <2>3 DEF SetLow
    <3>2. int_input_data'["low"] = value[1]
      <4>1. int_input_data' = [int_input_data EXCEPT !["low"] = value[1]]
        BY <3>1 DEF Access, Cycle, Write
      <4>2. int_input_data \in [{"low", "high"} -> Half]
        BY DEF RegistersOK
      <4>3. "low" \in {"low", "high"}
        OBVIOUS
      <4> QED
        BY <4>1, <4>2, <4>3, FieldWritten
    <3>3. ready /\ ready' = ready /\ ~StartWrite
      BY <2>3 DEF SetLow, StartWrite, CallsMain, Idle, Between
    <3> QED
      BY <2>1, <3>1, <3>2, <3>3 DEF ArgumentInv, Between
  <2>4. CASE SetHigh
    <3>1. main.op = "Set" /\ main' = Idle /\ given' = Halves(main.data) /\ ready' = ready
      BY <2>4 DEF SetHigh
    <3>2. int_input_data' = [int_input_data EXCEPT !["high"] = main.data[2]]
      BY <2>4 DEF SetHigh, Access, Cycle, Write
    <3>3. int_input_data["low"] = main.data[1]
      BY <3>1 DEF ArgumentInv
    <3>4. int_input_data' = given'
      <4>1. int_input_data \in [{"low", "high"} -> Half]
        BY DEF RegistersOK
      <4> QED
        BY <3>1, <3>2, <3>3, <4>1, HalvesWritten
    <3>5. ~StartWrite
      BY <3>1 DEF StartWrite
    <3> QED
      BY <2>1, <3>1, <3>4, <3>5 DEF ArgumentInv, Idle, Between
  <2>5. CASE IsReady
    <3>1. ready' = ~int_ap_start /\ main' = main /\ given' = given /\ main = Idle
      BY <2>5 DEF IsReady, ReadyAnswer, Kept, CallsMain
    <3>2. Cycle(NoWrite)
      BY <2>5 DEF IsReady, Access
    <3>3. ready' => ~int_ap_start'
      BY <3>1, <3>2, CycleStopped DEF NoWrite, Write, Written
    <3>4. int_input_data' = int_input_data
      BY <3>2, CycleInput DEF NoWrite, Write
    <3> QED
      BY <3>1, <3>3, <3>4 DEF ArgumentInv, Idle, Between
  <2>6. CASE StartWrite
    <3>1. main' = Idle /\ ready' = FALSE /\ given' = given /\ main.op = "Start"
      BY <2>6 DEF StartWrite, Kept
    <3>2. ~SetLow /\ ~SetHigh
      BY <3>1 DEF SetLow, SetHigh, CallsMain, Idle, Between
    <3> QED
      BY <2>2, <3>1, <3>2 DEF ArgumentInv, Idle, Between
  <2>7. CASE ~SetLow /\ ~SetHigh /\ ~IsReady /\ ~StartWrite
    <3>1. ready' = ready /\ given' = given
      BY <1>2, <2>7 DEF Next, Main, Handler, Continue, Tick, callers, HandlerOnly, Kept,
         StartRead, AutoRestart, InterruptRead, InterruptWrite, InterruptGlobal, IsDone,
         ContinueRead, ContinueWrite, InterruptGetStatus, InterruptClear
    <3>2. \/ main' = main
          \/ main.op # "Set" /\ main'.op # "Set"
      BY <1>2, <2>7 DEF Next, Main, Handler, Continue, Tick, callers, HandlerOnly,
         CallsMain, Idle, Between, StartRead, AutoRestart, InterruptRead, InterruptWrite,
         InterruptGlobal, IsDone, ContinueRead, ContinueWrite, InterruptGetStatus,
         InterruptClear
    <3> QED
      BY <2>1, <2>2, <2>7, <3>1, <3>2 DEF ArgumentInv
  <2> QED
    BY <2>3, <2>4, <2>5, <2>6, <2>7
<1> QED
  BY <1>1, <1>2, EachCycle

(* A run that has ended holds done until the handler has seen it and gone   *)
(* on, as nothing but a write of ap_continue releases it.                   *)
LEMMA StepDone ==
  ASSUME DriverInv, Next
  PROVE  DoneInv'
<1> USE DEF DriverInv, TypeOK
<1>1. CASE Initialize \/ Release
  BY <1>1 DEF Initialize, Release, registers, history, DoneInv, Idle, Between
<1>2. ASSUME NEW w, OnBus(w), Cycle(w), NoAccess \/ Access(w), ~Initialize, ~Release,
             wanted' = "never"
      PROVE  DoneInv'
  <2>1. wanted = "never" /\ overtaken' = overtaken /\ ~AutoRestart
    <3>1. ~AutoRestart
      BY <1>2 DEF AutoRestart
    <3> QED
      BY <1>2, <3>1 DEF Next, Main, Handler, Continue, Tick, Kept, IsReady, SetLow, SetHigh,
         StartRead, StartWrite, InterruptRead, InterruptWrite, InterruptGlobal, IsDone,
         ContinueRead, ContinueWrite, InterruptGetStatus, InterruptClear
  <2>2. ~int_auto_restart /\ ~overtaken /\ ~overtaken'
    BY <2>1 DEF DoneInv, RestartInv
  <2>3. /\ int_ap_continue' = Written(w, "ap_continue")
        /\ ap_done_reg' = (~int_ap_continue /\ ap_done)
    BY <1>2, <2>2, CycleDone
  <2>4. CASE ContinueWrite
    <3>1. handler.op = "Continue" /\ handler'.op = "none" /\ done' = FALSE
      BY <2>4 DEF ContinueWrite, Idle, Between
    <3>2. ap_done_reg /\ ~int_ap_continue /\ ~unnoticed
      BY <2>1, <3>1 DEF DoneInv
    <3>3. ~ap_ready /\ ap_done_reg'
      BY <2>3, <3>2 DEF ReadyHonest, ap_ready, ap_done
    <3>4. ~unnoticed' /\ responding'
      BY <2>4, <3>2, <3>3 DEF ContinueWrite, Observed, Access
    <3> QED
      BY <2>2, <3>1, <3>3, <3>4 DEF DoneInv
  <2>5. CASE ~ContinueWrite
    <3>1. ~int_ap_continue'
      BY <1>2, <2>3, <2>5 DEF OnBus
    <3>2. handler'.op = "Continue" => handler.op = "Continue" \/ done
      BY <1>2, <2>5 DEF Next, Main, Handler, Continue, Tick, callers, MainOnly, IsReady,
         SetLow, SetHigh, StartRead, StartWrite, AutoRestart, InterruptRead,
         InterruptWrite, InterruptGlobal, IsDone, ContinueRead, InterruptGetStatus,
         InterruptClear
    <3>3. CASE IsDone
      <4>1. ~responding /\ done' = ap_done /\ unnoticed' = (~ap_done /\ unnoticed)
        BY <3>3 DEF IsDone, Access
      <4>2. ~int_ap_continue
        BY <2>1, <4>1 DEF DoneInv
      <4>3. ap_done_reg' = ap_done
        BY <2>3, <4>2 DEF ap_done
      <4>4. handler' = handler /\ handler.op = "none"
        BY <3>3 DEF IsDone, CallsHandler, Idle, Between
      <4>5. unnoticed => ap_done
        BY <2>1 DEF DoneInv, ap_done
      <4> QED
        BY <2>2, <3>1, <4>1, <4>3, <4>4, <4>5 DEF DoneInv
    <3>4. CASE ~IsDone
      <4>1. done' = done /\ unnoticed' = (unnoticed \/ ap_ready)
        BY <1>2, <2>5, <3>4 DEF Next, Main, Handler, Continue, Tick, callers, MainOnly, IsReady,
           SetLow, SetHigh, StartRead, StartWrite, AutoRestart, InterruptRead, Observed,
           InterruptWrite, InterruptGlobal, ContinueRead, InterruptGetStatus,
           InterruptClear
      <4>2. ap_ready => ~int_ap_continue /\ ap_done
        BY <2>1 DEF ap_ready, ReadyHonest, DoneInv, ap_done
      <4>3. unnoticed' => ap_done_reg'
        BY <2>1, <2>3, <4>1, <4>2 DEF DoneInv, ap_done
      <4>4. done \/ handler.op = "Continue" => ap_done_reg' /\ ~unnoticed'
        <5>1. SUFFICES ASSUME done \/ handler.op = "Continue"
                       PROVE  ap_done_reg' /\ ~unnoticed'
          OBVIOUS
        <5>2. ap_done_reg /\ ~int_ap_continue /\ ~unnoticed
          BY <2>1, <5>1 DEF DoneInv
        <5>3. ~ap_ready
          BY <5>2 DEF ReadyHonest, ap_ready
        <5> QED
          BY <2>3, <4>1, <5>2, <5>3 DEF ap_done
      <4> QED
        BY <2>2, <3>1, <3>2, <4>1, <4>3, <4>4 DEF DoneInv
    <3> QED
      BY <3>3, <3>4
  <2> QED
    BY <2>4, <2>5
<1> QED
  BY <1>1, <1>2, EachCycle DEF DoneInv

(* Nobody but AutoRestart, and Continue when overtaken, changes auto        *)
(* restart: both writers keep what they have read.                          *)
LEMMA StepRestart ==
  ASSUME DriverInv, Next
  PROVE  RestartInv'
<1> USE DEF DriverInv, TypeOK
<1>1. CASE Initialize \/ Release
  BY <1>1 DEF Initialize, Release, registers, history, RestartInv, ReadControl, Idle, Between
<1>2. ASSUME NEW w, OnBus(w), Cycle(w), ~Initialize, ~Release
      PROVE  RestartInv'
  <2>1. CASE AutoRestart
    <3>1. PICK to \in {"on", "off"} :
            /\ Access(Write("AP_CTRL", IF to = "on" THEN {"auto_restart"} ELSE {}))
            /\ wanted' = to
      BY <2>1 DEF AutoRestart
    <3>2. int_auto_restart' <=> to = "on"
      BY <3>1 DEF Access, Cycle, RestartNext, Written, Write
    <3>3. /\ overtaken' = (handler.op = "Continue") /\ handler' = handler
          /\ main' = main /\ main.op = "none"
      BY <2>1 DEF AutoRestart, MainOnly, CallsMain, Idle, Between
    <3> QED
      BY <3>1, <3>2, <3>3 DEF RestartInv
  <2>2. CASE ~AutoRestart /\ overtaken
    <3>1. overtaken' = overtaken
      BY <1>2, <2>2 DEF Next, Main, Handler, Continue, Tick, Kept, IsReady, SetLow, SetHigh,
         StartRead, StartWrite, InterruptRead, InterruptWrite, InterruptGlobal, IsDone,
         ContinueRead, ContinueWrite, InterruptGetStatus, InterruptClear
    <3> QED
      BY <2>2, <3>1 DEF RestartInv
  <2>3. CASE ~AutoRestart /\ ~overtaken
    <3>1. wanted' = wanted
      BY <1>2, <2>3 DEF Next, Main, Handler, Continue, Tick, Kept, IsReady, SetLow, SetHigh,
         StartRead, StartWrite, InterruptRead, InterruptWrite, InterruptGlobal, IsDone,
         ContinueRead, ContinueWrite, InterruptGetStatus, InterruptClear
    <3>2. int_auto_restart' = int_auto_restart
      <4>1. CASE StartWrite
        <5>1. main.data = ReadControl /\ Access(Write("AP_CTRL", main.data \cup {"ap_start"}))
          BY <2>3, <4>1 DEF StartWrite, RestartInv, KeptBits
        <5> QED
          BY <5>1 DEF Access, Cycle, RestartNext, Written, Write, ReadControl, RegistersOK
      <4>2. CASE ContinueWrite
        <5>1. /\ handler.data = ReadControl
              /\ Access(Write("AP_CTRL", handler.data \cup {"ap_continue"}))
          BY <2>3, <4>2 DEF ContinueWrite, RestartInv, KeptBits
        <5> QED
          BY <5>1 DEF Access, Cycle, RestartNext, Written, Write, ReadControl, RegistersOK
      <4>3. CASE ~StartWrite /\ ~ContinueWrite
        BY <1>2, <2>3, <4>3, CycleRestart DEF OnBus
      <4> QED
        BY <4>1, <4>2, <4>3
    <3>3. ReadControl' = ReadControl
      BY <3>2 DEF ReadControl
    <3>4. main'.op = "Start" => main' = main \/ main'.data = ReadControl
      BY <1>2, <2>3 DEF Next, Main, Handler, Continue, Tick, callers, HandlerOnly, Idle,
         Between, IsReady, SetLow, SetHigh, StartRead, StartWrite, InterruptRead,
         InterruptWrite, InterruptGlobal, IsDone, ContinueRead, ContinueWrite,
         InterruptGetStatus, InterruptClear
    <3>5. handler'.op = "Continue" => handler' = handler \/ handler'.data = ReadControl
      BY <1>2, <2>3 DEF Next, Main, Handler, Continue, Tick, callers, MainOnly, Idle,
         Between, IsReady, SetLow, SetHigh, StartRead, StartWrite, InterruptRead,
         InterruptWrite, InterruptGlobal, IsDone, ContinueRead, ContinueWrite,
         InterruptGetStatus, InterruptClear
    <3> QED
      BY <2>3, <3>1, <3>2, <3>3, <3>4, <3>5 DEF RestartInv
  <2> QED
    BY <2>1, <2>2, <2>3
<1> QED
  BY <1>1, <1>2, EachCycle
-----------------------------------------------------------------------------
(* What the registers, the driver and its callers rely on holds at every    *)
(* cycle, whatever the callers do and however long the kernel runs.         *)
THEOREM DriverInvariance == Spec => []DriverInv
<1>1. ASSUME DriverInv, [Next]_vars
      PROVE  DriverInv'
  <2>1. CASE Next
    BY <1>1, <2>1, StepTypes, StepRegisters, StepArgument, StepDone, StepRestart, StepStatus
       DEF DriverInv
  <2>2. CASE UNCHANGED vars
    BY <1>1, <2>2 DEF vars, registers, callers, history, DriverInv, TypeOK, RegistersOK,
       ReadyHonest, IdleHonest, ap_idle, ArgumentInv, DoneInv, RestartInv, ReadControl
  <2> QED
    BY <1>1, <2>1, <2>2
<1> QED
  BY <1>1, InitDriver, PTL DEF Spec

(* IsIdle never answers 1 while the kernel runs or is about to, although    *)
(* the bit it reads is a cycle late.                                        *)
THEOREM IdleIsHonest == Spec => []IdleHonest
<1>1. DriverInv => IdleHonest
  BY DEF DriverInv
<1> QED
  BY <1>1, DriverInvariance, PTL

(* No run sees the halves of two arguments: main writes them only when it   *)
(* knows that the kernel is in its first state.                             *)
THEOREM WholeArguments == Spec => []ArgumentsWhole
<1>1. DriverInv => ArgumentsWhole
  BY DEF DriverInv, ReadyHonest, ArgumentInv, ArgumentsWhole
<1> QED
  BY <1>1, DriverInvariance, PTL

(* Without auto restart no run begins before IsDone has told of the one     *)
(* before: until then ap_done_reg keeps the kernel in its first state.      *)
THEOREM RunsNoticed == Spec => []NoRunUnnoticed
<1>1. DriverInv => NoRunUnnoticed
  BY DEF DriverInv, ReadyHonest, DoneInv, NoRunUnnoticed
<1> QED
  BY <1>1, DriverInvariance, PTL

(* Start and Continue, which rewrite AP_CTRL, keep auto restart as it was   *)
(* last asked for, unless that was between the two accesses of a Continue.  *)
THEOREM RestartAsAsked == Spec => []AutoRestartAsAsked
<1>1. DriverInv => AutoRestartAsAsked
  BY DEF DriverInv, RestartInv, AutoRestartAsAsked
<1> QED
  BY <1>1, DriverInvariance, PTL

(* The handler clears by toggling, and what it toggles is raised: no        *)
(* interrupt appears but by its signal.                                     *)
THEOREM NoSpurious == Spec => NoSpuriousInterrupt
<1>1. ASSUME DriverInv, [Next]_vars
      PROVE  [\A s \in int_isr' \ int_isr : s \in int_ier /\ s \in Raised]_vars
  <2>1. CASE Initialize \/ Release \/ UNCHANGED vars
    BY <2>1 DEF Initialize, Release, vars, registers
  <2>2. CASE InterruptClear
    <3>1. int_isr' = StatusNext(Write("ISR", status)) /\ status \subseteq int_isr
      BY <1>1, <2>2 DEF InterruptClear, Access, Cycle, ToClear, DriverInv
    <3> QED
      BY <3>1 DEF StatusNext, Write
  <2>3. ASSUME NEW w, OnBus(w), Cycle(w), ~InterruptClear, ~Initialize, ~Release
        PROVE  \A s \in int_isr' \ int_isr : s \in int_ier /\ s \in Raised
    <3>1. w.addr # "ISR" /\ int_isr' = StatusNext(w)
      BY <2>3 DEF OnBus, Cycle
    <3> QED
      BY <3>1 DEF StatusNext
  <2> QED
    BY <1>1, <2>1, <2>2, <2>3, EachCycle
<1> QED
  BY <1>1, DriverInvariance, PTL DEF Spec, NoSpuriousInterrupt
=============================================================================

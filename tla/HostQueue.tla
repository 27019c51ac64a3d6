------------------------------ MODULE HostQueue ------------------------------
(***************************************************************************)
(* How hls/Host.cpp has a chunk compressed by the FPGA: the commands it    *)
(* puts into its command queue, which is out of order, and its waits.  pc  *)
(* names the command the host has enqueued last.                           *)
(*                                                                         *)
(* A buffer has a host side, which write and unmap change, and a device    *)
(* side, which the kernel works on; migrate copies the one to the other,   *)
(* and a read comes from the device.                                       *)
(***************************************************************************)
EXTENDS Integers, Sequences

CONSTANTS
    Byte, MaxChunks, MaxLength,  \* the chunks: see KernelCalls
    INPUT_SIZE, OUTPUT_SIZE,     \* the sizes of the buffers
    SizeSpan,                    \* 65536: a chunk's size becomes a uint16_t
    FailKinds,                   \* commands that may fail
    Unset                        \* a byte that was never written

Command == {"write", "map", "unmap", "migrate", "task", "readSize", "readOutput"}

ASSUME QueueAssumption ==
    /\ MaxChunks \in Nat /\ MaxLength \in Nat
    /\ INPUT_SIZE \in Nat /\ INPUT_SIZE < SizeSpan /\ SizeSpan \in Nat
    /\ OUTPUT_SIZE \in Nat /\ 13 * INPUT_SIZE + 7 <= 8 * OUTPUT_SIZE
    /\ FailKinds \subseteq {"task", "readSize"}
    /\ Unset \notin Byte

VARIABLES
    chunks,                  \* the new chunks, in the loop's order
    results,                 \* the blocks that output_data has got for them
    failed,                  \* history: a command for this chunk has failed
    pc, queue,
    input_data_host,         \* what input_buf is mapped to
    input_buf, size_buf,     \* host side
    input_dev, size_dev, output_dev,
    compressed_size, compressed_data_host

hostSide == <<input_buf, size_buf>>
device   == <<input_dev, size_dev, output_dev>>
read     == <<compressed_size, compressed_data_host>>
hostVars == <<chunks, results, failed, pc, queue, input_data_host, hostSide, device, read>>

Calls == INSTANCE KernelCalls WITH refused <- (pc = "refused")

InputBuffer  == [1..INPUT_SIZE -> Byte \cup {Unset}]
Fresh        == [k \in 1..INPUT_SIZE |-> Unset]

HostInit ==
    /\ chunks \in UNION {[1..n -> Calls!Chunk] : n \in 0..MaxChunks}
    /\ results = << >> /\ failed = FALSE
    /\ pc = "next" /\ queue = {}
    /\ input_data_host = Fresh /\ input_buf = Fresh /\ input_dev = Fresh
    /\ size_buf \in 0..OUTPUT_SIZE  \* not initialized
    /\ size_dev = size_buf /\ compressed_size = 0
    /\ output_dev = [k \in 1..OUTPUT_SIZE |-> Unset]
    /\ compressed_data_host = << >>
-----------------------------------------------------------------------------
(* The host *)

chunk == chunks[Len(results) + 1]

(* q.finish(), and what any blocking command waits for.                     *)
Finished     == queue = {}
Returned(op) == op \notin queue

Enqueue(op) == queue' = queue \cup {op} /\ pc' = op

(* Mutation of WriteSize: the size is set on the host only.                 *)
WriteSizeNot ==
    /\ pc = "next" /\ Len(results) < Len(chunks)
    /\ compressed_size' = 0
    /\ pc' = "write"
    /\ UNCHANGED <<chunks, results, failed, queue, input_data_host, hostSide, device,
                   compressed_data_host>>

(* The blocking write of a zero.                                            *)
WriteSize ==
    /\ pc = "next" /\ Len(results) < Len(chunks)
    /\ compressed_size' = 0
    /\ Enqueue("write")
    /\ UNCHANGED <<chunks, results, failed, input_data_host, hostSide, device,
                   compressed_data_host>>

Refuse ==
    /\ pc = "write" /\ Finished
    /\ Len(chunk) > INPUT_SIZE
    /\ pc' = "refused"
    /\ UNCHANGED <<chunks, results, failed, queue, input_data_host, hostSide, device, read>>

Map ==
    /\ pc = "write" /\ Finished
    /\ Len(chunk) <= INPUT_SIZE
    /\ Enqueue("map")
    /\ UNCHANGED <<chunks, results, failed, input_data_host, hostSide, device, read>>

(* The memcpy, once the blocking map has returned.                          *)
Copy ==
    /\ pc = "map" /\ Returned("map")
    /\ input_data_host' = [k \in 1..INPUT_SIZE |->
                             IF k <= Len(chunk) THEN chunk[k]
                                                ELSE input_data_host[k]]
    /\ pc' = "copied"
    /\ UNCHANGED <<chunks, results, failed, queue, hostSide, device, read>>

Unmap ==
    /\ pc = "copied"
    /\ Enqueue("unmap")
    /\ UNCHANGED <<chunks, results, failed, input_data_host, hostSide, device, read>>

(* Mutation of Migrate: no q.finish() after the unmap.                      *)
MigrateAtOnce ==
    /\ pc = "unmap"
    /\ Enqueue("migrate")
    /\ UNCHANGED <<chunks, results, failed, input_data_host, hostSide, device, read>>

Migrate ==
    /\ pc = "unmap" /\ Finished
    /\ Enqueue("migrate")
    /\ UNCHANGED <<chunks, results, failed, input_data_host, hostSide, device, read>>

Launch ==
    /\ pc = "migrate" /\ Finished
    /\ Enqueue("task")
    /\ UNCHANGED <<chunks, results, failed, input_data_host, hostSide, device, read>>

(* Mutation of ReadSize: nobody waits for the kernel.                       *)
ReadSizeAtOnce ==
    /\ pc = "task"
    /\ Enqueue("readSize")
    /\ UNCHANGED <<chunks, results, failed, input_data_host, hostSide, device, read>>

(* After clWaitForEvents and q.finish().                                    *)
ReadSize ==
    /\ pc = "task" /\ Returned("task") /\ Finished
    /\ Enqueue("readSize")
    /\ UNCHANGED <<chunks, results, failed, input_data_host, hostSide, device, read>>

ReadOutput ==
    /\ pc = "readSize" /\ Finished
    /\ compressed_data_host' = [k \in 1..compressed_size |-> Unset]
    /\ Enqueue("readOutput")
    /\ UNCHANGED <<chunks, results, failed, input_data_host, hostSide, device,
                   compressed_size>>

(* Header and block go to output_data; on to the next new chunk.            *)
Emit ==
    /\ pc = "readOutput" /\ Returned("readOutput")
    /\ results' = Append(results, compressed_data_host) /\ failed' = FALSE
    /\ pc' = "next"
    /\ UNCHANGED <<chunks, queue, input_data_host, hostSide, device, read>>

Host ==
    \/ WriteSize \/ Refuse \/ Map \/ Copy \/ Unmap \/ Migrate \/ Launch
    \/ ReadSize \/ ReadOutput \/ Emit
-----------------------------------------------------------------------------
(* The queue: every command it holds may be the next to complete *)

Complete(op) ==
    /\ op \in queue /\ queue' = queue \ {op}
    /\ UNCHANGED <<chunks, results, pc>>

RunWrite ==
    /\ Complete("write")
    /\ size_buf' = 0
    /\ UNCHANGED <<failed, input_data_host, input_buf, device, read>>

RunMap ==
    /\ Complete("map")
    /\ input_data_host' = input_buf
    /\ UNCHANGED <<failed, hostSide, device, read>>

RunUnmap ==
    /\ Complete("unmap")
    /\ input_buf' = input_data_host
    /\ UNCHANGED <<failed, input_data_host, size_buf, device, read>>

RunMigrate ==
    /\ Complete("migrate")
    /\ input_dev' = input_buf /\ size_dev' = size_buf
    /\ UNCHANGED <<failed, input_data_host, hostSide, output_dev, read>>

(* lzw_encode_hw with the arguments that were set when it was enqueued.     *)
RunTask ==
    /\ Complete("task")
    /\ LET input_size == Len(chunk) % SizeSpan
           block == Calls!Block([k \in 1..input_size |-> input_dev[k]])
       IN  /\ size_dev' = Len(block)
           /\ output_dev' = [k \in 1..OUTPUT_SIZE |->
                               IF k <= Len(block) THEN block[k] ELSE output_dev[k]]
    /\ UNCHANGED <<failed, input_data_host, hostSide, input_dev, read>>

RunReadSize ==
    /\ Complete("readSize")
    /\ compressed_size' = size_dev /\ size_buf' = size_dev
    /\ UNCHANGED <<failed, input_data_host, input_buf, device, compressed_data_host>>

RunReadOutput ==
    /\ Complete("readOutput")
    /\ compressed_data_host' = [k \in 1..compressed_size |-> output_dev[k]]
    /\ UNCHANGED <<failed, input_data_host, hostSide, device, compressed_size>>

(* A command that fails does nothing and is done; nobody looks at its       *)
(* status.                                                                  *)
Fail ==
    /\ \E op \in FailKinds : Complete(op)
    /\ failed' = TRUE
    /\ UNCHANGED <<input_data_host, hostSide, device, read>>

Run ==
    \/ RunWrite \/ RunMap \/ RunUnmap \/ RunMigrate \/ RunTask
    \/ RunReadSize \/ RunReadOutput

(* The loop is over, or the program has returned 1.                         *)
Over ==
    /\ pc = "refused" \/ (pc = "next" /\ Len(results) = Len(chunks))
    /\ UNCHANGED hostVars

HostNext == Host \/ Run \/ Fail \/ Over

Safety == HostInit /\ [][HostNext]_hostVars

(* The host goes on when it can, and the device works its queue off.        *)
HostSpec == Safety /\ WF_hostVars(Host) /\ WF_hostVars(Run)
-----------------------------------------------------------------------------
Content == [of : Seq(Byte \cup {Unset}), at : Nat] \cup {Unset}

(* The values of every variable.                                            *)
HostTypeOK ==
    /\ Len(results) <= Len(chunks)
    /\ results \in Seq({<< >>} \cup {Calls!Block(bytes) : bytes \in Calls!Chunk})
    /\ failed \in BOOLEAN
    /\ pc \in Command \cup {"next", "copied", "refused"} /\ queue \subseteq Command
    /\ input_data_host \in InputBuffer
    /\ input_buf \in InputBuffer /\ input_dev \in InputBuffer
    /\ size_buf \in 0..OUTPUT_SIZE /\ size_dev \in 0..OUTPUT_SIZE
    /\ compressed_size \in 0..OUTPUT_SIZE
    /\ output_dev \in [1..OUTPUT_SIZE -> Content]
    /\ compressed_data_host \in Seq(Content)

Touches(op) ==
    CASE op = "write"      -> {"size"}
      [] op = "map"        -> {"input"}
      [] op = "unmap"      -> {"input"}
      [] op = "migrate"    -> {"input", "size"}
      [] op = "task"       -> {"input", "size", "output"}
      [] op = "readSize"   -> {"size"}
      [] op = "readOutput" -> {"output"}

(* The queue is out of order, so no two commands in it may share a buffer,  *)
(* and none the mapped buffer while the host writes to it.                  *)
NoOverlap ==
    /\ \A a, b \in queue : a # b => Touches(a) \cap Touches(b) = {}
    /\ pc = "copied" => \A op \in queue : "input" \notin Touches(op)

(* Chunk by chunk, the host gets what a simple call would have given it: the*)
(* block of this very chunk, or, if something failed meanwhile, an empty    *)
(* one, never what an earlier launch has left in a buffer; and every call   *)
(* comes to an end.                                                         *)
CompressesInTurn == Calls!Spec
-----------------------------------------------------------------------------
(* The inductive invariant *)

Waiting(op) == pc = op /\ queue # {}
Ready(op)   == pc = op /\ queue = {}

(* The queue holds at most the command that the host has enqueued last, and *)
(* the host enqueues commands for a chunk that is there and fits.           *)
Paced ==
    /\ queue \subseteq {pc} \cap Command
    /\ pc \in Command \cup {"copied", "refused"} => Len(results) < Len(chunks)
    /\ pc \in (Command \ {"write"}) \cup {"copied"} => Len(chunk) <= INPUT_SIZE

Holds(buffer) == \A k \in 1..Len(chunk) : buffer[k] = chunk[k]

(* How far the chunk has come on its way to the device.                     *)
Loaded ==
    /\ pc \in {"copied", "unmap"} => Holds(input_data_host)
    /\ Ready("unmap") \/ pc = "migrate" => Holds(input_buf)
    /\ Ready("migrate") \/ pc = "task" => Holds(input_dev)

(* How far the zero has come that stands for a failed launch.               *)
Zeroed ==
    /\ Ready("write") \/ pc \in {"map", "copied", "unmap", "migrate"} => size_buf = 0
    /\ Ready("migrate") \/ Waiting("task") => size_dev = 0
    /\ \/ pc \in Command \ {"readSize", "readOutput"}
       \/ pc = "copied"
       \/ Waiting("readSize")
       => compressed_size = 0

(* size is that of the chunk's block, and output holds it; or something has *)
(* failed, and size is 0.                                                   *)
IsAnswer(size) ==
    \/ failed /\ size = 0
    \/ /\ size = Calls!CompressedSize(chunk)
       /\ \A k \in 1..size : output_dev[k] = Calls!Block(chunk)[k]

(* How far the block has come on its way back.                              *)
Answered ==
    /\ Ready("task") \/ pc = "readSize" => IsAnswer(size_dev)
    /\ Ready("readSize") \/ pc = "readOutput" => IsAnswer(compressed_size)
    /\ Ready("readOutput") => \/ compressed_data_host = Calls!Block(chunk)
                              \/ failed /\ compressed_data_host = << >>

(* What the proof that CompressesInTurn holds rests on: where the host is   *)
(* says what has reached which side of which buffer.                        *)
QueueInv == Paced /\ Loaded /\ Zeroed /\ Answered
=============================================================================

------------------------------ MODULE Transfer ------------------------------
(***************************************************************************)
(* The file on its way from Client/client.cpp, over UDP, into file_buffer  *)
(* of Server/encoder.cpp (hls/Host.cpp has the same loop).  The file's     *)
(* bytes are numbered, so that what arrives shows where it came from.      *)
(*                                                                         *)
(* A datagram is two bytes of header, low and high, whose top bit says     *)
(* that it is the last, and a payload.  Bytes have ByteSpan values (256).  *)
(***************************************************************************)
EXTENDS Integers, Sequences, SequencesExt

CONSTANTS
    ByteSpan,      \* 256
    BLOCKSIZE,     \* the client's blocksize and the server's
    NUM_PACKETS,   \* the server's input buffers
    pipe_depth,    \* the one it begins with
    NUM_ELEMENTS,  \* the size of an input buffer without the header
    Capacity,      \* 70000000, the size of file_buffer
    FileSizes,     \* bound: the sizes of file that are sent
    Faults,        \* what may happen: "lose", "duplicate", "reorder", and
                   \* "fail" (recvfrom returns -1)
    MaxFaults,     \* bound: how often
    Junk           \* a byte that is not the file's

DoneBit == ByteSpan \div 2

ASSUME TransferAssumption ==
    /\ ByteSpan \in Nat /\ ByteSpan = 2 * DoneBit /\ DoneBit > 0
    /\ NUM_ELEMENTS \in 1..(ByteSpan * DoneBit - 1)
    /\ BLOCKSIZE \in 1..NUM_ELEMENTS
    /\ NUM_PACKETS \in Nat /\ pipe_depth \in 0..(NUM_PACKETS - 1)
    /\ Capacity \in Nat /\ ByteSpan * DoneBit <= Capacity
    /\ FileSizes \subseteq Nat
    /\ Junk \notin Nat

VARIABLES
    file_size,
    n, step,         \* the client: the block it is at; where it is
    wire,            \* datagrams in flight
    faults,          \* the faults there have been, in order
    input_buffers, writer,
    file_buffer,     \* its first offset bytes
    received,        \* how many times get_packet has returned
    done

clientVars == <<file_size, n, step>>
serverVars == <<input_buffers, writer, file_buffer, received, done>>
vars == <<clientVars, wire, faults, serverVars>>

Unset == [low |-> Junk, high |-> Junk, data |-> [k \in 1..NUM_ELEMENTS |-> Junk]]

Init ==
    /\ file_size \in FileSizes
    /\ n = 0 /\ step = "blocks"
    /\ wire = << >> /\ faults = << >>
    /\ input_buffers = [w \in 0..(NUM_PACKETS - 1) |-> Unset]
    /\ writer = pipe_depth
    /\ file_buffer = << >>
    /\ received = 0
    /\ done = FALSE
-----------------------------------------------------------------------------
(* The client *)

remainder == file_size % BLOCKSIZE
loops     == file_size \div BLOCKSIZE

(* size bytes of buff from byte start on; buff ends with the file, and what *)
(* lies beyond it is read all the same.                                     *)
Bytes(start, size) ==
    [k \in 1..size |-> IF start + k <= file_size THEN start + k ELSE Junk]

Datagram(start, size, last) ==
    [low  |-> size % ByteSpan,
     high |-> size \div ByteSpan + (IF last THEN DoneBit ELSE 0),
     data |-> Bytes(start, size)]

Send(datagram) ==
    /\ wire' = Append(wire, datagram)
    /\ UNCHANGED <<faults, file_size, serverVars>>

(* Mutation of SendBlock: all the full blocks, the last one included.       *)
SendBlockToLoops ==
    /\ step = "blocks" /\ n < loops
    /\ Send(Datagram(n * BLOCKSIZE, BLOCKSIZE, FALSE))
    /\ n' = n + 1
    /\ UNCHANGED step

SendBlock ==
    /\ step = "blocks" /\ n < loops - 1
    /\ Send(Datagram(n * BLOCKSIZE, BLOCKSIZE, FALSE))
    /\ n' = n + 1
    /\ UNCHANGED step

(* No remainder: the last block carries the done bit.                       *)
SendLastBlock ==
    /\ step = "blocks" /\ n >= loops - 1 /\ remainder = 0
    /\ Send(Datagram(n * BLOCKSIZE, BLOCKSIZE, TRUE))
    /\ n' = n + 1
    /\ step' = "close"

SendNormalBlock ==
    /\ step = "blocks" /\ n >= loops - 1 /\ remainder # 0
    /\ Send(Datagram(n * BLOCKSIZE, BLOCKSIZE, FALSE))
    /\ n' = n + 1
    /\ step' = "remainder"

SendRemainder ==
    /\ step = "remainder"
    /\ Send(Datagram(loops * BLOCKSIZE, remainder, TRUE))
    /\ n' = n + 1
    /\ step' = "close"

Client == SendBlock \/ SendLastBlock \/ SendNormalBlock \/ SendRemainder
-----------------------------------------------------------------------------
(* The network: UDP promises nothing. *)

Fault(kind) ==
    /\ kind \in Faults /\ Len(faults) < MaxFaults
    /\ faults' = Append(faults, kind)

Lose ==
    /\ Fault("lose")
    /\ \E k \in 1..Len(wire) : wire' = RemoveAt(wire, k)
    /\ UNCHANGED <<clientVars, serverVars>>

Duplicate ==
    /\ Fault("duplicate")
    /\ \E k \in 1..Len(wire) : wire' = InsertAt(wire, k, wire[k])
    /\ UNCHANGED <<clientVars, serverVars>>

Reorder ==
    /\ Fault("reorder")
    /\ \E k \in 2..Len(wire) :
         wire' = [wire EXCEPT ![k] = wire[k - 1], ![k - 1] = wire[k]]
    /\ UNCHANGED <<clientVars, serverVars>>
-----------------------------------------------------------------------------
(* The server *)

(* The buffer that the next packet goes to.                                 *)
Wrapped(w) == IF w = NUM_PACKETS THEN 0 ELSE w

(* recvfrom overwrites as much of the buffer as the datagram fills.         *)
Filled(buffer, datagram) ==
    [low |-> datagram.low, high |-> datagram.high,
     data |-> [k \in 1..NUM_ELEMENTS |->
                 IF k <= Len(datagram.data) /\ k <= BLOCKSIZE
                 THEN datagram.data[k] ELSE buffer.data[k]]]

(* Mutation of PayloadLength: the done bit is left in.                      *)
PayloadLengthWithDone(low, high) == low + ByteSpan * high

PayloadLength(low, high) == low + ByteSpan * (high % DoneBit)

(* Mutation of Fits: the check forgets what is in the buffer already.       *)
FitsAlone(length) == length <= Capacity

(* The first packet is not checked: it always fits.                         *)
Fits(length) == received = 0 \/ ~(Len(file_buffer) + length >= Capacity)

(* Mutation of IsLast: > for >=.                                              *)
IsLastAbove(high) == high > DoneBit

IsLast(high) == high >= DoneBit

(* What the loop makes of the buffer, fresh or stale: header, then payload, *)
(* unless it is skipped for want of room.                                   *)
Accept(buffer, low, high) ==
    LET length  == PayloadLength(low, high)
        payload == [k \in 1..length |->
                      IF k <= NUM_ELEMENTS THEN buffer.data[k] ELSE Junk]
    IN  /\ done' = IsLast(high)
        /\ file_buffer' = IF Fits(length) THEN file_buffer \o payload
                                          ELSE file_buffer
        /\ received' = received + 1

Receive ==
    /\ ~done /\ wire # << >>
    /\ LET w      == Wrapped(writer)
           buffer == Filled(input_buffers[w], Head(wire))
       IN  /\ input_buffers' = [input_buffers EXCEPT ![w] = buffer]
           /\ writer' = w + 1
           /\ Accept(buffer, buffer.low, buffer.high)
    /\ wire' = Tail(wire)
    /\ UNCHANGED <<clientVars, faults>>

(* recvfrom fails: get_packet says so, nobody looks at what it returns, and *)
(* the loop decodes what the buffer held before; if it never held anything, *)
(* any header at all.                                                       *)
ReceiveFails ==
    /\ ~done /\ Fault("fail")
    /\ LET w      == Wrapped(writer)
           buffer == input_buffers[w]
       IN  /\ writer' = w + 1
           /\ \E low, high \in 0..(ByteSpan - 1) :
                /\ buffer # Unset => low = buffer.low /\ high = buffer.high
                /\ Accept(buffer, low, high)
    /\ UNCHANGED <<clientVars, wire, input_buffers>>

Next ==
    \/ Client
    \/ Lose \/ Duplicate \/ Reorder
    \/ Receive \/ ReceiveFails

(* The client sends until it has sent all; the server takes what has come.  *)
Spec == Init /\ [][Next]_vars /\ WF_vars(Client) /\ WF_vars(Receive)
-----------------------------------------------------------------------------
(* The reachable values of every variable.  The client sends one datagram   *)
(* per block or remainder, and the first block in any case.                 *)
TypeOK ==
    /\ file_size \in FileSizes
    /\ n \in 0..((IF loops = 0 THEN 1 ELSE loops) + 1)
    /\ step \in {"blocks", "remainder", "close"}
    /\ \A k \in 1..Len(wire) : /\ wire[k].low \in 0..(ByteSpan - 1)
                               /\ wire[k].high \in 0..(ByteSpan - 1)
                               /\ Len(wire[k].data) <= BLOCKSIZE
    /\ DOMAIN input_buffers = 0..(NUM_PACKETS - 1)
    /\ writer \in 0..NUM_PACKETS
    /\ received \in Nat /\ done \in BOOLEAN

File == [k \in 1..file_size |-> k]

(* When the server stops receiving it holds the file.                       *)
ReceivedWhole == done => file_buffer = File

(* Nothing has gone wrong, and nothing was too large for file_buffer.       *)
Delivered == faults = << >> /\ file_size < Capacity

(* And it does stop receiving, if the network delivers.                     *)
EventuallyReceived == <>(Delivered => done /\ file_buffer = File)

(* What has been received so far is the beginning of the file, unless the   *)
(* network or a receive failed.                                             *)
ReceivedPrefix == Delivered => IsPrefix(file_buffer, File)

(* file_buffer never overflows, however many packets come.                  *)
WithinBuffer == Len(file_buffer) < Capacity

(* Whatever the network loses, repeats or swaps and whatever is skipped for *)
(* want of room, what is in file_buffer came in whole packets: no packet    *)
(* brings stale bytes along from the buffer it shares with an earlier one.  *)
(* Only failed receives can bring bytes that no packet ever had.            *)
PacketsWhole ==
    \A k \in 1..Len(file_buffer) :
      LET b      == file_buffer[k]
          opens  == b % BLOCKSIZE = 1 % BLOCKSIZE
          closes == b % BLOCKSIZE = 0 \/ b = file_size
      IN  IF b = Junk
          THEN "fail" \in ToSet(faults)
          ELSE /\ b \in 1..file_size
               /\ ~opens => k > 1 /\ file_buffer[k - 1] = b - 1
               /\ ~closes => k < Len(file_buffer) /\ file_buffer[k + 1] = b + 1

(* A failed receive stops the server ("crash"): nothing gets into           *)
(* file_buffer that no datagram has brought.                                *)
NoPacketNoBytes == Len(file_buffer) <= BLOCKSIZE * (received - Len(faults))
=============================================================================

--------------------------- MODULE TransferProofs ---------------------------
(***************************************************************************)
(* Proofs about Transfer, for every block size, buffer size and file, and  *)
(* whatever the network and recvfrom do: the variables keep their types    *)
(* and file_buffer never overflows; and for files of at least one block,   *)
(* what the server receives is the file's.                                 *)
(***************************************************************************)
EXTENDS Transfer, SequenceTheorems, TLAPS

HeaderByte == 0..(ByteSpan - 1)
Datum      == Nat \cup {Junk}
Payload    == {data \in Seq(Datum) : Len(data) <= BLOCKSIZE}
Packet     == [low : HeaderByte, high : HeaderByte, data : Payload]
Content    == [1..NUM_ELEMENTS -> Datum]
Buffer     == [low : HeaderByte, high : HeaderByte, data : Content] \cup {Unset}

(* The client has sent no more than it has to.                              *)
ClientInv ==
    /\ file_size \in FileSizes
    /\ step \in {"blocks", "remainder", "close"}
    /\ n \in Nat
    /\ step = "blocks" => n <= (IF loops = 0 THEN 0 ELSE loops - 1)
    /\ step = "remainder" => n <= (IF loops = 0 THEN 1 ELSE loops)
    /\ n <= (IF loops = 0 THEN 1 ELSE loops) + 1

WireInv == wire \in Seq(Packet)

ServerInv ==
    /\ input_buffers \in [0..(NUM_PACKETS - 1) -> Buffer]
    /\ writer \in 0..NUM_PACKETS
    /\ received \in Nat /\ done \in BOOLEAN
    /\ file_buffer \in Seq(Datum)
    /\ received = 0 => file_buffer = << >>
    /\ WithinBuffer

Inv == ClientInv /\ WireInv /\ ServerInv
-----------------------------------------------------------------------------
(* Arithmetic *)

LEMMA Quotient ==
  ASSUME NEW a \in Nat, NEW b \in Nat, b > 0
  PROVE  a \div b \in Nat
OBVIOUS

LEMMA Remainder ==
  ASSUME NEW a \in Nat, NEW b \in Nat, b > 0
  PROVE  a % b \in 0..(b - 1)
OBVIOUS

LEMMA QuotientBound ==
  ASSUME NEW a \in Nat, NEW b \in Nat, NEW d \in Nat, b > 0, a < b * d
  PROVE  a \div b < d
OBVIOUS

LEMMA ProductMonotone ==
  ASSUME NEW a \in Nat, NEW b \in Nat, NEW d \in Nat, a <= b
  PROVE  d * a <= d * b
OBVIOUS

LEMMA FunctionIsSeq ==
  ASSUME NEW S, NEW size \in Nat, NEW f \in [1..size -> S]
  PROVE  f \in Seq(S) /\ Len(f) = size
<1>1. f \in Seq(S)
  BY SeqDef, Zenon
<1> QED
  BY <1>1

(* The width of a header: a length below its done bit fits its two bytes.   *)
LEMMA HeaderFits ==
  ASSUME NEW size \in Nat, size <= BLOCKSIZE, NEW last \in BOOLEAN
  PROVE  /\ size % ByteSpan \in HeaderByte
         /\ size \div ByteSpan + (IF last THEN DoneBit ELSE 0) \in HeaderByte
<1>1. ByteSpan \in Nat /\ ByteSpan = 2 * DoneBit /\ DoneBit > 0 /\ DoneBit \in Nat
  BY Quotient, TransferAssumption DEF DoneBit
<1>2. ByteSpan * DoneBit \in Nat /\ BLOCKSIZE \in Nat /\ BLOCKSIZE < ByteSpan * DoneBit
  BY <1>1, TransferAssumption
<1>3. size < ByteSpan * DoneBit
  BY <1>2
<1>4. size \div ByteSpan < DoneBit /\ size \div ByteSpan \in Nat
  BY <1>1, <1>3, QuotientBound, Quotient
<1>5. size % ByteSpan \in 0..(ByteSpan - 1)
  BY <1>1, Remainder
<1> QED
  BY <1>1, <1>4, <1>5 DEF HeaderByte

(* What a header can say, the first packet may bring: there is room for it. *)
LEMMA LengthBound ==
  ASSUME NEW low \in HeaderByte, NEW high \in HeaderByte
  PROVE  PayloadLength(low, high) \in Nat /\ PayloadLength(low, high) < Capacity
<1>1. ByteSpan \in Nat /\ DoneBit > 0 /\ DoneBit \in Nat /\ ByteSpan * DoneBit <= Capacity
  BY Quotient, TransferAssumption DEF DoneBit
<1>2. low \in Nat /\ high \in Nat /\ low < ByteSpan
  BY <1>1 DEF HeaderByte
<1> DEFINE m == high % DoneBit
<1>3. m \in 0..(DoneBit - 1)
  BY <1>1, <1>2, Remainder
<1> HIDE DEF m
<1>4. ByteSpan * m <= ByteSpan * (DoneBit - 1)
  BY <1>1, <1>3, ProductMonotone
<1>5. ByteSpan * (DoneBit - 1) = ByteSpan * DoneBit - ByteSpan
  BY <1>1
<1>6. low + ByteSpan * m \in Nat
  BY <1>1, <1>2, <1>3
<1>7. low + ByteSpan * m < Capacity
  BY <1>1, <1>2, <1>3, <1>4, <1>5, TransferAssumption
<1> QED
  BY <1>6, <1>7 DEF m, PayloadLength
-----------------------------------------------------------------------------
(* The client *)

LEMMA ClientFacts ==
  ASSUME file_size \in FileSizes
  PROVE  /\ file_size \in Nat /\ BLOCKSIZE \in Nat /\ BLOCKSIZE > 0
         /\ loops \in Nat /\ remainder \in Nat /\ remainder < BLOCKSIZE
<1>1. file_size \in Nat /\ BLOCKSIZE \in Nat /\ BLOCKSIZE > 0
  BY TransferAssumption
<1>2. loops \in Nat
  BY <1>1, Quotient DEF loops
<1>3. remainder \in 0..(BLOCKSIZE - 1)
  BY <1>1, Remainder DEF remainder
<1> QED
  BY <1>1, <1>2, <1>3

LEMMA DatagramType ==
  ASSUME file_size \in Nat, NEW start \in Nat, NEW size \in Nat, size <= BLOCKSIZE,
         NEW last \in BOOLEAN
  PROVE  Datagram(start, size, last) \in Packet
<1>1. Bytes(start, size) \in [1..size -> Datum]
  BY DEF Bytes, Datum
<1>2. Bytes(start, size) \in Payload
  BY <1>1, FunctionIsSeq DEF Payload
<1> QED
  BY <1>2, HeaderFits DEF Datagram, Packet

LEMMA SendStep ==
  ASSUME WireInv, NEW datagram \in Packet, Send(datagram)
  PROVE  WireInv' /\ UNCHANGED <<faults, file_size, serverVars>>
BY AppendProperties DEF WireInv, Send

LEMMA ClientStep ==
  ASSUME Inv, Client
  PROVE  ClientInv' /\ WireInv' /\ UNCHANGED serverVars
<1>1. /\ file_size \in Nat /\ BLOCKSIZE \in Nat /\ BLOCKSIZE > 0
      /\ loops \in Nat /\ remainder \in Nat /\ remainder < BLOCKSIZE
  BY ClientFacts DEF Inv, ClientInv
<1>2. file_size' = file_size /\ loops' = loops
  BY DEF Client, SendBlock, SendLastBlock, SendNormalBlock, SendRemainder, Send, loops
<1>3. n \in Nat /\ n * BLOCKSIZE \in Nat /\ loops * BLOCKSIZE \in Nat
      /\ BLOCKSIZE <= BLOCKSIZE /\ remainder <= BLOCKSIZE
  BY <1>1 DEF Inv, ClientInv
<1>4. WireInv /\ file_size \in FileSizes
  BY DEF Inv, ClientInv
<1>5. CASE SendBlock
  <2>1. Send(Datagram(n * BLOCKSIZE, BLOCKSIZE, FALSE))
    BY <1>5 DEF SendBlock
  <2>2. Datagram(n * BLOCKSIZE, BLOCKSIZE, FALSE) \in Packet
    BY <1>1, <1>3, DatagramType
  <2>3. WireInv' /\ UNCHANGED serverVars
    BY <1>4, <2>1, <2>2, SendStep
  <2>4. n < loops - 1 /\ n' = n + 1 /\ step = "blocks" /\ step' = step
    BY <1>5 DEF SendBlock
  <2> QED
    BY <1>1, <1>2, <1>3, <1>4, <2>3, <2>4 DEF ClientInv
<1>6. CASE SendLastBlock
  <2>1. Send(Datagram(n * BLOCKSIZE, BLOCKSIZE, TRUE))
    BY <1>6 DEF SendLastBlock
  <2>2. Datagram(n * BLOCKSIZE, BLOCKSIZE, TRUE) \in Packet
    BY <1>1, <1>3, DatagramType
  <2>3. WireInv' /\ UNCHANGED serverVars
    BY <1>4, <2>1, <2>2, SendStep
  <2>4. n' = n + 1 /\ step = "blocks" /\ step' = "close"
    BY <1>6 DEF SendLastBlock
  <2>5. n <= (IF loops = 0 THEN 0 ELSE loops - 1)
    BY <2>4 DEF Inv, ClientInv
  <2> QED
    BY <1>1, <1>2, <1>3, <1>4, <2>3, <2>4, <2>5 DEF ClientInv
<1>7. CASE SendNormalBlock
  <2>1. Send(Datagram(n * BLOCKSIZE, BLOCKSIZE, FALSE))
    BY <1>7 DEF SendNormalBlock
  <2>2. Datagram(n * BLOCKSIZE, BLOCKSIZE, FALSE) \in Packet
    BY <1>1, <1>3, DatagramType
  <2>3. WireInv' /\ UNCHANGED serverVars
    BY <1>4, <2>1, <2>2, SendStep
  <2>4. n' = n + 1 /\ step = "blocks" /\ step' = "remainder"
    BY <1>7 DEF SendNormalBlock
  <2>5. n <= (IF loops = 0 THEN 0 ELSE loops - 1)
    BY <2>4 DEF Inv, ClientInv
  <2> QED
    BY <1>1, <1>2, <1>3, <1>4, <2>3, <2>4, <2>5 DEF ClientInv
<1>8. CASE SendRemainder
  <2>1. Send(Datagram(loops * BLOCKSIZE, remainder, TRUE))
    BY <1>8 DEF SendRemainder
  <2>2. Datagram(loops * BLOCKSIZE, remainder, TRUE) \in Packet
    BY <1>1, <1>3, DatagramType
  <2>3. WireInv' /\ UNCHANGED serverVars
    BY <1>4, <2>1, <2>2, SendStep
  <2>4. n' = n + 1 /\ step = "remainder" /\ step' = "close"
    BY <1>8 DEF SendRemainder
  <2>5. n <= (IF loops = 0 THEN 1 ELSE loops)
    BY <2>4 DEF Inv, ClientInv
  <2> QED
    BY <1>1, <1>2, <1>3, <1>4, <2>3, <2>4, <2>5 DEF ClientInv
<1> QED
  BY <1>5, <1>6, <1>7, <1>8 DEF Client
-----------------------------------------------------------------------------
(* The network *)

LEMMA NetworkStep ==
  ASSUME NEW S, wire \in Seq(S), Lose \/ Duplicate \/ Reorder
  PROVE  wire' \in Seq(S) /\ UNCHANGED <<clientVars, serverVars>>
<1>1. CASE Lose
  <2>1. PICK k \in 1..Len(wire) : wire' = RemoveAt(wire, k)
    BY <1>1 DEF Lose
  <2>2. wire' \in Seq(S)
    BY <2>1 DEF RemoveAt
  <2> QED
    BY <1>1, <2>2 DEF Lose
<1>2. CASE Duplicate
  <2>1. PICK k \in 1..Len(wire) : wire' = InsertAt(wire, k, wire[k])
    BY <1>2 DEF Duplicate
  <2>2. wire' \in Seq(S)
    BY <2>1 DEF InsertAt
  <2> QED
    BY <1>2, <2>2 DEF Duplicate
<1>3. CASE Reorder
  <2>1. PICK k \in 2..Len(wire) :
          wire' = [wire EXCEPT ![k] = wire[k - 1], ![k - 1] = wire[k]]
    BY <1>3 DEF Reorder
  <2>2. Len(wire) \in Nat /\ k \in 1..Len(wire) /\ k - 1 \in 1..Len(wire)
    BY LenProperties
  <2>3. wire[k] \in S /\ wire[k - 1] \in S
    BY <2>2, ElementOfSeq
  <2> DEFINE half == [wire EXCEPT ![k] = wire[k - 1]]
  <2>4. half \in Seq(S) /\ Len(half) = Len(wire)
    BY <2>2, <2>3, ExceptSeq
  <2>5. wire' = [half EXCEPT ![k - 1] = wire[k]]
    BY <2>1
  <2> HIDE DEF half
  <2>6. wire' \in Seq(S)
    BY <2>2, <2>3, <2>4, <2>5, ExceptSeq
  <2> QED
    BY <1>3, <2>6 DEF Reorder
<1> QED
  BY <1>1, <1>2, <1>3
-----------------------------------------------------------------------------
(* The server *)

LEMMA AcceptStep ==
  ASSUME ServerInv, NEW buffer, NEW low \in HeaderByte, NEW high \in HeaderByte,
         buffer.data \in Content, Accept(buffer, low, high)
  PROVE  /\ file_buffer' \in Seq(Datum) /\ WithinBuffer'
         /\ received' \in Nat /\ received' # 0 /\ done' \in BOOLEAN
<1> DEFINE length  == PayloadLength(low, high)
           payload == [k \in 1..length |->
                         IF k <= NUM_ELEMENTS THEN buffer.data[k] ELSE Junk]
<1>1. /\ done' = IsLast(high) /\ received' = received + 1
      /\ file_buffer' = IF Fits(length) THEN file_buffer \o payload ELSE file_buffer
  BY DEF Accept
<1>2. length \in Nat /\ length < Capacity
  BY LengthBound
<1>3. payload \in [1..length -> Datum]
  <2> SUFFICES ASSUME NEW k \in 1..length
               PROVE  (IF k <= NUM_ELEMENTS THEN buffer.data[k] ELSE Junk) \in Datum
    OBVIOUS
  <2>1. k \in Nat /\ k > 0 /\ NUM_ELEMENTS \in Nat
    <3> HIDE DEF length
    <3> QED
      BY <1>2, TransferAssumption
  <2> QED
    BY <2>1 DEF Content, Datum
<1>4. Capacity \in Nat /\ Len(file_buffer) \in Nat
  BY TransferAssumption, LenProperties DEF ServerInv
<1>5. done' \in BOOLEAN /\ received' \in Nat /\ received' # 0
  BY <1>1 DEF ServerInv, IsLast
<1> HIDE DEF payload, length
<1>6. payload \in Seq(Datum) /\ Len(payload) = length
  BY <1>2, <1>3, FunctionIsSeq
<1>7. CASE ~Fits(length)
  BY <1>1, <1>5, <1>7 DEF ServerInv, WithinBuffer
<1>8. CASE Fits(length)
  <2>1. Len(file_buffer) + length < Capacity
    BY <1>2, <1>4, <1>8 DEF ServerInv, Fits
  <2>2. /\ file_buffer \o payload \in Seq(Datum)
        /\ Len(file_buffer \o payload) = Len(file_buffer) + length
    BY <1>6, ConcatProperties DEF ServerInv
  <2> QED
    BY <1>1, <1>5, <1>8, <2>1, <2>2 DEF WithinBuffer
<1> QED
  BY <1>7, <1>8

LEMMA NextWriter ==
  ASSUME ServerInv
  PROVE  Wrapped(writer) \in 0..(NUM_PACKETS - 1) /\ Wrapped(writer) + 1 \in 0..NUM_PACKETS
BY TransferAssumption DEF ServerInv, Wrapped

LEMMA BufferData ==
  ASSUME NEW buffer \in Buffer
  PROVE  buffer.data \in Content
BY DEF Buffer, Unset, Content, Datum

LEMMA FilledType ==
  ASSUME NEW buffer \in Buffer, NEW datagram \in Packet
  PROVE  /\ Filled(buffer, datagram) \in Buffer
         /\ Filled(buffer, datagram).low \in HeaderByte
         /\ Filled(buffer, datagram).high \in HeaderByte
<1>1. buffer.data \in Content
  BY BufferData
<1>2. datagram.data \in Seq(Datum) /\ Len(datagram.data) \in Nat
  BY LenProperties DEF Packet, Payload
<1>3. ASSUME NEW k \in 1..NUM_ELEMENTS
      PROVE  (IF k <= Len(datagram.data) /\ k <= BLOCKSIZE
              THEN datagram.data[k] ELSE buffer.data[k]) \in Datum
  <2>1. buffer.data[k] \in Datum
    BY <1>1 DEF Content
  <2>2. k \in Nat /\ k > 0
    BY TransferAssumption
  <2>3. CASE k <= Len(datagram.data)
    <3>1. k \in 1..Len(datagram.data)
      BY <1>2, <2>2, <2>3
    <3>2. datagram.data[k] \in Datum
      BY <1>2, <3>1, ElementOfSeq
    <3> QED
      BY <2>1, <3>2
  <2> QED
    BY <2>1, <2>3
<1> QED
  BY <1>3 DEF Filled, Buffer, Packet, Content

LEMMA ReceiveStep ==
  ASSUME Inv, Receive
  PROVE  ServerInv' /\ WireInv' /\ UNCHANGED clientVars
<1> DEFINE w      == Wrapped(writer)
           buffer == Filled(input_buffers[w], Head(wire))
<1>1. w \in 0..(NUM_PACKETS - 1) /\ w + 1 \in 0..NUM_PACKETS
  BY NextWriter DEF Inv
<1>2. /\ wire # << >> /\ wire' = Tail(wire) /\ UNCHANGED clientVars
      /\ input_buffers' = [input_buffers EXCEPT ![w] = buffer]
      /\ writer' = w + 1
      /\ Accept(buffer, buffer.low, buffer.high)
  BY DEF Receive
<1>3. Head(wire) \in Packet /\ Tail(wire) \in Seq(Packet)
  BY <1>2, HeadTailProperties DEF Inv, WireInv
<1>4. input_buffers[w] \in Buffer
  BY <1>1 DEF Inv, ServerInv
<1> HIDE DEF w
<1>5. buffer \in Buffer /\ buffer.low \in HeaderByte /\ buffer.high \in HeaderByte
  BY <1>3, <1>4, FilledType
<1> HIDE DEF buffer
<1>6. input_buffers' \in [0..(NUM_PACKETS - 1) -> Buffer]
  BY <1>1, <1>2, <1>5 DEF Inv, ServerInv
<1>7. /\ file_buffer' \in Seq(Datum) /\ WithinBuffer'
      /\ received' \in Nat /\ received' # 0 /\ done' \in BOOLEAN
  BY <1>2, <1>5, BufferData, AcceptStep DEF Inv
<1> QED
  BY <1>1, <1>2, <1>3, <1>6, <1>7 DEF ServerInv, WireInv

LEMMA ReceiveFailsStep ==
  ASSUME Inv, ReceiveFails
  PROVE  ServerInv' /\ UNCHANGED <<clientVars, wire>>
<1> DEFINE w == Wrapped(writer)
<1>1. w \in 0..(NUM_PACKETS - 1) /\ w + 1 \in 0..NUM_PACKETS
  BY NextWriter DEF Inv
<1>2. PICK low, high \in HeaderByte : Accept(input_buffers[w], low, high)
  BY DEF ReceiveFails, HeaderByte
<1>3. writer' = w + 1 /\ UNCHANGED <<clientVars, wire, input_buffers>>
  BY DEF ReceiveFails
<1>4. input_buffers[w].data \in Content
  BY <1>1, BufferData DEF Inv, ServerInv
<1> HIDE DEF w
<1>5. /\ file_buffer' \in Seq(Datum) /\ WithinBuffer'
      /\ received' \in Nat /\ received' # 0 /\ done' \in BOOLEAN
  BY <1>2, <1>4, AcceptStep DEF Inv
<1> QED
  BY <1>1, <1>3, <1>5 DEF Inv, ServerInv
-----------------------------------------------------------------------------
LEMMA InitInv == Init => Inv
<1> SUFFICES ASSUME Init PROVE Inv
  OBVIOUS
<1>1. file_size \in FileSizes /\ loops \in Nat
  BY ClientFacts DEF Init
<1>2. ClientInv
  BY <1>1 DEF Init, ClientInv
<1>3. Capacity > 0 /\ Capacity \in Nat
  <2>1. ByteSpan \in Nat /\ DoneBit \in Nat /\ DoneBit > 0 /\ ByteSpan > 0
    BY Quotient, TransferAssumption DEF DoneBit
  <2>2. 0 \in HeaderByte
    BY <2>1 DEF HeaderByte
  <2>3. PayloadLength(0, 0) \in Nat /\ PayloadLength(0, 0) < Capacity
    BY <2>2, LengthBound
  <2> QED
    BY <2>3, TransferAssumption
<1>4. WireInv
  BY DEF Init, WireInv
<1>5. ServerInv
  <2>1. file_buffer \in Seq(Datum) /\ Len(file_buffer) = 0
    BY EmptySeq DEF Init
  <2>2. input_buffers \in [0..(NUM_PACKETS - 1) -> Buffer]
    BY DEF Init, Buffer
  <2>3. writer \in 0..NUM_PACKETS /\ received = 0 /\ done = FALSE
    BY TransferAssumption DEF Init
  <2> QED
    <3>1. file_buffer = << >> /\ WithinBuffer
      BY <1>3, <2>1 DEF Init, WithinBuffer
    <3> QED
      BY <2>1, <2>2, <2>3, <3>1 DEF ServerInv
<1> QED
  BY <1>2, <1>4, <1>5 DEF Inv

LEMMA StepInv == Inv /\ [Next]_vars => Inv'
<1> SUFFICES ASSUME Inv, [Next]_vars PROVE Inv'
  OBVIOUS
<1> USE DEF Inv
<1>1. CASE Client
  BY <1>1, ClientStep DEF serverVars, ServerInv, WithinBuffer
<1>2. CASE Lose \/ Duplicate \/ Reorder
  BY <1>2, NetworkStep DEF clientVars, serverVars, ClientInv, WireInv, ServerInv,
                           WithinBuffer, loops
<1>3. CASE Receive
  BY <1>3, ReceiveStep DEF clientVars, ClientInv, loops
<1>4. CASE ReceiveFails
  BY <1>4, ReceiveFailsStep DEF clientVars, ClientInv, WireInv, loops
<1>5. CASE UNCHANGED vars
  BY <1>5 DEF vars, clientVars, serverVars, ClientInv, WireInv, ServerInv,
              WithinBuffer, loops
<1> QED
  BY <1>1, <1>2, <1>3, <1>4, <1>5 DEF Next

LEMMA Invariance == Spec => []Inv
BY InitInv, StepInv, PTL DEF Spec
-----------------------------------------------------------------------------
(* Every variable keeps its type: the client never sends a block too many,  *)
(* and writer never leaves the ring of input buffers.                       *)
THEOREM TypeCorrect == Spec => []TypeOK
<1>1. Inv => TypeOK
  <2> SUFFICES ASSUME Inv PROVE TypeOK
    OBVIOUS
  <2>1. ASSUME NEW k \in 1..Len(wire)
        PROVE  wire[k] \in Packet
    BY ElementOfSeq DEF Inv, WireInv
  <2>2. loops \in Nat
    BY ClientFacts DEF Inv, ClientInv
  <2>3. n \in 0..((IF loops = 0 THEN 1 ELSE loops) + 1)
    BY <2>2 DEF Inv, ClientInv
  <2> QED
    BY <2>1, <2>3 DEF Inv, ClientInv, ServerInv, TypeOK, Packet, Payload, HeaderByte
<1> QED
  BY <1>1, Invariance, PTL

(* Lost, repeated, swapped and failed packets, with any header at all: what *)
(* is copied to file_buffer stays within it.                                *)
THEOREM NeverOverflows == Spec => []WithinBuffer
<1>1. Inv => WithinBuffer
  BY DEF Inv, ServerInv
<1> QED
  BY <1>1, Invariance, PTL
-----------------------------------------------------------------------------
(* What the server receives, for files of at least one block: it comes in   *)
(* whole packets whatever the network does, and it is the beginning of the  *)
(* file as long as the network does nothing.  (For a smaller file neither   *)
(* holds: the client sends a block that it has not.)                        *)

NoSmallFile == \A size \in FileSizes : size >= BLOCKSIZE

(* The client's datagrams, numbered from 0.                                 *)
Count       == loops + (IF remainder = 0 THEN 0 ELSE 1)
SizeOf(m)   == IF m < loops THEN BLOCKSIZE ELSE remainder
Numbered(m) == Datagram(m * BLOCKSIZE, SizeOf(m), m = Count - 1)

(* The client is at number n, and sends none but its own.                   *)
SendingInv ==
    /\ step = "blocks" => n <= loops - 1
    /\ step = "remainder" => n = loops /\ remainder # 0
    /\ n <= Count
    /\ wire \in Seq({Numbered(m) : m \in 0..(Count - 1)})

(* An input buffer that has been filled holds all of the packet that its    *)
(* header is of, whatever else is behind that.                              *)
Holds(buffer, m) ==
    /\ buffer.low = Numbered(m).low /\ buffer.high = Numbered(m).high
    /\ \A k \in 1..SizeOf(m) : buffer.data[k] = m * BLOCKSIZE + k

BuffersInv ==
    \A w \in 0..(NUM_PACKETS - 1) :
      \/ input_buffers[w] = Unset
      \/ \E m \in 0..(Count - 1) : Holds(input_buffers[w], m)

(* How much of the file the first r datagrams bring.                        *)
Upto(r) == IF r < Count THEN r * BLOCKSIZE ELSE file_size

(* As long as nothing goes wrong the server takes one after the other.      *)
InTurn ==
    faults = << >> =>
      /\ received <= n /\ Len(wire) = n - received
      /\ \A k \in 1..Len(wire) : wire[k] = Numbered(received + k - 1)
      /\ file_size < Capacity => file_buffer = [k \in 1..Upto(received) |-> k]
      /\ done => received = Count

WholeInv ==
    /\ Inv /\ SendingInv /\ BuffersInv /\ InTurn
    /\ faults \in Seq(Faults)
    /\ PacketsWhole
-----------------------------------------------------------------------------
(* Arithmetic *)

LEMMA Division ==
  ASSUME NEW a \in Nat, NEW b \in Nat, b > 0
  PROVE  a = b * (a \div b) + (a % b)
OBVIOUS

(* There is one way to take a number of blocks and a rest that is smaller.  *)
LEMMA RestOf ==
  ASSUME NEW q \in Nat, NEW b \in Nat, b > 0, NEW r \in 0..(b - 1)
  PROVE  (q * b + r) % b = r
<1> DEFINE a == q * b + r
<1>1. a \in Nat /\ a = b * q + r
  OBVIOUS
<1> HIDE DEF a
<1>2. a % b = r
  BY <1>1
<1> QED
  BY <1>2 DEF a

(* The first byte of a block opens it and the last one closes it.           *)
LEMMA Opens ==
  ASSUME NEW q \in Nat, NEW b \in Nat, b > 0
  PROVE  (q * b + 1) % b = 1 % b /\ (q * b + b) % b = 0
<1>1. CASE b = 1
  BY <1>1
<1>2. CASE b > 1
  <2>1. 1 \in 0..(b - 1) /\ 0 \in 0..(b - 1) /\ q + 1 \in Nat
    BY <1>2
  <2>2. (q * b + 1) % b = 1 /\ ((q + 1) * b + 0) % b = 0
    BY <2>1, RestOf
  <2>3. (0 * b + 1) % b = 1
    BY <2>1, RestOf
  <2>4. (q + 1) * b + 0 = q * b + b /\ 0 * b + 1 = 1
    OBVIOUS
  <2> QED
    BY <2>2, <2>3, <2>4
<1> QED
  BY <1>1, <1>2
-----------------------------------------------------------------------------
(* The datagrams *)

LEMMA Parts ==
  ASSUME NoSmallFile, file_size \in FileSizes
  PROVE  /\ BLOCKSIZE \in Nat /\ BLOCKSIZE > 0 /\ file_size \in Nat
         /\ loops \in Nat /\ loops > 0
         /\ remainder \in Nat /\ remainder < BLOCKSIZE
         /\ file_size = loops * BLOCKSIZE + remainder
         /\ Count \in Nat /\ Count > 0
         /\ remainder = 0 => Count = loops
         /\ remainder # 0 => Count = loops + 1
<1>1. /\ file_size \in Nat /\ BLOCKSIZE \in Nat /\ BLOCKSIZE > 0
      /\ loops \in Nat /\ remainder \in Nat /\ remainder < BLOCKSIZE
      /\ file_size >= BLOCKSIZE
  BY ClientFacts DEF NoSmallFile
<1>2. file_size = BLOCKSIZE * loops + remainder
  BY <1>1, Division DEF loops, remainder
<1>3. BLOCKSIZE * loops = loops * BLOCKSIZE
  BY <1>1
<1>4. loops # 0
  BY <1>1, <1>2
<1> QED
  BY <1>1, <1>2, <1>3, <1>4 DEF Count

LEMMA Part ==
  ASSUME NoSmallFile, file_size \in FileSizes, NEW m \in 0..(Count - 1)
  PROVE  /\ m * BLOCKSIZE \in Nat /\ SizeOf(m) \in 1..BLOCKSIZE
         /\ m * BLOCKSIZE + SizeOf(m) <= file_size
         /\ SizeOf(m) = BLOCKSIZE \/ m * BLOCKSIZE + SizeOf(m) = file_size
         /\ Upto(m) = m * BLOCKSIZE
         /\ Upto(m + 1) = m * BLOCKSIZE + SizeOf(m)
<1>1. /\ BLOCKSIZE \in Nat /\ BLOCKSIZE > 0 /\ file_size \in Nat
      /\ loops \in Nat /\ loops > 0 /\ remainder \in Nat /\ remainder < BLOCKSIZE
      /\ file_size = loops * BLOCKSIZE + remainder /\ Count \in Nat
      /\ remainder = 0 => Count = loops
      /\ remainder # 0 => Count = loops + 1
  BY Parts
<1>2. m \in Nat /\ m < Count /\ m * BLOCKSIZE \in Nat
  BY <1>1
<1>3. Upto(m) = m * BLOCKSIZE
  BY <1>2 DEF Upto
<1>4. CASE m < loops
  <2>1. SizeOf(m) = BLOCKSIZE
    BY <1>4 DEF SizeOf
  <2>2. (m + 1) * BLOCKSIZE = m * BLOCKSIZE + BLOCKSIZE
    BY <1>1, <1>2
  <2>3. BLOCKSIZE * (m + 1) <= BLOCKSIZE * loops
    BY <1>1, <1>2, <1>4, ProductMonotone
  <2>4. (m + 1) * BLOCKSIZE <= loops * BLOCKSIZE
    BY <1>1, <1>2, <2>3
  <2>5. Upto(m + 1) = (m + 1) * BLOCKSIZE
    <3>1. CASE m + 1 < Count
      BY <3>1 DEF Upto
    <3>2. CASE m + 1 = Count
      <4>1. remainder = 0 /\ m + 1 = loops
        BY <1>1, <1>2, <1>4, <3>2
      <4>2. file_size = (m + 1) * BLOCKSIZE
        BY <1>1, <4>1
      <4> QED
        BY <1>1, <3>2, <4>2 DEF Upto
    <3> QED
      BY <1>1, <1>2, <3>1, <3>2
  <2> QED
    BY <1>1, <1>2, <1>3, <2>1, <2>2, <2>4, <2>5
<1>5. CASE m = loops
  <2>1. remainder # 0 /\ Count = m + 1
    BY <1>1, <1>2, <1>5
  <2>2. SizeOf(m) = remainder /\ Upto(m + 1) = file_size
    BY <1>1, <1>5, <2>1 DEF SizeOf, Upto
  <2>3. file_size = m * BLOCKSIZE + remainder
    BY <1>1, <1>5
  <2> QED
    BY <1>1, <1>2, <1>3, <2>1, <2>2, <2>3
<1> QED
  BY <1>1, <1>2, <1>4, <1>5

(* The two bytes of a header tell length and done bit apart again.          *)
LEMMA HeaderSays ==
  ASSUME NEW size \in Nat, size <= BLOCKSIZE, NEW last \in BOOLEAN,
         NEW low, low = size % ByteSpan,
         NEW high, high = size \div ByteSpan + (IF last THEN DoneBit ELSE 0)
  PROVE  PayloadLength(low, high) = size /\ (IsLast(high) <=> last)
<1>1. ByteSpan \in Nat /\ ByteSpan > 0 /\ DoneBit > 0 /\ DoneBit \in Nat
  BY Quotient, TransferAssumption DEF DoneBit
<1>2. ByteSpan * DoneBit \in Nat /\ BLOCKSIZE \in Nat /\ BLOCKSIZE < ByteSpan * DoneBit
  BY <1>1, TransferAssumption
<1> DEFINE q == size \div ByteSpan
<1>3. q < DoneBit /\ q \in Nat /\ size = ByteSpan * q + low /\ low \in Nat
  BY <1>1, <1>2, QuotientBound, Quotient, Division, Remainder
<1>4. high = q + (IF last THEN DoneBit ELSE 0)
  OBVIOUS
<1> HIDE DEF q
<1>5. high % DoneBit = q
  <2>1. (0 * DoneBit + q) % DoneBit = q /\ (1 * DoneBit + q) % DoneBit = q
    BY <1>1, <1>3, RestOf
  <2>2. 0 * DoneBit + q = q /\ 1 * DoneBit + q = q + DoneBit
    BY <1>1, <1>3
  <2>3. high = q \/ high = q + DoneBit
    BY <1>1, <1>3, <1>4
  <2> QED
    BY <2>1, <2>2, <2>3
<1>6. PayloadLength(low, high) = size
  BY <1>1, <1>3, <1>5 DEF PayloadLength
<1> QED
  BY <1>1, <1>3, <1>4, <1>6 DEF IsLast

LEMMA NumberedSays ==
  ASSUME NoSmallFile, file_size \in FileSizes, NEW m \in 0..(Count - 1)
  PROVE  /\ Numbered(m) \in Packet
         /\ Len(Numbered(m).data) = SizeOf(m)
         /\ \A k \in 1..SizeOf(m) : Numbered(m).data[k] = m * BLOCKSIZE + k
         /\ PayloadLength(Numbered(m).low, Numbered(m).high) = SizeOf(m)
         /\ IsLast(Numbered(m).high) <=> m = Count - 1
<1>1. /\ m * BLOCKSIZE \in Nat /\ SizeOf(m) \in Nat /\ SizeOf(m) <= BLOCKSIZE
      /\ m * BLOCKSIZE + SizeOf(m) <= file_size /\ file_size \in Nat
  BY Part, Parts
<1> DEFINE last == m = Count - 1
<1>2. Numbered(m) \in Packet
  BY <1>1, DatagramType DEF Numbered
<1>3. /\ Numbered(m).low = SizeOf(m) % ByteSpan
      /\ Numbered(m).high = SizeOf(m) \div ByteSpan + (IF last THEN DoneBit ELSE 0)
      /\ Numbered(m).data = Bytes(m * BLOCKSIZE, SizeOf(m))
  BY DEF Numbered, Datagram
<1>4. last \in BOOLEAN
  OBVIOUS
<1> HIDE DEF last
<1>5. /\ PayloadLength(Numbered(m).low, Numbered(m).high) = SizeOf(m)
      /\ IsLast(Numbered(m).high) <=> last
  BY <1>1, <1>3, <1>4, HeaderSays
<1>6. ASSUME NEW k \in 1..SizeOf(m)
      PROVE  Numbered(m).data[k] = m * BLOCKSIZE + k
  BY <1>1, <1>3 DEF Bytes
<1>7. Len(Numbered(m).data) = SizeOf(m)
  <2>1. Bytes(m * BLOCKSIZE, SizeOf(m)) \in [1..SizeOf(m) -> Datum]
    BY <1>1 DEF Bytes, Datum
  <2> QED
    BY <1>1, <1>3, <2>1, FunctionIsSeq
<1> QED
  BY <1>2, <1>5, <1>6, <1>7 DEF last

(* The file and its datagrams never change.                                 *)
LEMMA FileStays ==
  ASSUME file_size' = file_size
  PROVE  /\ loops' = loops /\ remainder' = remainder /\ Count' = Count
         /\ \A m : /\ SizeOf(m)' = SizeOf(m) /\ Numbered(m)' = Numbered(m)
                   /\ Upto(m)' = Upto(m)
<1>1. loops' = loops /\ remainder' = remainder
  BY DEF loops, remainder
<1>2. Count' = Count
  BY <1>1 DEF Count
<1> QED
  BY <1>1, <1>2 DEF SizeOf, Upto, Numbered, Datagram, Bytes

(* The client sends the next one.                                           *)
LEMMA ClientSends ==
  ASSUME NoSmallFile, ClientInv, SendingInv, Client
  PROVE  /\ n \in 0..(Count - 1)
         /\ wire' = Append(wire, Numbered(n))
         /\ n' = n + 1 /\ UNCHANGED <<file_size, faults, serverVars>>
         /\ step' = "blocks" => n' <= loops - 1
         /\ step' = "remainder" => n' = loops /\ remainder # 0
<1>1. /\ loops \in Nat /\ loops > 0 /\ n \in Nat /\ Count \in Nat
      /\ remainder = 0 => Count = loops
      /\ remainder # 0 => Count = loops + 1
  BY Parts DEF ClientInv
<1>2. UNCHANGED <<file_size, faults, serverVars>> /\ n' = n + 1
  BY DEF Client, SendBlock, SendLastBlock, SendNormalBlock, SendRemainder, Send
<1>3. CASE SendBlock
  <2>1. n < loops - 1 /\ step' = "blocks"
        /\ wire' = Append(wire, Datagram(n * BLOCKSIZE, BLOCKSIZE, FALSE))
    BY <1>3 DEF SendBlock, Send
  <2>2. SizeOf(n) = BLOCKSIZE /\ n # Count - 1
    BY <1>1, <2>1 DEF SizeOf
  <2>3. Numbered(n) = Datagram(n * BLOCKSIZE, BLOCKSIZE, FALSE)
    BY <2>2 DEF Numbered, Datagram
  <2>4. n \in 0..(Count - 1)
    BY <1>1, <2>1
  <2> QED
    BY <1>1, <1>2, <2>1, <2>3, <2>4
<1>4. CASE SendLastBlock
  <2>1. n >= loops - 1 /\ step' = "close" /\ step = "blocks" /\ remainder = 0
        /\ wire' = Append(wire, Datagram(n * BLOCKSIZE, BLOCKSIZE, TRUE))
    BY <1>4 DEF SendLastBlock, Send
  <2>2. n <= loops - 1
    BY <2>1 DEF SendingInv
  <2>3. SizeOf(n) = BLOCKSIZE /\ n = Count - 1
    BY <1>1, <2>1, <2>2 DEF SizeOf
  <2>4. Numbered(n) = Datagram(n * BLOCKSIZE, BLOCKSIZE, TRUE)
    BY <2>3 DEF Numbered, Datagram
  <2>5. n \in 0..(Count - 1)
    BY <1>1, <2>1, <2>2, <2>3
  <2> QED
    BY <1>1, <1>2, <2>1, <2>2, <2>4, <2>5
<1>5. CASE SendNormalBlock
  <2>1. n >= loops - 1 /\ step' = "remainder" /\ step = "blocks" /\ remainder # 0
        /\ wire' = Append(wire, Datagram(n * BLOCKSIZE, BLOCKSIZE, FALSE))
    BY <1>5 DEF SendNormalBlock, Send
  <2>2. n <= loops - 1
    BY <2>1 DEF SendingInv
  <2>3. SizeOf(n) = BLOCKSIZE /\ n # Count - 1
    BY <1>1, <2>1, <2>2 DEF SizeOf
  <2>4. Numbered(n) = Datagram(n * BLOCKSIZE, BLOCKSIZE, FALSE)
    BY <2>3 DEF Numbered, Datagram
  <2>5. n \in 0..(Count - 1)
    BY <1>1, <2>1, <2>2, <2>3
  <2> QED
    BY <1>1, <1>2, <2>1, <2>2, <2>4, <2>5
<1>6. CASE SendRemainder
  <2>1. step' = "close" /\ step = "remainder"
        /\ wire' = Append(wire, Datagram(loops * BLOCKSIZE, remainder, TRUE))
    BY <1>6 DEF SendRemainder, Send
  <2>2. n = loops /\ remainder # 0
    BY <2>1 DEF SendingInv
  <2>3. SizeOf(n) = remainder /\ n = Count - 1
    BY <1>1, <2>2 DEF SizeOf
  <2>4. Numbered(n) = Datagram(loops * BLOCKSIZE, remainder, TRUE)
    BY <2>2, <2>3 DEF Numbered, Datagram
  <2>5. n \in 0..(Count - 1)
    BY <1>1, <2>1, <2>2, <2>3
  <2> QED
    BY <1>1, <1>2, <2>1, <2>2, <2>4, <2>5
<1> QED
  BY <1>3, <1>4, <1>5, <1>6 DEF Client

LEMMA FaultsGrow ==
  ASSUME faults \in Seq(Faults), NEW kind, Fault(kind)
  PROVE  /\ faults' \in Seq(Faults) /\ faults' # << >>
         /\ ToSet(faults) \subseteq ToSet(faults') /\ kind \in ToSet(faults')
<1>1. kind \in Faults /\ faults' = Append(faults, kind)
  BY DEF Fault
<1>2. /\ faults' \in Seq(Faults) /\ Len(faults') = Len(faults) + 1
      /\ Len(faults) \in Nat
      /\ \A k \in 1..Len(faults) : faults'[k] = faults[k]
      /\ faults'[Len(faults) + 1] = kind
  BY <1>1, AppendProperties, LenProperties
<1>3. DOMAIN faults = 1..Len(faults) /\ DOMAIN faults' = 1..Len(faults')
  BY <1>2, LenProperties
<1> QED
  BY <1>2, <1>3 DEF ToSet
-----------------------------------------------------------------------------
(* What is in file_buffer *)

Fitting(bytes, k, failed) ==
    IF bytes[k] = Junk THEN failed
    ELSE /\ bytes[k] \in 1..file_size
         /\ bytes[k] % BLOCKSIZE # 1 % BLOCKSIZE =>
              k > 1 /\ bytes[k - 1] = bytes[k] - 1
         /\ bytes[k] % BLOCKSIZE # 0 /\ bytes[k] # file_size =>
              k < Len(bytes) /\ bytes[k + 1] = bytes[k] + 1

LEMMA WholeIsFitting ==
  PacketsWhole <=>
    \A k \in 1..Len(file_buffer) :
      Fitting(file_buffer, k, "fail" \in ToSet(faults))
BY DEF PacketsWhole, Fitting

(* A packet put behind what fits, fits.                                     *)
LEMMA PacketFits ==
  ASSUME NoSmallFile, file_size \in FileSizes, NEW m \in 0..(Count - 1),
         NEW old \in Seq(Datum), NEW failed \in BOOLEAN, NEW still \in BOOLEAN, failed => still,
         \A k \in 1..Len(old) : Fitting(old, k, failed),
         NEW packet \in Seq(Datum),
         \/ /\ Len(packet) = SizeOf(m)
            /\ \A j \in 1..Len(packet) : packet[j] = m * BLOCKSIZE + j
         \/ still /\ \A j \in 1..Len(packet) : packet[j] = Junk,
         NEW bytes, bytes = old \o packet
  PROVE  \A k \in 1..Len(bytes) : Fitting(bytes, k, still)
<1>1. /\ Len(bytes) = Len(old) + Len(packet) /\ Len(old) \in Nat /\ Len(packet) \in Nat
      /\ \A k \in 1..Len(old) : bytes[k] = old[k]
      /\ \A j \in 1..Len(packet) : bytes[Len(old) + j] = packet[j]
  BY ConcatProperties, LenProperties
<1>2. SUFFICES ASSUME NEW k \in 1..Len(bytes)
               PROVE  Fitting(bytes, k, still)
  OBVIOUS
<1>3. CASE k <= Len(old)
  <2>1. Fitting(old, k, failed) /\ bytes[k] = old[k] /\ k \in Nat
    BY <1>1, <1>3
  <2>2. k > 1 => bytes[k - 1] = old[k - 1]
    BY <1>1, <1>3, <2>1
  <2>3. k < Len(old) => bytes[k + 1] = old[k + 1] /\ k < Len(bytes)
    BY <1>1, <1>3, <2>1
  <2> QED
    BY <2>1, <2>2, <2>3 DEF Fitting
<1>4. CASE k > Len(old)
  <2>1. PICK j \in 1..Len(packet) : k = Len(old) + j
    <3>1. k - Len(old) \in 1..Len(packet) /\ k = Len(old) + (k - Len(old))
      BY <1>1, <1>2, <1>4
    <3> QED
      BY <3>1
  <2>2. bytes[k] = packet[j]
    BY <1>1, <2>1
  <2>3. CASE still /\ packet[j] = Junk
    BY <2>2, <2>3 DEF Fitting
  <2>4. CASE /\ Len(packet) = SizeOf(m)
             /\ \A x \in 1..Len(packet) : packet[x] = m * BLOCKSIZE + x
    <3> DEFINE start == m * BLOCKSIZE
               size == SizeOf(m)
    <3>1. /\ start \in Nat /\ size \in 1..BLOCKSIZE /\ start + size <= file_size
          /\ size = BLOCKSIZE \/ start + size = file_size
          /\ BLOCKSIZE \in Nat /\ BLOCKSIZE > 0 /\ file_size \in Nat
      BY Part, Parts
    <3>2. bytes[k] = start + j /\ j \in 1..size
      BY <2>2, <2>4
    <3>0. /\ (start + 1) % BLOCKSIZE = 1 % BLOCKSIZE
          /\ (start + BLOCKSIZE) % BLOCKSIZE = 0
      <4>1. m \in Nat
        BY Parts
      <4> QED
        BY <3>1, <4>1, Opens
    <3> HIDE DEF start, size
    <3>3. bytes[k] # Junk /\ bytes[k] \in 1..file_size
      <4>1. start + j \in 1..file_size /\ start + j \in Nat
        BY <3>1, <3>2
      <4> QED
        BY <3>2, <4>1, TransferAssumption
    <3>4. ASSUME bytes[k] % BLOCKSIZE # 1 % BLOCKSIZE
          PROVE  k > 1 /\ bytes[k - 1] = bytes[k] - 1
      <4>1. j # 1
        BY <3>0, <3>2, <3>4
      <4>2. j - 1 \in 1..Len(packet) /\ k - 1 = Len(old) + (j - 1)
        BY <1>1, <2>1, <4>1
      <4>3. bytes[k - 1] = start + (j - 1)
        BY <1>1, <2>4, <4>2 DEF start
      <4> QED
        BY <1>1, <2>1, <3>1, <3>2, <4>1, <4>3
    <3>5. ASSUME bytes[k] % BLOCKSIZE # 0, bytes[k] # file_size
          PROVE  k < Len(bytes) /\ bytes[k + 1] = bytes[k] + 1
      <4>1. j # size
        BY <3>0, <3>1, <3>2, <3>5
      <4>2. j + 1 \in 1..Len(packet) /\ k + 1 = Len(old) + (j + 1)
        BY <1>1, <2>1, <2>4, <3>1, <3>2, <4>1 DEF size
      <4>3. bytes[k + 1] = start + (j + 1)
        BY <1>1, <2>4, <4>2 DEF start
      <4> QED
        BY <1>1, <3>1, <3>2, <4>2, <4>3
    <3> QED
      BY <3>3, <3>4, <3>5 DEF Fitting
  <2> QED
    BY <2>1, <2>3, <2>4
<1> QED
  BY <1>1, <1>2, <1>3, <1>4
-----------------------------------------------------------------------------
(* The server *)

LEMMA FilledHolds ==
  ASSUME NoSmallFile, file_size \in FileSizes, NEW m \in 0..(Count - 1),
         NEW buffer \in Buffer
  PROVE  Holds(Filled(buffer, Numbered(m)), m)
<1>1. /\ SizeOf(m) \in 1..BLOCKSIZE /\ BLOCKSIZE \in Nat
      /\ BLOCKSIZE <= NUM_ELEMENTS /\ NUM_ELEMENTS \in Nat
  BY Part, Parts, TransferAssumption
<1>2. /\ Len(Numbered(m).data) = SizeOf(m)
      /\ \A k \in 1..SizeOf(m) : Numbered(m).data[k] = m * BLOCKSIZE + k
  BY NumberedSays
<1>3. ASSUME NEW k \in 1..SizeOf(m)
      PROVE  Filled(buffer, Numbered(m)).data[k] = m * BLOCKSIZE + k
  <2>1. k \in 1..NUM_ELEMENTS /\ k <= BLOCKSIZE /\ k <= SizeOf(m)
    BY <1>1
  <2>2. Filled(buffer, Numbered(m)).data[k] = Numbered(m).data[k]
    BY <1>2, <2>1 DEF Filled
  <2> QED
    BY <1>2, <2>2
<1> QED
  BY <1>3 DEF Holds, Filled

(* A buffer that holds a packet is taken for that packet, whether it has    *)
(* just come or not.                                                        *)
LEMMA AcceptWhole ==
  ASSUME NoSmallFile, WholeInv, file_size' = file_size,
         ToSet(faults) \subseteq ToSet(faults'),
         NEW m \in 0..(Count - 1), NEW buffer, buffer.data \in Content,
         Holds(buffer, m), Accept(buffer, buffer.low, buffer.high)
  PROVE  /\ PacketsWhole' /\ received' = received + 1
         /\ done' <=> m = Count - 1
         /\ \E packet \in Seq(Datum) :
              /\ Len(packet) = SizeOf(m)
              /\ \A j \in 1..SizeOf(m) : packet[j] = m * BLOCKSIZE + j
              /\ file_buffer' = IF Fits(SizeOf(m)) THEN file_buffer \o packet
                                                   ELSE file_buffer
<1>1. /\ SizeOf(m) \in 1..BLOCKSIZE /\ BLOCKSIZE \in Nat
      /\ BLOCKSIZE <= NUM_ELEMENTS /\ NUM_ELEMENTS \in Nat /\ SizeOf(m) \in Nat
      /\ file_size \in FileSizes
  BY Part, Parts, TransferAssumption DEF WholeInv, Inv, ClientInv
<1>2. /\ PayloadLength(buffer.low, buffer.high) = SizeOf(m)
      /\ IsLast(buffer.high) <=> m = Count - 1
  BY <1>1, NumberedSays DEF Holds
<1> DEFINE packet == [k \in 1..SizeOf(m) |->
                        IF k <= NUM_ELEMENTS THEN buffer.data[k] ELSE Junk]
<1>3. /\ done' = IsLast(buffer.high) /\ received' = received + 1
      /\ file_buffer' = IF Fits(SizeOf(m)) THEN file_buffer \o packet ELSE file_buffer
  BY <1>2 DEF Accept
<1>4. \A j \in 1..SizeOf(m) : packet[j] = buffer.data[j] /\ buffer.data[j] \in Datum
  BY <1>1 DEF Content
<1>5. packet \in [1..SizeOf(m) -> Datum]
  BY <1>4
<1>6. packet \in Seq(Datum) /\ Len(packet) = SizeOf(m)
  <2> HIDE DEF packet
  <2> QED
    BY <1>1, <1>5, FunctionIsSeq
<1>7. \A j \in 1..SizeOf(m) : packet[j] = m * BLOCKSIZE + j
  BY <1>4 DEF Holds
<1> HIDE DEF packet
<1>8. PacketsWhole'
  <2> DEFINE failed == "fail" \in ToSet(faults)
             still == "fail" \in ToSet(faults')
  <2>1. /\ \A k \in 1..Len(file_buffer) : Fitting(file_buffer, k, failed)
        /\ file_buffer \in Seq(Datum) /\ failed \in BOOLEAN /\ still \in BOOLEAN
        /\ failed => still
    BY WholeIsFitting DEF WholeInv, Inv, ServerInv
  <2>2. \A k \in 1..Len(file_buffer') : Fitting(file_buffer', k, still)
    <3> HIDE DEF failed, still
    <3>1. CASE Fits(SizeOf(m))
      BY <1>1, <1>3, <1>6, <1>7, <2>1, <3>1, PacketFits
    <3>2. CASE ~Fits(SizeOf(m))
      <4>1. file_buffer' = file_buffer
        BY <1>3, <3>2
      <4> QED
        BY <2>1, <4>1 DEF Fitting
    <3> QED
      BY <3>1, <3>2
  <2> QED
    BY <2>2 DEF PacketsWhole, Fitting
<1> QED
  BY <1>2, <1>3, <1>6, <1>7, <1>8

(* One that was never filled has nothing but junk to bring.                 *)
LEMMA AcceptUnset ==
  ASSUME NoSmallFile, WholeInv, file_size' = file_size,
         ToSet(faults) \subseteq ToSet(faults'), "fail" \in ToSet(faults'),
         NEW low \in HeaderByte, NEW high \in HeaderByte, Accept(Unset, low, high)
  PROVE  PacketsWhole'
<1> DEFINE length == PayloadLength(low, high)
           packet == [k \in 1..length |->
                        IF k <= NUM_ELEMENTS THEN Unset.data[k] ELSE Junk]
<1>1. file_buffer' = IF Fits(length) THEN file_buffer \o packet ELSE file_buffer
  BY DEF Accept
<1>2. length \in Nat
  BY LengthBound
<1>3. \A j \in 1..length : packet[j] = Junk
  <2> SUFFICES ASSUME NEW j \in 1..length PROVE packet[j] = Junk
    OBVIOUS
  <2>1. j \in Nat /\ j > 0 /\ NUM_ELEMENTS \in Nat
    <3> HIDE DEF length
    <3> QED
      BY <1>2, TransferAssumption
  <2> QED
    BY <2>1 DEF Unset
<1>4. packet \in [1..length -> Datum]
  BY <1>3 DEF Datum
<1>5. packet \in Seq(Datum) /\ Len(packet) = length
  <2> HIDE DEF packet, length
  <2> QED
    BY <1>2, <1>4, FunctionIsSeq
<1> HIDE DEF packet, length
<1> DEFINE failed == "fail" \in ToSet(faults)
           still == "fail" \in ToSet(faults')
<1>6. /\ \A k \in 1..Len(file_buffer) : Fitting(file_buffer, k, failed)
      /\ file_buffer \in Seq(Datum) /\ failed \in BOOLEAN /\ still \in BOOLEAN
      /\ failed => still
      /\ still /\ file_size \in FileSizes
  BY WholeIsFitting DEF WholeInv, Inv, ServerInv, ClientInv
<1>7. \A k \in 1..Len(file_buffer') : Fitting(file_buffer', k, still)
  <2> HIDE DEF failed, still
  <2>1. CASE Fits(length)
    <3>0. file_size \in FileSizes
      BY <1>6
    <3>1. Count \in Nat /\ Count > 0
      BY <3>0, Parts
    <3>2. 0 \in 0..(Count - 1)
      BY <3>1
    <3>3. /\ still
          /\ \A j \in 1..Len(packet) : packet[j] = Junk
          /\ packet \in Seq(Datum)
      BY <1>3, <1>5, <1>6
    <3>4. file_buffer' = file_buffer \o packet
      BY <1>1, <2>1
    <3>5. /\ file_buffer \in Seq(Datum) /\ failed \in BOOLEAN /\ still \in BOOLEAN
          /\ failed => still
          /\ \A k \in 1..Len(file_buffer) : Fitting(file_buffer, k, failed)
      BY <1>6
    <3> QED
      BY <3>0, <3>2, <3>3, <3>4, <3>5, PacketFits
  <2>2. CASE ~Fits(length)
    <3>1. file_buffer' = file_buffer
      BY <1>1, <2>2
    <3> QED
      BY <1>6, <3>1 DEF Fitting
  <2> QED
    BY <2>1, <2>2
<1> QED
  BY <1>7 DEF PacketsWhole, Fitting
-----------------------------------------------------------------------------
(* The beginning, and the steps *)

LEMMA InitWhole ==
  ASSUME NoSmallFile, Init
  PROVE  WholeInv
<1>1. Inv
  BY InitInv
<1>2. file_size \in FileSizes
  BY <1>1 DEF Inv, ClientInv
<1>3. loops \in Nat /\ loops > 0 /\ Count \in Nat /\ Count > 0 /\ BLOCKSIZE \in Nat
  BY <1>2, Parts
<1>4. n = 0 /\ step = "blocks" /\ wire = << >> /\ faults = << >> /\ received = 0
      /\ file_buffer = << >> /\ done = FALSE
  BY DEF Init
<1>5. SendingInv
  BY <1>3, <1>4, EmptySeq DEF SendingInv
<1>6. BuffersInv
  BY DEF Init, BuffersInv
<1>7. InTurn
  <2>1. Upto(received) = 0
    BY <1>3, <1>4 DEF Upto
  <2>2. file_buffer = [k \in 1..0 |-> k] /\ Len(wire) = 0
    BY <1>4
  <2> QED
    BY <1>4, <2>1, <2>2 DEF InTurn
<1>8. PacketsWhole
  BY <1>4 DEF PacketsWhole
<1>9. faults \in Seq(Faults)
  BY <1>4, EmptySeq
<1> QED
  BY <1>1, <1>5, <1>6, <1>7, <1>8, <1>9 DEF WholeInv

(* InTurn of the next state, for the next value r of received.              *)
LEMMA NextInTurn ==
  ASSUME file_size' = file_size, NEW r, r = received',
         faults' = << >> =>
           /\ r <= n' /\ Len(wire') = n' - r
           /\ \A k \in 1..Len(wire') : wire'[k] = Numbered(r + k - 1)
           /\ file_size < Capacity => file_buffer' = [k \in 1..Upto(r) |-> k]
           /\ done' => r = Count
  PROVE  InTurn'
<1>1. loops' = loops /\ remainder' = remainder /\ Count' = Count
  BY FileStays
<1>2. ASSUME NEW k \in 1..Len(wire')
      PROVE  Numbered(received + k - 1)' = Numbered(r + k - 1)
  BY <1>1 DEF Numbered, Datagram, Bytes, SizeOf
<1>3. Upto(received)' = Upto(r)
  BY <1>1 DEF Upto
<1> QED
  BY <1>1, <1>2, <1>3 DEF InTurn

LEMMA ClientWhole ==
  ASSUME NoSmallFile, WholeInv, Client
  PROVE  SendingInv' /\ BuffersInv' /\ InTurn' /\ PacketsWhole' /\ faults' = faults
<1> DEFINE S == {Numbered(m) : m \in 0..(Count - 1)}
<1>1. /\ n \in 0..(Count - 1) /\ wire' = Append(wire, Numbered(n)) /\ n' = n + 1
      /\ UNCHANGED <<file_size, faults, serverVars>>
      /\ step' = "blocks" => n' <= loops - 1
      /\ step' = "remainder" => n' = loops /\ remainder # 0
  BY ClientSends DEF WholeInv, Inv
<1>2. /\ loops' = loops /\ remainder' = remainder /\ Count' = Count
      /\ \A m : /\ SizeOf(m)' = SizeOf(m) /\ Numbered(m)' = Numbered(m)
                /\ Upto(m)' = Upto(m)
  BY <1>1, FileStays
<1>3. wire \in Seq(S) /\ Numbered(n) \in S /\ n \in Nat /\ n + 1 <= Count
  <2>1. Count \in Nat
    BY Parts DEF WholeInv, Inv, ClientInv
  <2> QED
    BY <1>1, <2>1 DEF WholeInv, SendingInv
<1>4. /\ wire' \in Seq(S) /\ Len(wire) \in Nat /\ Len(wire') = Len(wire) + 1
      /\ \A k \in 1..Len(wire) : wire'[k] = wire[k]
      /\ wire'[Len(wire) + 1] = Numbered(n)
  <2> HIDE DEF S
  <2> QED
    BY <1>1, <1>3, AppendProperties, LenProperties
<1>5. SendingInv'
  BY <1>1, <1>2, <1>3, <1>4 DEF SendingInv
<1>6. BuffersInv'
  <2>1. input_buffers' = input_buffers
    BY <1>1 DEF serverVars
  <2> QED
    BY <1>2, <2>1 DEF WholeInv, BuffersInv, Holds
<1>7. InTurn'
  <2>0. PICK r : r = received'
    OBVIOUS
  <2> SUFFICES ASSUME faults' = << >>
               PROVE  /\ r <= n' /\ Len(wire') = n' - r
                      /\ \A k \in 1..Len(wire') : wire'[k] = Numbered(r + k - 1)
                      /\ file_size < Capacity => file_buffer' = [k \in 1..Upto(r) |-> k]
                      /\ done' => r = Count
    BY <1>1, <2>0, NextInTurn
  <2>1. UNCHANGED <<received, done, file_buffer, file_size>> /\ faults = << >>
    BY <1>1 DEF serverVars
  <2>2. /\ received <= n /\ Len(wire) = n - received /\ received \in Nat
        /\ \A k \in 1..Len(wire) : wire[k] = Numbered(received + k - 1)
        /\ file_size < Capacity => file_buffer = [k \in 1..Upto(received) |-> k]
        /\ done => received = Count
    BY <2>1 DEF WholeInv, InTurn, Inv, ServerInv
  <2>3. ASSUME NEW k \in 1..Len(wire')
        PROVE  wire'[k] = Numbered(received + k - 1)
    <3>1. CASE k \in 1..Len(wire)
      BY <1>4, <2>2, <3>1
    <3>2. CASE k = Len(wire) + 1
      <4>1. received + k - 1 = n
        BY <1>3, <2>2, <3>2
      <4> QED
        BY <1>4, <3>2, <4>1
    <3> QED
      BY <1>4, <3>1, <3>2
  <2>4. received <= n + 1 /\ Len(wire') = n + 1 - received
    BY <1>3, <1>4, <2>2
  <2> QED
    BY <1>1, <2>0, <2>1, <2>2, <2>3, <2>4
<1>8. PacketsWhole'
  <2>1. UNCHANGED <<file_size, faults, file_buffer>>
    BY <1>1 DEF serverVars
  <2> QED
    BY <2>1 DEF WholeInv, PacketsWhole
<1> QED
  BY <1>1, <1>5, <1>6, <1>7, <1>8

LEMMA NetworkWhole ==
  ASSUME NoSmallFile, WholeInv, Lose \/ Duplicate \/ Reorder
  PROVE  /\ SendingInv' /\ BuffersInv' /\ InTurn' /\ PacketsWhole'
         /\ faults' \in Seq(Faults)
<1> DEFINE S == {Numbered(m) : m \in 0..(Count - 1)}
<1>1. wire \in Seq(S)
  BY DEF WholeInv, SendingInv
<1>2. wire' \in Seq(S) /\ UNCHANGED <<clientVars, serverVars>>
  <2> HIDE DEF S
  <2> QED
    BY <1>1, NetworkStep
<1>3. UNCHANGED <<file_size, n, step, input_buffers, file_buffer>>
  BY <1>2 DEF clientVars, serverVars
<1>4. /\ loops' = loops /\ remainder' = remainder /\ Count' = Count
      /\ \A m : SizeOf(m)' = SizeOf(m) /\ Numbered(m)' = Numbered(m)
  BY <1>3, FileStays
<1>5. /\ faults' \in Seq(Faults) /\ faults' # << >>
      /\ ToSet(faults) \subseteq ToSet(faults')
  BY FaultsGrow DEF WholeInv, Lose, Duplicate, Reorder
<1>6. SendingInv'
  BY <1>2, <1>3, <1>4 DEF WholeInv, SendingInv
<1>7. BuffersInv'
  BY <1>3, <1>4 DEF WholeInv, BuffersInv, Holds
<1>8. InTurn'
  BY <1>5 DEF InTurn
<1>9. PacketsWhole'
  BY <1>3, <1>5 DEF WholeInv, PacketsWhole
<1> QED
  BY <1>5, <1>6, <1>7, <1>8, <1>9

(* The beginning of the file with what comes next is the beginning of it.   *)
LEMMA PrefixGrows ==
  ASSUME NEW x \in Nat, NEW size \in Nat, NEW packet \in Seq(Datum),
         Len(packet) = size, \A j \in 1..size : packet[j] = x + j
  PROVE  /\ [k \in 1..x |-> k] \o packet = [k \in 1..(x + size) |-> k]
         /\ Len([k \in 1..x |-> k]) = x
<1> DEFINE f == [k \in 1..x |-> k]
           g == [k \in 1..(x + size) |-> k]
<1>1. f \in [1..x -> Datum] /\ g \in [1..(x + size) -> Datum]
  BY DEF Datum
<1>2. \A k \in 1..x : f[k] = k
  OBVIOUS
<1>3. \A k \in 1..(x + size) : g[k] = k
  OBVIOUS
<1> HIDE DEF f, g
<1>4. f \in Seq(Datum) /\ Len(f) = x /\ g \in Seq(Datum) /\ Len(g) = x + size
  BY <1>1, FunctionIsSeq
<1>5. /\ f \o packet \in Seq(Datum) /\ Len(f \o packet) = x + size
      /\ \A k \in 1..x : (f \o packet)[k] = f[k]
      /\ \A k \in 1..(x + size) :
           (f \o packet)[k] = IF k <= x THEN f[k] ELSE packet[k - x]
  <2>1. size \in Nat
    OBVIOUS
  <2> QED
    BY <1>4, <2>1, ConcatProperties
<1>6. ASSUME NEW k \in 1..(x + size)
      PROVE  (f \o packet)[k] = g[k]
  <2>0. k \in Nat /\ k > 0 /\ k <= x + size
    OBVIOUS
  <2>1. CASE k <= x
    <3>1. k \in 1..x
      BY <2>0, <2>1
    <3> QED
      BY <1>2, <1>3, <1>5, <2>1, <3>1
  <2>2. CASE ~(k <= x)
    <3>1. k - x \in 1..size /\ x + (k - x) = k
      BY <2>0, <2>2
    <3>2. packet[k - x] = k
      BY <3>1
    <3> QED
      BY <1>3, <1>5, <2>2, <3>2
  <2> QED
    BY <2>1, <2>2
<1>7. f \o packet = g
  BY <1>4, <1>5, <1>6, SeqEqual
<1> QED
  BY <1>4, <1>7 DEF f, g

LEMMA ReceiveWhole ==
  ASSUME NoSmallFile, WholeInv, Receive
  PROVE  SendingInv' /\ BuffersInv' /\ InTurn' /\ PacketsWhole' /\ faults' = faults
<1> DEFINE S      == {Numbered(m) : m \in 0..(Count - 1)}
           w      == Wrapped(writer)
           buffer == Filled(input_buffers[w], Head(wire))
<1>1. w \in 0..(NUM_PACKETS - 1)
  BY NextWriter DEF WholeInv, Inv
<1>2. /\ wire # << >> /\ wire' = Tail(wire) /\ UNCHANGED <<file_size, n, step, faults>>
      /\ input_buffers' = [input_buffers EXCEPT ![w] = buffer]
      /\ Accept(buffer, buffer.low, buffer.high)
  BY DEF Receive, clientVars
<1>3. /\ file_size \in FileSizes /\ file_size \in Nat /\ Count \in Nat
      /\ n \in Nat /\ received \in Nat /\ file_buffer \in Seq(Datum)
      /\ input_buffers[w] \in Buffer /\ Capacity \in Nat
  <2>1. file_size \in FileSizes /\ n \in Nat /\ received \in Nat
        /\ file_buffer \in Seq(Datum) /\ input_buffers[w] \in Buffer
    BY <1>1 DEF WholeInv, Inv, ClientInv, ServerInv
  <2>2. file_size \in Nat /\ Count \in Nat
    BY <2>1, Parts
  <2> QED
    BY <2>1, <2>2, TransferAssumption
<1>4. /\ loops' = loops /\ remainder' = remainder /\ Count' = Count
      /\ \A m : SizeOf(m)' = SizeOf(m) /\ Numbered(m)' = Numbered(m)
  BY <1>2, FileStays
<1>5. wire \in Seq(S) /\ Len(wire) \in Nat /\ Len(wire) > 0
      /\ Head(wire) \in S /\ Head(wire) = wire[1] /\ wire' \in Seq(S)
      /\ Len(wire') = Len(wire) - 1
      /\ \A k \in 1..Len(wire') : wire'[k] = wire[k + 1]
  <2>1. wire \in Seq(S)
    BY DEF WholeInv, SendingInv
  <2> HIDE DEF S
  <2>2. Len(wire) \in Nat /\ Len(wire) > 0
    BY <1>2, <2>1, EmptySeq
  <2> QED
    BY <1>2, <2>1, <2>2, HeadTailProperties
<1>6. PICK m \in 0..(Count - 1) : Head(wire) = Numbered(m) /\ (faults = << >> => m = received)
  <2>1. CASE faults = << >>
    <3>1. /\ received <= n /\ Len(wire) = n - received /\ n <= Count
          /\ wire[1] = Numbered(received + 1 - 1)
      BY <1>3, <1>5, <2>1 DEF WholeInv, SendingInv, InTurn
    <3>2. received \in 0..(Count - 1) /\ received + 1 - 1 = received
      BY <1>3, <1>5, <3>1
    <3> QED
      BY <1>5, <3>1, <3>2
  <2>2. CASE faults # << >>
    BY <1>5, <2>2
  <2> QED
    BY <2>1, <2>2
<1>7. Holds(buffer, m)
  BY <1>3, <1>6, FilledHolds
<1>8. buffer.data \in Content
  <2>1. Numbered(m) \in Packet
    BY <1>3, NumberedSays
  <2>2. buffer \in Buffer
    BY <1>3, <1>6, <2>1, FilledType
  <2> QED
    BY <2>2, BufferData
<1> HIDE DEF buffer, w
<1>9. /\ PacketsWhole' /\ received' = received + 1 /\ (done' <=> m = Count - 1)
      /\ \E packet \in Seq(Datum) :
           /\ Len(packet) = SizeOf(m)
           /\ \A j \in 1..SizeOf(m) : packet[j] = m * BLOCKSIZE + j
           /\ file_buffer' = IF Fits(SizeOf(m)) THEN file_buffer \o packet
                                                ELSE file_buffer
  BY <1>2, <1>7, <1>8, AcceptWhole
<1>10. SendingInv'
  BY <1>2, <1>4, <1>5 DEF WholeInv, SendingInv
<1>11. BuffersInv'
  <2> SUFFICES ASSUME NEW x \in 0..(NUM_PACKETS - 1)
               PROVE  \/ input_buffers'[x] = Unset
                      \/ \E i \in 0..(Count - 1) : Holds(input_buffers'[x], i)
    BY <1>4 DEF BuffersInv, Holds
  <2>1. CASE x = w
    <3>1. input_buffers'[x] = buffer
      BY <1>1, <1>2, <2>1 DEF WholeInv, Inv, ServerInv
    <3> QED
      BY <1>7, <3>1
  <2>2. CASE x # w
    <3>1. input_buffers'[x] = input_buffers[x]
      BY <1>1, <1>2, <2>2 DEF WholeInv, Inv, ServerInv
    <3> QED
      BY <3>1 DEF WholeInv, BuffersInv
  <2> QED
    BY <2>1, <2>2
<1>12. InTurn'
  <2>0. PICK r : r = received'
    OBVIOUS
  <2> SUFFICES ASSUME faults' = << >>
               PROVE  /\ r <= n' /\ Len(wire') = n' - r
                      /\ \A k \in 1..Len(wire') : wire'[k] = Numbered(r + k - 1)
                      /\ file_size < Capacity => file_buffer' = [k \in 1..Upto(r) |-> k]
                      /\ done' => r = Count
    BY <1>2, <2>0, NextInTurn
  <2>1. /\ received <= n /\ Len(wire) = n - received /\ m = received /\ r = received + 1
        /\ \A k \in 1..Len(wire) : wire[k] = Numbered(received + k - 1)
        /\ file_size < Capacity => file_buffer = [k \in 1..Upto(received) |-> k]
    BY <1>2, <1>6, <1>9, <2>0 DEF WholeInv, InTurn
  <2>2. r <= n' /\ Len(wire') = n' - r
    BY <1>2, <1>3, <1>5, <2>1
  <2>3. ASSUME NEW k \in 1..Len(wire')
        PROVE  wire'[k] = Numbered(r + k - 1)
    <3>1. k + 1 \in 1..Len(wire) /\ received + (k + 1) - 1 = r + k - 1
      BY <1>3, <1>5, <2>1
    <3> QED
      BY <1>5, <2>1, <3>1
  <2>4. ASSUME file_size < Capacity
        PROVE  file_buffer' = [k \in 1..Upto(r) |-> k]
    <3>1. PICK packet \in Seq(Datum) :
            /\ Len(packet) = SizeOf(m)
            /\ \A j \in 1..SizeOf(m) : packet[j] = m * BLOCKSIZE + j
            /\ file_buffer' = IF Fits(SizeOf(m)) THEN file_buffer \o packet
                                                 ELSE file_buffer
      BY <1>9
    <3> DEFINE start == m * BLOCKSIZE
               size  == SizeOf(m)
    <3>2. /\ start \in Nat /\ size \in Nat /\ start + size <= file_size
          /\ Upto(received) = start /\ Upto(r) = start + size
      <4>1. BLOCKSIZE \in Nat
        BY <1>3, Parts
      <4> QED
        BY <1>3, <2>1, <4>1, Part
    <3>3. \A j \in 1..size : packet[j] = start + j
      BY <3>1
    <3>4. Len(packet) = size
      BY <3>1
    <3> HIDE DEF start, size
    <3>5. /\ file_buffer \o packet = [k \in 1..(start + size) |-> k]
          /\ Len(file_buffer) = start
      <4>1. file_buffer = [k \in 1..start |-> k]
        BY <2>1, <2>4, <3>2
      <4>2. start \in Nat /\ size \in Nat
        BY <3>2
      <4>3. /\ [k \in 1..start |-> k] \o packet = [k \in 1..(start + size) |-> k]
            /\ Len([k \in 1..start |-> k]) = start
        BY <3>3, <3>4, <4>2, PrefixGrows
      <4> QED
        BY <4>1, <4>3
    <3>6. Fits(size)
      BY <1>3, <2>4, <3>2, <3>5 DEF Fits
    <3> QED
      BY <3>1, <3>2, <3>5, <3>6 DEF size
  <2>5. done' => r = Count
    BY <1>3, <1>9, <2>1
  <2> QED
    BY <2>2, <2>3, <2>4, <2>5
<1> QED
  BY <1>2, <1>9, <1>10, <1>11, <1>12

(* The receive fails, and the loop takes what the buffer held before: one   *)
(* packet once more, or junk.                                               *)
LEMMA ReceiveFailsWhole ==
  ASSUME NoSmallFile, WholeInv, ReceiveFails
  PROVE  /\ SendingInv' /\ BuffersInv' /\ InTurn' /\ PacketsWhole'
         /\ faults' \in Seq(Faults)
<1> DEFINE w == Wrapped(writer)
<1>1. w \in 0..(NUM_PACKETS - 1)
  BY NextWriter DEF WholeInv, Inv
<1>2. PICK low, high \in HeaderByte :
        /\ input_buffers[w] # Unset => /\ low = input_buffers[w].low
                                       /\ high = input_buffers[w].high
        /\ Accept(input_buffers[w], low, high)
  BY DEF ReceiveFails, HeaderByte
<1>3. UNCHANGED <<file_size, n, step, wire, input_buffers>>
  BY DEF ReceiveFails, clientVars
<1> HIDE DEF w
<1>4. /\ loops' = loops /\ remainder' = remainder /\ Count' = Count
      /\ \A m : SizeOf(m)' = SizeOf(m) /\ Numbered(m)' = Numbered(m)
  BY <1>3, FileStays
<1>5. /\ faults' \in Seq(Faults) /\ faults' # << >>
      /\ ToSet(faults) \subseteq ToSet(faults') /\ "fail" \in ToSet(faults')
  BY FaultsGrow DEF WholeInv, ReceiveFails
<1>6. SendingInv'
  BY <1>3, <1>4 DEF WholeInv, SendingInv
<1>7. BuffersInv'
  BY <1>3, <1>4 DEF WholeInv, BuffersInv, Holds
<1>8. InTurn'
  BY <1>5 DEF InTurn
<1>9. PacketsWhole'
  <2>1. CASE input_buffers[w] = Unset
    <3>1. Accept(Unset, low, high)
      BY <1>2, <2>1
    <3> QED
      BY <1>3, <1>5, <3>1, AcceptUnset
  <2>2. CASE input_buffers[w] # Unset
    <3>1. PICK m \in 0..(Count - 1) : Holds(input_buffers[w], m)
      BY <1>1, <2>2 DEF WholeInv, BuffersInv
    <3>2. input_buffers[w].data \in Content
      BY <1>1, BufferData DEF WholeInv, Inv, ServerInv
    <3>3. Accept(input_buffers[w], input_buffers[w].low, input_buffers[w].high)
      BY <1>2, <2>2
    <3> QED
      BY <1>3, <1>5, <3>1, <3>2, <3>3, AcceptWhole
  <2> QED
    BY <2>1, <2>2
<1> QED
  BY <1>5, <1>6, <1>7, <1>8, <1>9

LEMMA StepWhole ==
  ASSUME NoSmallFile, WholeInv, [Next]_vars
  PROVE  WholeInv'
<1>1. Inv'
  BY StepInv DEF WholeInv
<1>2. SendingInv' /\ BuffersInv' /\ InTurn' /\ PacketsWhole' /\ faults' \in Seq(Faults)
  <2>1. CASE Client
    BY <2>1, ClientWhole DEF WholeInv
  <2>2. CASE Lose \/ Duplicate \/ Reorder
    BY <2>2, NetworkWhole
  <2>3. CASE Receive
    BY <2>3, ReceiveWhole DEF WholeInv
  <2>4. CASE ReceiveFails
    BY <2>4, ReceiveFailsWhole
  <2>5. CASE UNCHANGED vars
    <3>1. UNCHANGED <<file_size, n, step, wire, faults, input_buffers,
                      file_buffer, received, done>>
      BY <2>5 DEF vars, clientVars, serverVars
    <3>2. /\ loops' = loops /\ remainder' = remainder /\ Count' = Count
          /\ \A m : SizeOf(m)' = SizeOf(m) /\ Numbered(m)' = Numbered(m)
      BY <3>1, FileStays
    <3>3. SendingInv' /\ faults' \in Seq(Faults)
      BY <3>1, <3>2 DEF WholeInv, SendingInv
    <3>4. BuffersInv'
      BY <3>1, <3>2 DEF WholeInv, BuffersInv, Holds
    <3>5. InTurn'
      <4>1. PICK r : r = received'
        OBVIOUS
      <4> QED
        BY <3>1, <4>1, NextInTurn DEF WholeInv, InTurn
    <3>6. PacketsWhole'
      BY <3>1 DEF WholeInv, PacketsWhole
    <3> QED
      BY <3>3, <3>4, <3>5, <3>6
  <2> QED
    BY <2>1, <2>2, <2>3, <2>4, <2>5 DEF Next
<1> QED
  BY <1>1, <1>2 DEF WholeInv

LEMMA WholeInvariance ==
  ASSUME NoSmallFile
  PROVE  Spec => []WholeInv
<1>1. Init => WholeInv
  BY InitWhole
<1>2. WholeInv /\ [Next]_vars => WholeInv'
  BY StepWhole
<1> QED
  BY <1>1, <1>2, PTL DEF Spec
-----------------------------------------------------------------------------
(* Whatever the network loses, repeats or swaps, whichever receives fail,   *)
(* and whatever is skipped for want of room: the buffers are used again and *)
(* again, but no packet brings bytes along from the one that was there      *)
(* before it, and none is copied in part.                                   *)
THEOREM PacketsStayWhole ==
  ASSUME NoSmallFile
  PROVE  Spec => []PacketsWhole
<1>1. WholeInv => PacketsWhole
  BY DEF WholeInv
<1> QED
  BY <1>1, WholeInvariance, PTL

(* As long as nothing goes wrong, and the file has room, the server has the *)
(* beginning of the file: every datagram brings the bytes that follow.      *)
THEOREM PrefixReceived ==
  ASSUME NoSmallFile
  PROVE  Spec => []ReceivedPrefix
<1>1. WholeInv => ReceivedPrefix
  <2> SUFFICES ASSUME WholeInv, Delivered
               PROVE  IsPrefix(file_buffer, File)
    BY DEF ReceivedPrefix
  <2>1. file_buffer = [k \in 1..Upto(received) |-> k] /\ received <= n /\ n <= Count
    BY DEF WholeInv, InTurn, SendingInv, Delivered
  <2>2. file_size \in FileSizes /\ received \in Nat /\ n \in Nat
    BY DEF WholeInv, Inv, ClientInv, ServerInv
  <2>3. Upto(received) \in 0..file_size /\ file_size \in Nat
    <3>1. file_size \in Nat /\ Count \in Nat
      BY <2>2, Parts
    <3>2. CASE received < Count
      <4>1. received \in 0..(Count - 1)
        BY <2>2, <3>1, <3>2
      <4>2. /\ Upto(received) = received * BLOCKSIZE /\ received * BLOCKSIZE \in Nat
            /\ SizeOf(received) \in 1..BLOCKSIZE /\ BLOCKSIZE \in Nat
            /\ received * BLOCKSIZE + SizeOf(received) <= file_size
        BY <2>2, <4>1, Part, Parts
      <4> QED
        BY <3>1, <4>2
    <3>3. CASE ~(received < Count)
      BY <3>1, <3>3 DEF Upto
    <3> QED
      BY <3>1, <3>2, <3>3
  <2>4. PICK size \in 0..file_size : file_buffer = [k \in 1..size |-> k]
    BY <2>1, <2>3
  <2>5. /\ File \in Seq(Nat) /\ Len(File) = file_size /\ \A k \in 1..file_size : File[k] = k
        /\ file_buffer \in Seq(Nat) /\ Len(file_buffer) = size
    <3>1. File \in [1..file_size -> Nat] /\ file_buffer \in [1..size -> Nat]
      BY <2>4 DEF File
    <3>2. size \in Nat
      BY <2>3
    <3>3. File \in Seq(Nat) /\ Len(File) = file_size
      BY <2>3, <3>1, FunctionIsSeq
    <3>4. file_buffer \in Seq(Nat) /\ Len(file_buffer) = size
      BY <3>1, <3>2, FunctionIsSeq
    <3> QED
      BY <3>3, <3>4 DEF File
  <2>6. SubSeq(File, 1, size) = file_buffer
    <3>1. SubSeq(File, 1, size) = [k \in 1..size |-> File[k]]
      BY <2>3, <2>5
    <3>2. \A k \in 1..size : File[k] = k
      BY <2>3, <2>5
    <3> QED
      BY <2>4, <3>1, <3>2
  <2> QED
    BY <2>3, <2>5, <2>6 DEF IsPrefix
<1> QED
  BY <1>1, WholeInvariance, PTL

(* And when it stops receiving it has the file.                             *)
THEOREM ReceivedIsFile ==
  ASSUME NoSmallFile
  PROVE  Spec => [](Delivered /\ done => file_buffer = File)
<1>1. WholeInv => (Delivered /\ done => file_buffer = File)
  <2> SUFFICES ASSUME WholeInv, Delivered, done
               PROVE  file_buffer = File
    OBVIOUS
  <2>1. file_buffer = [k \in 1..Upto(received) |-> k] /\ received = Count
    BY DEF WholeInv, InTurn, Delivered
  <2>2. Count \in Nat
    BY Parts DEF WholeInv, Inv, ClientInv
  <2>3. Upto(received) = file_size
    BY <2>1, <2>2 DEF Upto
  <2> QED
    BY <2>1, <2>3 DEF File
<1> QED
  BY <1>1, WholeInvariance, PTL
=============================================================================

---------------------------- MODULE KernelDriver ----------------------------
(***************************************************************************)
(* The driver that Vitis HLS generated for the LZW kernel                  *)
(* (xlzw_encode_hw.c, and xlzw_encode_hw_linux.c that opens the device),   *)
(* above the registers.  Each of its functions is one register access or   *)
(* two, and the kernel goes on between them.  There are two callers: main  *)
(* sets arguments, starts and configures, a handler waits for the end of a *)
(* run and acknowledges it; each calls a function that needs an answer of  *)
(* another one (IsReady before Start, IsDone before Continue) after it.    *)
(***************************************************************************)
EXTENDS KernelRegisters, Sequences

CONSTANTS
    Devices,          \* the entries of /sys/class/uio: a sequence of names
    InstanceName,
    Masks             \* bound: the interrupts that are enabled or disabled

ASSUME DriverAssumption == Masks \subseteq SUBSET Signal

VARIABLES
    uio_num,          \* the device that Initialize has opened, or 0
    main, handler,    \* the call under way of each, or Idle
    ready,            \* IsReady has answered 1, and main has not started since
    done,             \* IsDone has answered 1, and the handler has not continued since
    status,           \* what InterruptGetStatus has answered, as far as not cleared
    asked,            \* history: a start has been written and no run begun since
    wanted,           \* history: auto restart as last asked for, or "never"
    overtaken,        \* history: it was written between the accesses of Continue
    unnoticed,        \* history: a run has ended that IsDone has not told of
    given             \* history: the argument as main has set it

callers == <<uio_num, main, handler, ready, done, status>>
history == <<asked, wanted, overtaken, unnoticed, given>>
vars == <<registers, responding, callers, history>>

Idle == [op |-> "none", data |-> {}]
Between(op, data) == [op |-> op, data |-> data]

Init ==
    /\ RegistersInit
    /\ uio_num = 0
    /\ main = Idle /\ handler = Idle
    /\ ready = FALSE /\ done = FALSE /\ status = {}
    /\ asked = FALSE /\ wanted = "never" /\ overtaken = FALSE /\ unnoticed = FALSE
    /\ given = int_input_data

(* The history that a cycle writes without the callers' doing.              *)
Begins == state = "state1" /\ int_ap_start /\ ~ap_done_reg
Observed ==
    /\ asked' = (asked /\ ~Begins)
    /\ unnoticed' = (unnoticed \/ ap_ready)

Kept == UNCHANGED <<wanted, overtaken, given>>
-----------------------------------------------------------------------------
(* Opening and closing *)

Matching == {i \in DOMAIN Devices : Devices[i] = InstanceName}

(* The first device of that name; that there is none, or that it cannot be  *)
(* opened, leaves everything as it is.  The kernel is not reset.            *)
Initialize ==
    /\ uio_num = 0 /\ Matching # {}
    /\ \E i \in Matching : (\A j \in Matching : i <= j) /\ uio_num' = i
    /\ UNCHANGED <<registers, responding, main, handler, ready, done, status, history>>

Release ==
    /\ uio_num # 0 /\ main = Idle /\ handler = Idle
    /\ uio_num' = 0
    /\ ready' = FALSE /\ done' = FALSE /\ status' = {}
    /\ UNCHANGED <<registers, responding, main, handler, history>>
-----------------------------------------------------------------------------
(* main *)

CallsMain(op) == uio_num # 0 /\ main = op
MainOnly == UNCHANGED <<uio_num, handler, done, status>>

(* The bits of AP_CTRL that Start and Continue write back: 0x80.            *)
ReadControl == IF int_auto_restart THEN {"auto_restart"} ELSE {}

(* Mutation of KeptBits: the 0x80 forgotten.                                *)
KeptBitsNone(data) == {}

KeptBits(data) == data

(* Mutation of ReadyAnswer: the bit of ap_continue.                         *)
ReadyAnswerBit == ~int_ap_continue

ReadyAnswer == ~int_ap_start

IsReady ==
    /\ CallsMain(Idle) /\ Access(NoWrite)
    /\ ready' = ReadyAnswer
    /\ MainOnly /\ Observed /\ Kept /\ UNCHANGED main

(* Set_input_data, and likewise the other arguments: the low half...        *)
SetLow ==
    /\ CallsMain(Idle) /\ ready
    /\ \E value \in Values :
         /\ Access(Write("low", value[1]))
         /\ main' = Between("Set", value)
    /\ MainOnly /\ Observed /\ Kept /\ UNCHANGED ready

(* ... and the high one.                                                    *)
SetHigh ==
    /\ main.op = "Set" /\ Access(Write("high", main.data[2]))
    /\ main' = Idle
    /\ given' = Halves(main.data)
    /\ MainOnly /\ Observed /\ UNCHANGED <<ready, wanted, overtaken>>

StartRead ==
    /\ CallsMain(Idle) /\ ready /\ Access(NoWrite)
    /\ main' = Between("Start", ReadControl)
    /\ MainOnly /\ Observed /\ Kept /\ UNCHANGED ready

StartWrite ==
    /\ main.op = "Start"
    /\ Access(Write("AP_CTRL", KeptBits(main.data) \cup {"ap_start"}))
    /\ main' = Idle /\ ready' = FALSE
    /\ asked' = TRUE /\ unnoticed' = (unnoticed \/ ap_ready)
    /\ MainOnly /\ Kept

(* EnableAutoRestart writes 0x80, DisableAutoRestart 0.                     *)
AutoRestart ==
    /\ CallsMain(Idle)
    /\ \E to \in {"on", "off"} :
         /\ Access(Write("AP_CTRL", IF to = "on" THEN {"auto_restart"} ELSE {}))
         /\ wanted' = to
    /\ overtaken' = (handler.op = "Continue")
    /\ MainOnly /\ Observed /\ UNCHANGED <<main, ready, given>>

(* InterruptEnable and InterruptDisable read the mask and write it back.    *)
InterruptRead ==
    /\ CallsMain(Idle) /\ Access(NoWrite)
    /\ \E op \in {"Enable", "Disable"} : main' = Between(op, int_ier)
    /\ MainOnly /\ Observed /\ Kept /\ UNCHANGED ready

InterruptWrite ==
    /\ main.op \in {"Enable", "Disable"}
    /\ \E Mask \in Masks :
         Access(Write("IER", IF main.op = "Enable" THEN main.data \cup Mask
                                                   ELSE main.data \ Mask))
    /\ main' = Idle
    /\ MainOnly /\ Observed /\ Kept /\ UNCHANGED ready

(* InterruptGlobalEnable and InterruptGlobalDisable.                        *)
InterruptGlobal ==
    /\ CallsMain(Idle)
    /\ \E data \in SUBSET {1} : Access(Write("GIE", data))
    /\ MainOnly /\ Observed /\ Kept /\ UNCHANGED <<main, ready>>
-----------------------------------------------------------------------------
(* The handler *)

CallsHandler(op) == uio_num # 0 /\ handler = op
HandlerOnly == UNCHANGED <<uio_num, main, ready>>

IsDone ==
    /\ CallsHandler(Idle) /\ ~done /\ Access(NoWrite)
    /\ done' = ap_done
    /\ unnoticed' = (~ap_done /\ unnoticed)
    /\ asked' = (asked /\ ~Begins)
    /\ HandlerOnly /\ Kept /\ UNCHANGED <<handler, status>>

ContinueRead ==
    /\ CallsHandler(Idle) /\ done /\ Access(NoWrite)
    /\ handler' = Between("Continue", ReadControl)
    /\ HandlerOnly /\ Observed /\ Kept /\ UNCHANGED <<done, status>>

ContinueWrite ==
    /\ handler.op = "Continue"
    /\ Access(Write("AP_CTRL", KeptBits(handler.data) \cup {"ap_continue"}))
    /\ handler' = Idle /\ done' = FALSE
    /\ HandlerOnly /\ Observed /\ Kept /\ UNCHANGED status

InterruptGetStatus ==
    /\ CallsHandler(Idle) /\ interrupt /\ Access(NoWrite)
    /\ status' = int_isr
    /\ HandlerOnly /\ Observed /\ Kept /\ UNCHANGED <<handler, done>>

(* Mutation of ToClear: every bit, whatever the status was.                 *)
ToClearAll == Signal

ToClear == status

InterruptClear ==
    /\ CallsHandler(Idle) /\ status # {}
    /\ Access(Write("ISR", ToClear))
    /\ status' = {}
    /\ HandlerOnly /\ Observed /\ Kept /\ UNCHANGED <<handler, done>>
-----------------------------------------------------------------------------
Tick == NoAccess /\ Observed /\ Kept /\ UNCHANGED callers

Main == \/ IsReady \/ SetLow \/ SetHigh \/ StartRead \/ StartWrite
        \/ AutoRestart \/ InterruptRead \/ InterruptWrite \/ InterruptGlobal
Continue == ContinueRead \/ ContinueWrite
Handler == IsDone \/ Continue \/ InterruptGetStatus \/ InterruptClear

Next == Initialize \/ Release \/ Tick \/ Main \/ Handler

(* The clock ticks, the kernel's loops end (they are bounded by its input), *)
(* the handler goes on waiting and acknowledging, and the bus serves it.    *)
Fairness ==
    /\ WF_vars(Tick /\ state # "running") /\ WF_vars(Tick /\ state' = "state293")
    /\ SF_vars(IsDone /\ done') /\ SF_vars(ContinueRead) /\ SF_vars(ContinueWrite)

Spec == Init /\ [][Next]_vars /\ Fairness
-----------------------------------------------------------------------------
(* Registers and calls have their types; what Start and Continue have read  *)
(* of AP_CTRL holds nothing but the bit they keep.                          *)
TypeOK ==
    /\ RegistersOK
    /\ uio_num \in {0} \cup DOMAIN Devices
    /\ ready \in BOOLEAN /\ done \in BOOLEAN /\ status \subseteq Signal
    /\ asked \in BOOLEAN /\ unnoticed \in BOOLEAN
    /\ wanted \in {"never", "on", "off"} /\ overtaken \in BOOLEAN
    /\ \A call \in {main, handler} :
         /\ call.op = "Set" => call.data \in Values
         /\ call.op \in {"Start", "Continue"} => call.data \subseteq {"auto_restart"}
         /\ call.op \in {"Enable", "Disable"} => call.data \subseteq Signal

(* IsIdle reads a register that is a cycle late, but no answer it can give  *)
(* is: a write before has taken a cycle for its response.                   *)
IdleHonest == int_ap_idle /\ ~responding => ap_idle

(* A run works on an argument as one call of Set has left it, never on two  *)
(* halves of different ones, although the kernel keeps no copy.             *)
ArgumentsWhole == state # "state1" => int_input_data = given

(* Without auto restart no run begins before IsDone has told of the end of  *)
(* the one before.                                                          *)
NoRunUnnoticed == wanted = "never" /\ state # "state1" => ~unnoticed

(* Start and Continue keep auto restart as it was last asked for, unless    *)
(* it is asked for between the two accesses of a Continue.                  *)
AutoRestartAsAsked == ~overtaken => (int_auto_restart <=> wanted = "on")

(* An interrupt is raised only by its signal while it is enabled, although  *)
(* InterruptClear toggles.                                                  *)
NoSpuriousInterrupt ==
    [][\A s \in int_isr' \ int_isr : s \in int_ier /\ s \in Raised]_vars

(* A start is followed by a run, also if the run before was not yet         *)
(* acknowledged when it was written (or the device is closed).              *)
StartsTaken == asked ~> (~asked \/ uio_num = 0)
-----------------------------------------------------------------------------
(* The inductive invariant *)

(* While IsReady would answer 1, and while the end of the last run is not   *)
(* acknowledged, the kernel is in its first state and reads no argument.    *)
ReadyHonest == ~int_ap_start \/ ap_done_reg => state = "state1"

(* As long as main knows the kernel to be ready, no start is written but    *)
(* its own, and between the halves of an argument it knows it.              *)
ArgumentInv ==
    /\ ready => ~int_ap_start
    /\ main.op = "Set" => ready /\ int_input_data["low"] = main.data[1]
    /\ main.op # "Set" => int_input_data = given

(* While auto restart has not been asked for, a run that IsDone has not     *)
(* told of holds done; so does one that is about to be acknowledged.        *)
DoneInv ==
    wanted = "never" =>
      /\ ~overtaken
      /\ unnoticed => ap_done_reg /\ ~int_ap_continue
      /\ int_ap_continue => responding /\ ap_done_reg
      /\ done \/ handler.op = "Continue" =>
           ap_done_reg /\ ~int_ap_continue /\ ~unnoticed

(* What has been read of AP_CTRL to be written back is still true.          *)
RestartInv ==
    ~overtaken =>
      /\ int_auto_restart <=> wanted = "on"
      /\ main.op = "Start" => main.data = ReadControl
      /\ handler.op = "Continue" => handler.data = ReadControl

(* What the kernel, the driver and its callers rely on, at every cycle.     *)
DriverInv ==
    /\ TypeOK /\ ReadyHonest /\ IdleHonest
    /\ ArgumentInv /\ DoneInv /\ RestartInv
    /\ status \subseteq int_isr
=============================================================================

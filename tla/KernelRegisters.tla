-------------------------- MODULE KernelRegisters --------------------------
(***************************************************************************)
(* What the driver of the LZW kernel finds behind its addresses: the       *)
(* control registers (lzw_encode_hw_control_s_axi.v) and the first and     *)
(* last states of the kernel behind them (lzw_encode_hw.v).  A step is one *)
(* cycle of the clock, in which at most one register is read or written.   *)
(***************************************************************************)
EXTENDS Integers, FiniteSets

CONSTANT Values        \* bound: the arguments, as pairs of a low and a high half

VARIABLES
    int_ap_start, int_ap_continue, int_auto_restart,
    int_ap_idle,       \* ap_idle, one cycle later
    int_gie,           \* the line interrupt is connected
    int_ier, int_isr,  \* the interrupts that are enabled, those that are raised
    int_input_data,    \* an argument, written in two halves
    state,             \* of the kernel: its first state, its last, or those between
    ap_done_reg,       \* the last run is done, and ap_continue has not come yet
    responding         \* the register access of the last cycle is not over

Half == UNION {{value[1], value[2]} : value \in Values}
Halves(value) == [low |-> value[1], high |-> value[2]]

registers == <<int_ap_start, int_ap_continue, int_auto_restart, int_ap_idle,
               int_gie, int_ier, int_isr, int_input_data, state, ap_done_reg>>

Signal == {"ap_done", "ap_ready"}

RegistersInit ==
    /\ int_ap_start = FALSE /\ int_ap_continue = FALSE /\ int_auto_restart = FALSE
    /\ int_ap_idle = FALSE
    /\ int_gie = FALSE /\ int_ier = {} /\ int_isr = {}
    /\ int_input_data \in {Halves(value) : value \in Values}
    /\ state = "state1" /\ ap_done_reg = FALSE
    /\ responding = FALSE

ap_done  == state = "state293" \/ ap_done_reg
ap_ready == state = "state293"
interrupt == int_gie /\ int_isr # {}
ap_idle  == ~int_ap_start /\ state = "state1"

Raised == {s \in Signal : \/ s = "ap_done" /\ ap_done
                          \/ s = "ap_ready" /\ ap_ready}

(* A write, or none: data is the set of bits that are 1, or a half.         *)
Write(addr, data) == [addr |-> addr, data |-> data]
NoWrite == Write("none", {})

Written(w, bit) == w.addr = "AP_CTRL" /\ bit \in w.data

StartNext(w) ==
    \/ Written(w, "ap_start")
    \/ IF ap_ready THEN int_auto_restart ELSE int_ap_start

(* For one cycle, after a write or, if it restarts by itself, after a run.  *)
ContinueNext(w) ==
    Written(w, "ap_continue") \/ (ap_done /\ ~int_ap_continue /\ int_auto_restart)

RestartNext(w) ==
    Written(w, "auto_restart") \/ (w.addr # "AP_CTRL" /\ int_auto_restart)

(* A bit is raised by its signal if it is enabled, and toggled by a write.  *)
StatusNext(w) ==
    {s \in Signal : \/ s \in int_ier \cap Raised
                    \/ (s \in int_isr) # (w.addr = "ISR" /\ s \in w.data)}

(* Mutation of DoneNext: ap_continue not connected.                         *)
DoneNextForever == ap_done_reg \/ ap_ready

(* Mutation of DoneNext: cleared in the cycle after the run.                *)
DoneNextPulse == ap_ready

(* ap_done_reg stays until ap_continue comes.                               *)
DoneNext == ~int_ap_continue /\ (ap_done_reg \/ ap_ready)

StateNext ==
    CASE state = "state1" -> IF int_ap_start /\ ~ap_done_reg THEN {"running"} ELSE {state}
      [] state = "running" -> {"running", "state293"}
      [] state = "state293" -> {"state1"}

(* One cycle of the clock, with w on the bus.                               *)
Cycle(w) ==
    /\ int_ap_start' = StartNext(w)
    /\ int_ap_continue' = ContinueNext(w)
    /\ int_auto_restart' = RestartNext(w)
    /\ int_ap_idle' = ap_idle
    /\ int_gie' = IF w.addr = "GIE" THEN w.data # {} ELSE int_gie
    /\ int_ier' = IF w.addr = "IER" THEN w.data ELSE int_ier
    /\ int_isr' = StatusNext(w)
    /\ int_input_data' = IF w.addr \in {"low", "high"}
                         THEN [int_input_data EXCEPT ![w.addr] = w.data] ELSE int_input_data
    /\ state' \in StateNext
    /\ ap_done_reg' = DoneNext

(* Mutation of Access: the next access may follow at once.                  *)
AccessAtOnce(w) == ~responding /\ responding' = FALSE /\ Cycle(w)

(* A register access takes its cycle and the one of the response.           *)
Access(w) == ~responding /\ responding' = TRUE /\ Cycle(w)
NoAccess == responding' = FALSE /\ Cycle(NoWrite)
-----------------------------------------------------------------------------
RegistersOK ==
    /\ int_ap_start \in BOOLEAN /\ int_ap_continue \in BOOLEAN
    /\ int_auto_restart \in BOOLEAN /\ int_ap_idle \in BOOLEAN /\ int_gie \in BOOLEAN
    /\ int_ier \subseteq Signal /\ int_isr \subseteq Signal
    /\ int_input_data \in [{"low", "high"} -> Half]
    /\ state \in {"state1", "running", "state293"}
    /\ ap_done_reg \in BOOLEAN /\ responding \in BOOLEAN
=============================================================================

------------------------------- MODULE Pcald -------------------------------
(***************************************************************************)
(* pcald/pcald.c: the phase-cal extraction program.  The Field System puts *)
(* its orders in shared memory and then wakes it.  pcald works on a copy,  *)
(* looks for a wake between records only, and so goes on for a moment with *)
(* orders that have been replaced.                                         *)
(*                                                                         *)
(* Orders are abstracted to what the control looks at: stop_request,       *)
(* continuous, data_valid (dv: of either recorder) and whether any count   *)
(* is positive (data); serial numbers make two orders of one kind differ.  *)
(***************************************************************************)
EXTENDS Naturals

CONSTANT MaxOrders  \* bound: orders given

ASSUME PcaldAssumption == MaxOrders \in Nat

VARIABLES orders,   \* in shared memory
          given,    \* orders given so far: the serial number of the last
          writer,   \* the Field System: "idle", or "wrote" and yet to wake
          wake,     \* a wake is waiting to be taken by skd_wait or skd_chk
          pcald,    \* the program: pc, its copy of the orders and polls,
                    \* which says that l is still below 50000
          late      \* history: records logged since the wake arrived

pcaldVars == <<orders, given, writer, wake, pcald, late>>

OrdersOf(serials) ==
    [stop : BOOLEAN, continuous : BOOLEAN, dv : BOOLEAN, data : BOOLEAN,
     serial : serials]
Orders == OrdersOf(0..MaxOrders)

Standing ==
    [stop |-> TRUE, continuous |-> FALSE, dv |-> FALSE, data |-> FALSE,
     serial |-> 0]

PcaldTypeOK ==
    /\ orders \in Orders
    /\ given \in 0..MaxOrders
    /\ writer \in {"idle", "wrote"}
    /\ wake \in BOOLEAN
    /\ pcald \in [pc : {"loop", "copy", "copydv", "test", "wait", "poll",
                        "log"},
                  copy : Orders, polls : BOOLEAN]
    /\ late \in 0..2

\* l is never initialised.
PcaldInit ==
    /\ orders = Standing /\ given = 0 /\ writer = "idle" /\ wake = FALSE
    /\ \E b \in BOOLEAN :
          pcald = [pc |-> "loop", copy |-> Standing, polls |-> b]
    /\ late = 0

---------------------------------------------------------------------------
(* External: the Field System's commands.                                 *)

Order ==
    /\ writer = "idle" /\ given < MaxOrders
    /\ given' = given + 1
    /\ orders' \in OrdersOf({given'})
    /\ writer' = "wrote"
    /\ UNCHANGED <<wake, pcald, late>>

Wake ==
    /\ writer = "wrote"
    /\ writer' = "idle"
    /\ wake' = TRUE
    /\ late' = IF wake THEN late ELSE 0
    /\ UNCHANGED <<orders, given, pcald>>

---------------------------------------------------------------------------
(* The program.                                                           *)

Jump(here, next) == pcald.pc = here /\ pcald' = [pcald EXCEPT !.pc = next]
OrdersKept == UNCHANGED <<orders, given, writer>>

\* skd_wait without a time-out.
Woken ==
    /\ Jump("loop", "copy")
    /\ wake /\ wake' = FALSE
    /\ OrdersKept /\ UNCHANGED late

\* wakeup_block: two structures, one after the other.
CopyOrders ==
    /\ pcald.pc = "copy"
    /\ pcald' = [pcald EXCEPT !.pc = "copydv",
                              !.copy = [orders EXCEPT !.dv = pcald.copy.dv]]
    /\ OrdersKept /\ UNCHANGED <<wake, late>>
CopyDataValid ==
    /\ pcald.pc = "copydv"
    /\ pcald' = [pcald EXCEPT !.pc = "test", !.copy.dv = orders.dv]
    /\ OrdersKept /\ UNCHANGED <<wake, late>>

\* Slip: the stop request is not looked at.
Collectable == (pcald.copy.continuous \/ pcald.copy.dv) /\ pcald.copy.data
Wanted == ~pcald.copy.stop /\ Collectable

TestOrders ==
    /\ Jump("test", IF Wanted THEN "wait" ELSE "loop")
    /\ OrdersKept /\ UNCHANGED <<wake, late>>

\* skd_wait for five seconds, and dad_pid.
WaitWoken ==
    /\ Jump("wait", "copy")
    /\ wake /\ wake' = FALSE
    /\ OrdersKept /\ UNCHANGED late

\* Slip: a wake that ended the wait is not told from the time-out.
WaitTimesOutAnyway ==
    /\ Jump("wait", IF pcald.polls THEN "poll" ELSE "log")
    /\ OrdersKept /\ UNCHANGED <<wake, late>>
WaitTimesOut ==
    /\ Jump("wait", IF pcald.polls THEN "poll" ELSE "log")
    /\ ~wake
    /\ OrdersKept /\ UNCHANGED <<wake, late>>

\* skd_chk up to 50000 times, in the first record only: l is not reset.
PollWoken ==
    /\ Jump("poll", "copy")
    /\ wake /\ wake' = FALSE
    /\ OrdersKept /\ UNCHANGED late

PollEnds ==
    /\ pcald.pc = "poll"
    /\ ~wake
    /\ pcald' = [pcald EXCEPT !.pc = "log", !.polls = FALSE]
    /\ OrdersKept /\ UNCHANGED <<wake, late>>

\* One record, then the next of the two loops.
Log ==
    /\ Jump("log", "wait")
    /\ late' = IF wake /\ late < 2 THEN late + 1 ELSE late
    /\ OrdersKept /\ UNCHANGED wake

PcaldStep ==
    \/ Woken \/ CopyOrders \/ CopyDataValid \/ TestOrders \/ WaitWoken
    \/ WaitTimesOut \/ PollWoken \/ PollEnds \/ Log

PcaldNext == Order \/ Wake \/ PcaldStep

\* The Field System wakes pcald once it has written; pcald runs.
PcaldFairness == WF_pcaldVars(Wake) /\ WF_pcaldVars(PcaldStep)

PcaldSpec == PcaldInit /\ [][PcaldNext]_pcaldVars /\ PcaldFairness

(* Records are made with orders that have been replaced only while the     *)
(* Field System has yet to wake pcald or its wake is still to be taken,    *)
(* and of those at most one is logged after the wake arrived, although the *)
(* polling loop runs for the first record only.  pcald.c:46-48, 99-123.    *)
LateByOneRecord ==
    /\ late <= 1
    /\ pcald.pc \in {"wait", "poll", "log"} /\ pcald.copy # orders
          => writer = "wrote" \/ wake

(* Liveness.  When the last order was to stop, logging ends for good.      *)
(* pcald.c:53-54, 103-108.                                                 *)
StopObeyed == <>[](orders.stop /\ writer = "idle") => <>[](pcald.pc = "loop")
=============================================================================

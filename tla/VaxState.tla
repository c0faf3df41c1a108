------------------------------ MODULE VaxState ------------------------------
(***************************************************************************)
(* antrcv/real_askvax.c: the receiver that judges the telescope by its     *)
(* position errors and keeps a ladder of states in shared memory, so that  *)
(* onoff and fivpt, which move the antenna by offsets, may ask for a       *)
(* stricter on-source than observing does:                                 *)
(*   1 just told to move   2 moving   3 arrived   4 stable                 *)
(* A broadcast is abstracted to raw_ionsor: both errors within tolerance.  *)
(* VAXTIME and other messages store times that nothing here depends on.    *)
(***************************************************************************)
EXTENDS StationMemory

VARIABLES raw_ionsor,   \* the last broadcast: within 10 arcsec in both axes
          ant_state,    \* the ladder; other programs only read it
          onoff,        \* external: onoff or fivpt is running
          vax,          \* the program: pc, its next access to a shared word,
                        \* its locals elaps, last_sentoff and ioelaps, and
                        \* stable, which is ln - lreached
          departed      \* history: this process saw the antenna leave after
                        \* a command, and it has not been back for long

vaxVars == <<memoryVars, raw_ionsor, ant_state, onoff, vax, departed>>

Steady == 9     \* ioelaps must exceed this to enter state 3 "by default"
Calm == 3       \* stable must exceed this to enter state 4
Lapse == 10     \* at this elaps the request is cleared in any case

\* Bounds: the counts are only compared with these.  ant_state is taken one
\* down by every broadcast off position; below 1 all its values are alike.
Upto(n, cap) == IF n < cap THEN n + 1 ELSE cap
StateFloor == 0

VaxTypeOK ==
    /\ raw_ionsor \in {0, 1}
    /\ ant_state \in StateFloor..4
    /\ onoff \in BOOLEAN
    /\ vax \in [pc : {"down", "recv", "notice", "expire", "told", "started",
                      "clear", "reached", "remember", "report"},
                elaps : 0..Lapse + 1, last_sentoff : {0, 1},
                ioelaps : 0..Steady + 1, stable : 0..Calm + 1]
    /\ departed \in BOOLEAN

\* A fresh process: statics are zero.
Absent ==
    [pc |-> "down", elaps |-> 0, last_sentoff |-> 0, ioelaps |-> 0,
     stable |-> 0]

VaxInit ==
    /\ MemoryInit
    /\ raw_ionsor = 0 /\ ant_state = 0
    /\ onoff = FALSE
    /\ vax = Absent
    /\ departed = FALSE

Goto(here, next) == vax.pc = here /\ vax' = [vax EXCEPT !.pc = next]

---------------------------------------------------------------------------
(* The process.  ant_state, in shared memory, outlives it.                *)

VaxStart ==
    /\ Goto("down", "recv")
    /\ UNCHANGED <<memoryVars, raw_ionsor, ant_state, onoff, departed>>

VaxExit ==
    /\ vax.pc # "down"
    /\ vax' = Absent
    /\ departed' = FALSE
    /\ UNCHANGED <<memoryVars, raw_ionsor, ant_state, onoff>>

\* VLBIDATA.
VaxReceive ==
    /\ Goto("recv", "notice")
    /\ raw_ionsor' \in {0, 1}
    /\ UNCHANGED <<memoryVars, ant_state, onoff, departed>>

New == antenna_sentoff = 1 /\ vax.last_sentoff = 0

VaxNotice ==
    /\ vax.pc = "notice"
    /\ vax' = [vax EXCEPT
          !.pc = "expire",
          !.elaps = IF New THEN 1 ELSE Upto(@, Lapse + 1),
          !.ioelaps = IF raw_ionsor = 0 THEN 0 ELSE Upto(@, Steady + 1),
          !.stable = Upto(@, Calm + 1)]
    /\ UNCHANGED <<memoryVars, raw_ionsor, ant_state, onoff, departed>>

VaxExpire ==
    /\ Goto("expire", "told")
    /\ antenna_sentoff' = IF vax.elaps = Lapse THEN 0 ELSE antenna_sentoff
    /\ UNCHANGED <<ionsor, raw_ionsor, ant_state, onoff, departed>>

Told ==
    /\ Goto("told", "started")
    /\ ant_state' = IF New THEN 1 ELSE ant_state
    /\ UNCHANGED <<memoryVars, raw_ionsor, onoff, departed>>

Started ==
    /\ Goto("started", "clear")
    /\ antenna_sentoff = 1 /\ raw_ionsor = 0
    /\ ant_state' = 2
    /\ departed' = TRUE
    /\ UNCHANGED <<memoryVars, raw_ionsor, onoff>>

NotStarted ==
    /\ Goto("started", "reached")
    /\ ~(antenna_sentoff = 1 /\ raw_ionsor = 0)
    /\ UNCHANGED <<memoryVars, raw_ionsor, ant_state, onoff, departed>>

StartedClear ==
    /\ Goto("clear", "reached")
    /\ antenna_sentoff' = 0
    /\ UNCHANGED <<ionsor, raw_ionsor, ant_state, onoff, departed>>

\* The rest of the ladder, from the state s.  Slips: no state 3 "by
\* default"; a broadcast off position does not count against the state, or
\* counts for it.
ArrivesMoving(s) == raw_ionsor = 1 /\ s = 2
Arrives(s) == raw_ionsor = 1 /\ (s = 2 \/ (s < 3 /\ vax.ioelaps > Steady))

WobbleNot(s) == s
WobbleUp(s) == IF raw_ionsor = 0 /\ s > StateFloor THEN s + 1 ELSE s
Wobble(s) == IF raw_ionsor = 0 /\ s > StateFloor THEN s - 1 ELSE s

Reached ==
    LET arrives == Arrives(ant_state)
        stable == IF arrives THEN 0 ELSE vax.stable
        s == Wobble(IF arrives THEN 3 ELSE ant_state)
    IN  /\ vax.pc = "reached"
        /\ vax' = [vax EXCEPT !.pc = "remember", !.stable = stable]
        /\ ant_state' = IF s = 3 /\ raw_ionsor = 1 /\ stable > Calm
                        THEN 4 ELSE s
        /\ departed' = (departed /\ vax.ioelaps <= Steady)
        /\ UNCHANGED <<memoryVars, raw_ionsor, onoff>>

VaxRemember ==
    /\ vax.pc = "remember"
    /\ vax' = [vax EXCEPT !.pc = "report", !.last_sentoff = antenna_sentoff]
    /\ UNCHANGED <<memoryVars, raw_ionsor, ant_state, onoff, departed>>

Strict == IF ant_state > 2 /\ antenna_sentoff = 0 THEN raw_ionsor ELSE 0

Report ==
    /\ Goto("report", "recv")
    /\ ionsor' = IF onoff THEN Strict ELSE raw_ionsor
    /\ UNCHANGED <<antenna_sentoff, raw_ionsor, ant_state, onoff, departed>>

VaxStep ==
    \/ VaxReceive \/ VaxNotice \/ VaxExpire \/ Told \/ Started \/ NotStarted
    \/ StartedClear \/ Reached \/ VaxRemember \/ Report

\* External: onoff or fivpt starts or ends; antcn writes the shared words.
OnoffToggles ==
    /\ onoff' = ~onoff
    /\ UNCHANGED <<memoryVars, raw_ionsor, ant_state, vax, departed>>

AntcnInterferes ==
    /\ antenna_sentoff' \in {0, 1}
    /\ ionsor' \in {ionsor, 0}
    /\ UNCHANGED <<raw_ionsor, ant_state, onoff, vax, departed>>

VaxNext == VaxStart \/ VaxExit \/ VaxStep \/ OnoffToggles \/ AntcnInterferes

VaxSpec == VaxInit /\ [][VaxNext]_vaxVars

(* While onoff or fivpt runs, the receiver does not report on source after *)
(* an antenna it saw leaving on a command until it has been on position    *)
(* for ten broadcasts in a row, whoever clears the flag meanwhile, and     *)
(* although the antenna may pass through the position and wobble.          *)
(* real_askvax.c:173-206.                                                  *)
StrictWaits == [][Report /\ onoff /\ departed => ionsor' = 0]_vaxVars

(* Liveness.  With the antenna on position for good, no request flagged    *)
(* and onoff running, on source is reported again and again, whatever the  *)
(* state was driven to, below 0 or left by an earlier process, before.     *)
(* real_askvax.c:169-205.                                                  *)
StrictReports ==
    <>[](raw_ionsor = 1 /\ onoff /\ antenna_sentoff = 0 /\ vax.pc # "down")
       => []<>(ionsor = 1)
=============================================================================

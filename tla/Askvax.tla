------------------------------- MODULE Askvax -------------------------------
(***************************************************************************)
(* antrcv/askvax.c: the receiver of the telescope's UDP broadcasts that    *)
(* antrcv_multi.c replaced.  The same shared words and nearly the same     *)
(* decision, but once per broadcast, after the broadcast is counted.  A    *)
(* broadcast is abstracted to its general status; one that cannot be read  *)
(* leaves gstatus, an automatic variable, with any value.  VMEFRONT_2 and  *)
(* the other messages store readings that nothing here depends on.         *)
(***************************************************************************)
EXTENDS StationMemory

VARIABLE askvax     \* the program: pc, its next access to the shared words,
                    \* and its locals gstatus, elaps and last_sentoff

askvaxVars == <<memoryVars, askvax>>

Window == 4         \* elaps must exceed this before ionsor may be raised
GiveUp == 10        \* at this elaps the request is cleared in any case
CountCap == GiveUp + 1      \* bound: beyond GiveUp all counts are alike

AskvaxTypeOK ==
    askvax \in [pc : {"down", "recv", "notice", "expire", "decide", "clear",
                      "remember"},
                gstatus : {"measure", "other"},
                elaps : 0..CountCap,
                last_sentoff : {0, 1}]

\* A fresh process: statics are zero.
Unborn == [pc |-> "down", gstatus |-> "other", elaps |-> 0, last_sentoff |-> 0]

AskvaxInit == MemoryInit /\ askvax = Unborn

At(here) == askvax.pc = here
Memory == UNCHANGED memoryVars

\* Both socket calls succeed.
AskvaxStart ==
    At("down") /\ askvax' = [Unborn EXCEPT !.pc = "recv"] /\ Memory

\* Killed, or recvfrom fails.
AskvaxExit == ~At("down") /\ askvax' = Unborn /\ Memory

\* VLBI_NEW.
AskvaxReceive ==
    /\ At("recv")
    /\ \E s \in {"measure", "other"} :
          askvax' = [askvax EXCEPT !.pc = "notice", !.gstatus = s]
    /\ Memory

Counted(n) == IF n < CountCap THEN n + 1 ELSE CountCap

\* A rise of the flag starts the count; this broadcast is its first.
AskvaxNotice ==
    /\ At("notice")
    /\ LET new == askvax.last_sentoff = 0 /\ antenna_sentoff = 1
       IN  askvax' = [askvax EXCEPT
              !.pc = "expire",
              !.elaps = IF new THEN 1 ELSE Counted(@),
              !.last_sentoff = IF new THEN 1 ELSE @]
    /\ Memory

AskvaxExpire ==
    /\ At("expire")
    /\ askvax' = [askvax EXCEPT !.pc = "decide"]
    /\ antenna_sentoff' = IF askvax.elaps = GiveUp THEN 0 ELSE antenna_sentoff
    /\ UNCHANGED ionsor

\* Slip: the window as it would be if the count came last.
SettledLate == askvax.elaps + 1 > Window /\ askvax.gstatus = "measure"
Settled == askvax.elaps > Window /\ askvax.gstatus = "measure"

AskvaxDecide ==
    /\ At("decide")
    /\ askvax' = IF Settled
                 THEN [askvax EXCEPT !.pc = "clear", !.last_sentoff = 0]
                 ELSE [askvax EXCEPT !.pc = "remember"]
    /\ ionsor' = IF Settled THEN 1 ELSE 0
    /\ UNCHANGED antenna_sentoff

AskvaxClear ==
    /\ At("clear")
    /\ askvax' = [askvax EXCEPT !.pc = "remember"]
    /\ antenna_sentoff' = 0
    /\ UNCHANGED ionsor

AskvaxRemember ==
    /\ At("remember")
    /\ askvax' = [askvax EXCEPT !.pc = "recv",
                                !.last_sentoff = antenna_sentoff]
    /\ Memory

\* External: antcn raises and clears the flag and lowers ionsor.
AntcnWrites ==
    /\ antenna_sentoff' \in {0, 1}
    /\ ionsor' \in {ionsor, 0}

AskvaxNext ==
    \/ AskvaxStart \/ AskvaxExit \/ AskvaxReceive \/ AskvaxNotice
    \/ AskvaxExpire \/ AskvaxDecide \/ AskvaxClear \/ AskvaxRemember
    \/ AntcnWrites /\ UNCHANGED askvax

AskvaxSpec == AskvaxInit /\ [][AskvaxNext]_askvaxVars

(* While a request is being counted, ionsor is 1 after no broadcast before *)
(* the fifth, however antcn writes the shared words in between.  The       *)
(* window is one broadcast shorter than that of antrcv_multi, which counts *)
(* after it decides.  askvax.c:165-177.                                    *)
AskvaxQuiet ==
    At("recv") /\ askvax.last_sentoff = 1 /\ askvax.elaps <= Window
        => ionsor = 0
=============================================================================

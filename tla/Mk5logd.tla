------------------------------ MODULE Mk5logd ------------------------------
(***************************************************************************)
(* mk5logd/mk5logd.py: the daemon that copies the most recent log to the   *)
(* recorder.  A copy is two processes, tail and ssh, kept in the global    *)
(* logp so that the handler of SIGTERM can stop them.  They are told to    *)
(* stop and not waited for.  SIGCHLD is ignored.                           *)
(***************************************************************************)
EXTENDS Naturals, FiniteSets

CONSTANT MaxCopies  \* bound: copies started

ASSUME Mk5logdAssumption == MaxCopies \in Nat

VARIABLES mk5,      \* the daemon: pc, number of the copy, failures, and the
                    \* number of the copy in logp, 0 for None
          alive,    \* processes that run, <<copy, "tail" or "ssh">>
          signalled,     \* those of them that were sent SIGTERM
          errs,     \* something waits on the standard errors of the copy
          log       \* "recent", or "stale" for longer than the time-out

mk5Vars == <<mk5, alive, signalled, errs, log>>

MaxFailures == 3
Copies == 1..MaxCopies
Processes == Copies \X {"tail", "ssh"}
Pair(n) == {<<n, "tail">>, <<n, "ssh">>}

Mk5Pcs == {"choose", "tail", "ssh", "logp", "check", "stale", "exited"}

Mk5TypeOK ==
    /\ mk5 \in [pc : Mk5Pcs, copy : 0..MaxCopies, logp : 0..MaxCopies,
                failures : 0..(MaxFailures + 1)]
    /\ alive \subseteq Processes
    /\ signalled \subseteq Processes
    /\ errs \in BOOLEAN
    /\ log \in {"recent", "stale"}

Mk5Init ==
    /\ mk5 = [pc |-> "choose", copy |-> 0, logp |-> 0, failures |-> 0]
    /\ alive = {} /\ signalled = {} /\ errs = FALSE
    /\ log \in {"recent", "stale"}

---------------------------------------------------------------------------
(* External: the logs, and the two processes.                             *)

LogChanges ==
    /\ log' \in {"recent", "stale"} \ {log}
    /\ UNCHANGED <<mk5, alive, signalled, errs>>

\* A process ends, at last when told to; with its end of standard error.
ProcessEnds ==
    /\ \E p \in alive :
          /\ alive' = alive \ {p}
          /\ signalled' = signalled \ {p}
          /\ errs' = (errs \/ p[1] = mk5.copy)
    /\ UNCHANGED <<mk5, log>>

ProcessComplains ==
    /\ \E p \in alive : p[1] = mk5.copy
    /\ errs' = TRUE
    /\ UNCHANGED <<mk5, alive, signalled, log>>

---------------------------------------------------------------------------
(* The daemon.                                                            *)

Stop(n) == signalled' = signalled \cup (Pair(n) \cap alive)
World == UNCHANGED <<alive, errs, log>>

\* get_recent_logfile sleeps until there is one.
ChooseLog ==
    /\ mk5.pc = "choose" /\ log = "recent" /\ mk5.copy < MaxCopies
    /\ mk5' = [mk5 EXCEPT !.pc = "tail"]
    /\ UNCHANGED signalled /\ World

StartTail ==
    /\ mk5.pc = "tail"
    /\ mk5' = [mk5 EXCEPT !.pc = "ssh", !.copy = @ + 1]
    /\ alive' = alive \cup {<<mk5'.copy, "tail">>}
    /\ errs' = FALSE
    /\ UNCHANGED <<signalled, log>>

StartSsh ==
    /\ mk5.pc = "ssh"
    /\ mk5' = [mk5 EXCEPT !.pc = "logp"]
    /\ alive' = alive \cup {<<mk5.copy, "ssh">>}
    /\ UNCHANGED <<signalled, errs, log>>

SetLogp ==
    /\ mk5.pc = "logp"
    /\ mk5' = [mk5 EXCEPT !.pc = "check", !.logp = mk5.copy]
    /\ UNCHANGED signalled /\ World

\* The count is tested at the first look at a new copy, too late for it.
TooManyFailures ==
    /\ mk5.pc = "check" /\ mk5.failures > MaxFailures
    /\ mk5' = [mk5 EXCEPT !.pc = "exited"]
    /\ Stop(mk5.logp) /\ World

\* poll() reports the end of tail: ssh is stopped, and no failure counted.
TailEnded ==
    /\ mk5.pc = "check" /\ mk5.failures <= MaxFailures
    /\ <<mk5.copy, "tail">> \notin alive
    /\ mk5' = [mk5 EXCEPT !.pc = "choose"]
    /\ Stop(mk5.logp) /\ World

\* With SIGCHLD ignored poll() may not report it.  Slip: the count is not
\* looked at.
ErrorsForEver ==
    /\ mk5.pc = "check"
    /\ errs
    /\ mk5' = [mk5 EXCEPT !.pc = "choose", !.failures = @ + 1]
    /\ Stop(mk5.logp) /\ World
Errors ==
    /\ mk5.pc = "check" /\ mk5.failures <= MaxFailures
    /\ errs
    /\ mk5' = [mk5 EXCEPT !.pc = "choose", !.failures = @ + 1]
    /\ Stop(mk5.logp) /\ World

AllWell ==
    /\ mk5.pc = "check" /\ mk5.failures <= MaxFailures
    /\ ~errs
    /\ mk5' = [mk5 EXCEPT !.pc = "stale", !.failures = 0]
    /\ UNCHANGED signalled /\ World

\* Slip: a log that has become stale is left to its copy.
GiveUpStaleOnly ==
    /\ mk5.pc = "stale" /\ log = "stale"
    /\ mk5' = [mk5 EXCEPT !.pc = "choose", !.logp = 0]
    /\ UNCHANGED signalled /\ World
GiveUpStale ==
    /\ mk5.pc = "stale" /\ log = "stale"
    /\ mk5' = [mk5 EXCEPT !.pc = "choose", !.logp = 0]
    /\ Stop(mk5.logp) /\ World

NotStale ==
    /\ mk5.pc = "stale" /\ log = "recent"
    /\ mk5' = [mk5 EXCEPT !.pc = "check"]
    /\ UNCHANGED signalled /\ World

\* SIGTERM, or an exception in the loop, at any moment.
Finish ==
    /\ mk5.pc # "exited"
    /\ mk5' = [mk5 EXCEPT !.pc = "exited"]
    /\ IF mk5.logp = 0 THEN UNCHANGED signalled ELSE Stop(mk5.logp)
    /\ World

Mk5Step ==
    \/ ChooseLog \/ StartTail \/ StartSsh \/ SetLogp \/ TooManyFailures
    \/ TailEnded \/ Errors \/ AllWell \/ GiveUpStale \/ NotStale

Mk5Next ==
    \/ LogChanges \/ ProcessEnds \/ ProcessComplains \/ Mk5Step \/ Finish

Mk5Spec == Mk5Init /\ [][Mk5Next]_mk5Vars

(* Every copier that still runs has been told to stop, but those of the    *)
(* copy in hand: a new copy is never started beside an untold one, and     *)
(* none outlives the daemon, unless it ends between the start of the first *)
(* process and the assignment of logp: by SIGTERM, or because ssh cannot be*)
(* started (the second Popen raises); then the tail is left.               *)
(* mk5logd.py:219-277.                                                     *)
CopiersTold ==
    /\ \A p \in alive \ signalled : p[1] = mk5.copy
    /\ mk5.pc \in {"choose", "tail"} => alive \subseteq signalled
    /\ mk5.pc = "exited" /\ mk5.logp = mk5.copy => alive \subseteq signalled
=============================================================================

------------------------------- MODULE Cheks -------------------------------
(***************************************************************************)
(* cheks/cheks.c: the module checking program.  For every module it reads  *)
(* the check control word stchk, takes the data from the module while it   *)
(* holds the semaphore fsctl, and reports errors only if stchk is still    *)
(* what it was, because a command may have switched the checking off, or   *)
(* on for new settings, meanwhile.  The sample finds no errors itself; the *)
(* report stands for what a station adds.                                  *)
(***************************************************************************)
EXTENDS Naturals

CONSTANTS Modules,  \* modules with a mnemonic
          Settings  \* positive control words: checking on, with its count

ASSUME CheksAssumption == Settings \subseteq Nat \ {0}

VARIABLES stchk,    \* fscom: 0 while a module is not checked
          fsctl,    \* who holds the semaphore
          cheks     \* pc, module i, rest of the modules, checks, nreport

cheksVars == <<stchk, fsctl, cheks>>

CheksPcs == {"wait", "next", "checking", "remember", "take", "put", "retest",
             "report"}

CheksTypeOK ==
    /\ stchk \in [Modules -> Settings \cup {0}]
    /\ fsctl \in {"free", "cheks", "fs"}
    /\ cheks \in [pc : CheksPcs, i : Modules, rest : SUBSET Modules,
                  checks : Settings \cup {0}, nreport : {0, 1}]

CheksInit ==
    /\ stchk = [m \in Modules |-> 0]
    /\ fsctl = "free"
    /\ \E m \in Modules :
          cheks = [pc |-> "wait", i |-> m, rest |-> {}, checks |-> 0,
                   nreport |-> 0]

\* External: a command changes the checking of a module; another program
\* uses the semaphore.
SetCheck ==
    /\ \E m \in Modules, c \in Settings \cup {0} :
          stchk' = [stchk EXCEPT ![m] = c]
    /\ UNCHANGED <<fsctl, cheks>>

FsTakes == fsctl = "free" /\ fsctl' = "fs" /\ UNCHANGED <<stchk, cheks>>
FsPuts == fsctl = "fs" /\ fsctl' = "free" /\ UNCHANGED <<stchk, cheks>>

Skip(here, next) == cheks.pc = here /\ cheks' = [cheks EXCEPT !.pc = next]
Shared == UNCHANGED <<stchk, fsctl>>

\* skd_wait returns; ip[0] says whether to report.
Called ==
    /\ cheks.pc = "wait"
    /\ \E r \in {0, 1} :
          cheks' = [cheks EXCEPT !.pc = "next", !.rest = Modules,
                                 !.nreport = r]
    /\ Shared

NextModule ==
    /\ cheks.pc = "next"
    /\ \E m \in cheks.rest :
          cheks' = [cheks EXCEPT !.pc = "checking", !.i = m,
                                 !.rest = @ \ {m}]
    /\ Shared

AllDone == Skip("next", "wait") /\ cheks.rest = {} /\ Shared

\* stchk is read to see whether to check, and read again to remember it.
Checking ==
    /\ Skip("checking", IF stchk[cheks.i] = 0 THEN "next" ELSE "remember")
    /\ Shared

RememberChecks ==
    /\ cheks.pc = "remember"
    /\ cheks' = [cheks EXCEPT !.pc = "take", !.checks = stchk[cheks.i]]
    /\ Shared

Take ==
    /\ Skip("take", "put")
    /\ fsctl = "free" /\ fsctl' = "cheks"
    /\ UNCHANGED stchk

Put ==
    /\ Skip("put", IF cheks.nreport = 0 THEN "retest" ELSE "next")
    /\ fsctl' = "free"
    /\ UNCHANGED stchk

\* Slip: only a change is looked for.
UnchangedOnly == cheks.checks = stchk[cheks.i]
StillChecking == cheks.checks = stchk[cheks.i] /\ stchk[cheks.i] > 0

Retest ==
    /\ Skip("retest", IF StillChecking THEN "report" ELSE "next")
    /\ Shared

ReportErrors == Skip("report", "next") /\ Shared

CheksNext ==
    \/ SetCheck \/ FsTakes \/ FsPuts
    \/ Called \/ NextModule \/ AllDone \/ Checking \/ RememberChecks
    \/ Take \/ Put \/ Retest \/ ReportErrors

CheksSpec == CheksInit /\ [][CheksNext]_cheksVars

(* Errors are reported only with checking on when the data were asked for, *)
(* although the word that says so is read three times and may be switched  *)
(* off between the first and the second; and however the pass over the     *)
(* modules is cut short, the semaphore is never left taken.  A module that *)
(* is switched off after the last look is reported all the same.           *)
(* cheks.c:63-111.                                                         *)
ReportsChecked ==
    /\ cheks.pc = "report" => cheks.checks \in Settings
    /\ fsctl = "cheks" <=> cheks.pc = "put"
=============================================================================

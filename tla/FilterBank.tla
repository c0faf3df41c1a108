----------------------------- MODULE FilterBank -----------------------------
(***************************************************************************)
(* antcn/VLBIsend.py: set_fiba and ask_fiba, the dialogue with the multi-  *)
(* filter bank that VlbiServer abstracts to whether it raises.  The bank   *)
(* has two channels, 8 and 16 MHz wide; every command has a connection of  *)
(* its own and may be lost, or be obeyed and its answer lost.              *)
(***************************************************************************)
EXTENDS Integers

CONSTANT FibaLos    \* frequencies asked for, in hundredths of a MHz

ASSUME FibaAssumption == FibaLos \subseteq Int

VARIABLES bank,     \* the filter of either channel
          fiba,     \* the call: pc, filter_req, modeFiba08, modeFiba16
          astray    \* history: a command was lost since both last obeyed

fibaVars == <<bank, fiba, astray>>

Filters == {"033", "161", "185"}
FibaPcs == {"idle", "first", "compare", "set08", "set16", "second",
            "returned", "error", "raised"}

FibaTypeOK ==
    /\ bank \in [{"08", "16"} -> Filters]
    /\ fiba \in [pc : FibaPcs, filter_req : Filters,
                 modes : [{"08", "16"} -> Filters]]
    /\ astray \in BOOLEAN

FilterReq(sumlo) ==
    CASE sumlo = 2404800 -> "033"
      [] sumlo < 160000 \/ sumlo = 811000 -> "161"
      [] OTHER -> "185"

\* Somebody may have set the channels apart by hand.
FibaInit ==
    /\ bank \in [{"08", "16"} -> Filters]
    /\ fiba = [pc |-> "idle", filter_req |-> bank["08"], modes |-> bank]
    /\ astray = (bank["08"] # bank["16"])

FibaAt(here, next) == fiba.pc = here /\ fiba' = [fiba EXCEPT !.pc = next]

\* For a new frequency, or SETFIBA.
SetFiba ==
    /\ fiba.pc \in {"idle", "returned", "error", "raised"}
    /\ \E sumlo \in FibaLos :
          fiba' = [fiba EXCEPT !.pc = "first",
                               !.filter_req = FilterReq(sumlo)]
    /\ UNCHANGED <<bank, astray>>

\* ask_fiba("X99ZZZZ"): 448 bytes within the time-outs, or None.
Ask(here, next) ==
    /\ fiba.pc = here
    /\ fiba' = [fiba EXCEPT !.pc = next, !.modes = bank]
    /\ UNCHANGED <<bank, astray>>

AskFirst == Ask("first", "compare")
NoFirstAnswer == FibaAt("first", "error") /\ UNCHANGED <<bank, astray>>
\* The answer cannot be split or read as numbers.
FirstUnreadable == FibaAt("first", "raised") /\ UNCHANGED <<bank, astray>>

\* Only the 8 MHz channel is looked at.
Compare ==
    /\ FibaAt("compare", IF fiba.modes["08"] = fiba.filter_req
                         THEN "returned" ELSE "set08")
    /\ UNCHANGED <<bank, astray>>

\* The answer to a setting is not looked at.
SetChannel(c, here, next) ==
    /\ FibaAt(here, next)
    /\ bank' = [bank EXCEPT ![c] = fiba.filter_req]
SettingLost(here, next) ==
    /\ FibaAt(here, next)
    /\ astray' = TRUE
    /\ UNCHANGED bank

Set08 == SetChannel("08", "set08", "set16") /\ UNCHANGED astray
Set08Lost == SettingLost("set08", "set16")

\* Slip: the 16 MHz channel is given the filter the other one had.
Set16Old ==
    /\ FibaAt("set16", "second")
    /\ bank' = [bank EXCEPT !["16"] = fiba.modes["08"]]
    /\ astray' = (bank["08"] # fiba.filter_req)
Set16 ==
    /\ SetChannel("16", "set16", "second")
    /\ astray' = (bank["08"] # fiba.filter_req)
Set16Lost == SettingLost("set16", "second")

\* Nothing tests for None here: its split raises.
AskSecond == Ask("second", "returned")
NoSecondAnswer == FibaAt("second", "raised") /\ UNCHANGED <<bank, astray>>

\* The connection breaks and the call raises, or the server ends and the
\* operator starts it again.
FibaEnds ==
    /\ fiba.pc \notin {"idle", "returned", "error", "raised"}
    /\ \E next \in {"idle", "raised"} : fiba' = [fiba EXCEPT !.pc = next]
    /\ astray' = (astray \/ fiba.pc = "set16")
    /\ UNCHANGED bank

FibaNext ==
    \/ SetFiba \/ AskFirst \/ NoFirstAnswer \/ FirstUnreadable \/ Compare
    \/ Set08 \/ Set08Lost \/ Set16 \/ Set16Lost \/ AskSecond
    \/ NoSecondAnswer \/ FibaEnds

FibaSpec == FibaInit /\ [][FibaNext]_fibaVars

(* The pair that is printed and logged is what the bank has, and both      *)
(* channels have the filter the frequency calls for although only one is   *)
(* compared, unless a setting has been lost, or left out by the death of   *)
(* the server, since both were last made.  VLBIsend.py:166-182.            *)
FiltersFollow ==
    fiba.pc = "returned" =>
        /\ fiba.modes = bank
        /\ astray \/ bank = [c \in {"08", "16"} |-> fiba.filter_req]
=============================================================================

---------------------------- MODULE VlbiServer ----------------------------
(***************************************************************************)
(* antcn/VLBIsend.py: the VLBI server.  It receives antcn's datagrams,     *)
(* compares each command line with the last one, forwards what is new to   *)
(* the telescope's control computer (be4), and switches the phase-cal      *)
(* distributor (S197) and the IF box (S275) over TCP.                      *)
(*                                                                         *)
(* One datagram is handled at a time and nobody else writes what the       *)
(* handler reads, so a handler is one action; its failures are choices.    *)
(* The multi-filter bank (set_fiba) is abstracted to whether it raises.    *)
(* A source stands for its name and its coordinates; frequencies are in    *)
(* hundredths of a MHz, which is what antcn prints.                        *)
(***************************************************************************)
EXTENDS CommandWords, Integers

CONSTANTS Los,      \* frequencies a line may carry
          Faults    \* devices that may fail: "S197", "S275", "FiBa"

VARIABLES up,         \* the server runs
          be4Sock,    \* be4Sock has been assigned
          oldstring,  \* the last line, as forwarded
          osource, osumlo, otcal, ophascal,
          azm,        \* the azimuth offset waiting for its elevation
          be4,        \* what be4 was last told
          pcalSwitch, \* code the phase-cal distributor was last sent
          ifBox,      \* input the IF box was last sent
          ifFault,    \* the IF box did not take its last switch
          wanted,     \* the last command line handled
          owed,       \* it was a real one, and the last datagram but raw ones
          failed      \* the server forgot the last line it forwarded in full

remembered == <<oldstring, osource, osumlo, otcal, ophascal>>
devices == <<be4, pcalSwitch, ifBox>>
history == <<ifFault, wanted, owed, failed>>
serverVars == <<up, be4Sock, remembered, azm, devices, history>>

NoTarget == "NONE"
NoLo == -100    \* -1.0: no LO given
Unset == -1

Lines == [kind : {"line"}, source : Targets \cup {NoTarget}, lo : Los,
          tcal : {0, 1}, pcal : {0, 1}, wrap : Wraps \cup {"1950FSX"}]

\* Data is rebuilt with one decimal of the frequency ("%.1f").  Which way a
\* hundredth of 5 goes depends on the binary float: up, here.
Tenth(lo) == ((lo + 5) \div 10) * 10

\* The IF box's input for a frequency.
IfInput(lo) == CASE lo = 17700 -> "j" [] lo = 811000 -> "i" [] OTHER -> "5"

\* Two frequencies the server would print alike have the same IF input, and
\* none but the one that means none is printed like it.
ASSUME ServerAssumption ==
    /\ Los \subseteq Int
    /\ \A f, g \in Los : Tenth(f) = Tenth(g) => IfInput(f) = IfInput(g)
    /\ \A f \in Los : Tenth(f) = NoLo => f = NoLo
    /\ NoTarget \notin Targets /\ "onoff" \notin Targets
    /\ Faults \subseteq {"S197", "S275", "FiBa"}

\* What be4 is sent for a line; the cal word is 0, 1, 10 (off) or 11 (on).
Text(l, tcal) ==
    [kind |-> "line", source |-> l.source, lo |-> Tenth(l.lo),
     tcal |-> tcal, pcal |-> l.pcal, wrap |-> l.wrap]
OffsetText == [kind |-> "offset text"]
OffsetPair(a, e) == [kind |-> "offsets", azm |-> a, elv |-> e]
Pointing == [kind |-> "pointing"]

\* pcalon: the distributor's code of the receiver that covers the frequency.
PcalRanges ==
    {<<90000, 175000, "1">>, <<501000, 600000, "0">>,
     <<8400000, 9600000, "0">>, <<400000, 500000, "i">>,
     <<710000, 900000, "m">>, <<1200000, 1550000, "k">>,
     <<1700000, 2500000, "k">>, <<4000000, 4500000, "k">>}
PcalOff == "@"
PcalOn(lo) ==
    IF \E r \in PcalRanges : r[1] < lo /\ lo < r[2]
    THEN (CHOOSE r \in PcalRanges : r[1] < lo /\ lo < r[2])[3]
    ELSE PcalOff
PcalCode(l) == IF l.pcal = 1 THEN PcalOn(l.lo) ELSE PcalOff

StartText ==
    [kind |-> "line", source |-> NoTarget, lo |-> NoLo, tcal |-> 1,
     pcal |-> 0, wrap |-> "1950FSX"]

Forget ==
    /\ oldstring' = StartText
    /\ osource' = NoTarget
    /\ osumlo' = 0
    /\ otcal' = 0
    /\ ophascal' = Unset

ServerInit ==
    /\ up = TRUE
    /\ be4Sock = FALSE
    /\ oldstring = StartText
    /\ osource = NoTarget
    /\ osumlo = 0
    /\ otcal = 0
    /\ ophascal = Unset
    /\ azm = Unset
    /\ be4 = OffsetText
    /\ pcalSwitch = PcalOff
    /\ ifBox = "5"
    /\ ifFault = FALSE
    /\ wanted = [kind |-> "line", source |-> NoTarget, lo |-> NoLo,
                 tcal |-> 0, pcal |-> 0, wrap |-> "1950FSX"]
    /\ owed = FALSE
    /\ failed = FALSE

---------------------------------------------------------------------------
(* A command line: ">>SV ...".                                            *)

Real(l) == l.source # NoTarget /\ l.lo # NoLo
Changed(l) == oldstring # Text(l, l.tcal)

Remember(text, tcal) ==
    /\ oldstring' = text
    /\ osource' = text.source
    /\ osumlo' = text.lo
    /\ otcal' = tcal
    /\ ophascal' = text.pcal

TakesLine(l) ==
    /\ up
    /\ be4Sock' = TRUE
    /\ wanted' = l
    /\ owed' = Real(l)
    /\ UNCHANGED <<up, azm>>

SwitchPcal(l) ==
    \/ pcalSwitch' = PcalCode(l)
    \/ "S197" \in Faults /\ UNCHANGED pcalSwitch

SwitchIf(l) ==
    \/ ifBox' = IfInput(l.lo) /\ ifFault' = FALSE
    \/ "S275" \in Faults /\ UNCHANGED ifBox /\ ifFault' = TRUE

LineNewLo(l) ==
    /\ TakesLine(l)
    /\ Real(l) /\ Changed(l) /\ l.lo # osumlo
    /\ be4' = Text(l, l.tcal)
    /\ SwitchPcal(l)
    /\ SwitchIf(l)
    /\ Remember(be4', l.tcal)
    /\ failed' = FALSE

\* set_fiba raises: everything has been switched, nothing is remembered.
LineFilterFails(l) ==
    /\ "FiBa" \in Faults
    /\ TakesLine(l)
    /\ Real(l) /\ Changed(l) /\ l.lo # osumlo
    /\ be4' = Text(l, l.tcal)
    /\ SwitchPcal(l)
    /\ SwitchIf(l)
    /\ failed' = TRUE
    /\ UNCHANGED remembered

\* Mutant: a new source leaves the IF box to the last new frequency.
LineNewSourceOnly(l) ==
    /\ TakesLine(l)
    /\ Real(l) /\ Changed(l) /\ l.lo = osumlo /\ l.source # osource
    /\ be4' = Text(l, l.tcal)
    /\ Remember(be4', l.tcal)
    /\ UNCHANGED <<pcalSwitch, ifBox, ifFault>>
    /\ failed' = FALSE

LineNewSource(l) ==
    /\ TakesLine(l)
    /\ Real(l) /\ Changed(l) /\ l.lo = osumlo /\ l.source # osource
    /\ be4' = Text(l, l.tcal)
    /\ SwitchIf(l)
    /\ Remember(be4', l.tcal)
    /\ failed' = FALSE
    /\ UNCHANGED pcalSwitch

Same(l) == Real(l) /\ Changed(l) /\ l.lo = osumlo /\ l.source = osource

\* Mutant: off is remembered the way be4 was told.
LineNewTcalAsTold(l) ==
    /\ TakesLine(l)
    /\ Same(l) /\ l.tcal # otcal
    /\ be4' = Text(l, 10 + l.tcal)
    /\ Remember(be4', 10 + l.tcal)
    /\ UNCHANGED <<pcalSwitch, ifBox, ifFault, failed>>

\* be4 wants the cal word as 10 or 11 here; off is remembered as 0, on as 11.
LineNewTcal(l) ==
    /\ TakesLine(l)
    /\ Same(l) /\ l.tcal # otcal
    /\ be4' = Text(l, 10 + l.tcal)
    /\ Remember(be4', IF l.tcal = 1 THEN 11 ELSE 0)
    /\ UNCHANGED <<pcalSwitch, ifBox, ifFault, failed>>

LineNewPcal(l) ==
    /\ TakesLine(l)
    /\ Same(l) /\ l.tcal = otcal /\ l.pcal # ophascal
    /\ SwitchPcal(l)
    /\ Remember(Text(l, l.tcal), l.tcal)
    /\ UNCHANGED <<be4, ifBox, ifFault, failed>>

\* Another wrap, or cal off again: remembered, not acted on.
LineNoAction(l) ==
    /\ TakesLine(l)
    /\ Same(l) /\ l.tcal = otcal /\ l.pcal = ophascal
    /\ Remember(Text(l, l.tcal), l.tcal)
    /\ UNCHANGED <<devices, ifFault, failed>>

LineNothingNew(l) ==
    /\ TakesLine(l)
    /\ ~(Real(l) /\ Changed(l))
    /\ Remember(Text(l, l.tcal), IF Real(l) THEN l.tcal ELSE 0)
    /\ UNCHANGED <<devices, ifFault, failed>>

HandleLine(l) ==
    \/ LineNewLo(l) \/ LineFilterFails(l) \/ LineNewSource(l)
    \/ LineNewTcal(l) \/ LineNewPcal(l) \/ LineNoAction(l)
    \/ LineNothingNew(l)

\* A line with words missing raises after the socket has been made.
HandleGarbled ==
    /\ up
    /\ be4Sock' = TRUE
    /\ UNCHANGED <<up, remembered, azm, devices, history>>

---------------------------------------------------------------------------
(* The other datagrams; one of another kind is only printed.               *)

\* Mutant: offsets leave the remembered source alone.
DistractKeepsSource ==
    /\ oldstring' = OffsetText
    /\ owed' = FALSE
    /\ UNCHANGED <<osource, osumlo, otcal, ophascal>>

Distract ==
    /\ oldstring' = OffsetText
    /\ osource' = "onoff"
    /\ owed' = FALSE
    /\ UNCHANGED <<osumlo, otcal, ophascal>>

HandleOffAzm(off) ==
    /\ up
    /\ azm' = off
    /\ Distract
    /\ UNCHANGED <<up, be4Sock, devices, ifFault, wanted, failed>>

\* Without an azimuth or a socket the handler raises, and nothing is kept.
HandleOffElv(off) ==
    /\ up
    /\ azm # Unset /\ be4Sock
    /\ be4' = OffsetPair(azm, off)
    /\ Distract
    /\ UNCHANGED <<up, be4Sock, azm, pcalSwitch, ifBox, ifFault, wanted,
                   failed>>
OffElvRaises ==
    /\ up
    /\ azm = Unset \/ ~be4Sock
    /\ UNCHANGED serverVars

HandlePointing ==
    /\ up
    /\ be4' = IF be4Sock THEN Pointing ELSE be4
    /\ UNCHANGED <<up, be4Sock, remembered, azm, pcalSwitch, ifBox, history>>

HandleRepeat ==
    /\ up
    /\ be4' = IF be4Sock THEN oldstring ELSE be4
    /\ UNCHANGED <<up, be4Sock, remembered, azm, pcalSwitch, ifBox, history>>

---------------------------------------------------------------------------
(* The except clause runs after every datagram (shutdown() without its     *)
(* argument raises) and at every time-out, and reads the keyboard: "r"     *)
(* repeats, and kills the server when there is no socket yet; "q" quits.   *)

KeyRepeat ==
    /\ up /\ be4Sock
    /\ be4' = oldstring
    /\ UNCHANGED <<up, be4Sock, remembered, azm, pcalSwitch, ifBox, history>>

ServerEnds ==
    /\ up
    /\ up' = FALSE
    /\ UNCHANGED <<be4Sock, remembered, azm, devices, history>>

ServerStart ==
    /\ ~up
    /\ up' = TRUE
    /\ be4Sock' = FALSE
    /\ azm' = Unset
    /\ Forget
    /\ owed' = FALSE
    /\ UNCHANGED <<devices, ifFault, wanted, failed>>

---------------------------------------------------------------------------
(* The server by itself, fed with any line in any order.                  *)

ServerNext ==
    \/ \E l \in Lines : HandleLine(l)
    \/ \E off \in Offsets : HandleOffAzm(off) \/ HandleOffElv(off)
    \/ HandleGarbled \/ HandlePointing \/ HandleRepeat
    \/ KeyRepeat \/ ServerEnds \/ ServerStart

ServerSpec == ServerInit /\ [][ServerNext]_serverVars

Texts == [kind : {"line"}, source : Targets \cup {NoTarget},
          lo : {Tenth(f) : f \in Los \cup {NoLo}}, tcal : {0, 1, 10, 11},
          pcal : {0, 1}, wrap : Wraps \cup {"1950FSX"}]

Rounded == {Tenth(f) : f \in Los} \cup {0}
Told == Texts \cup {OffsetText, Pointing}
        \cup {OffsetPair(a, e) : a \in Offsets, e \in Offsets}

ServerTypeOK ==
    /\ up \in BOOLEAN
    /\ be4Sock \in BOOLEAN
    /\ oldstring \in Texts \cup {OffsetText}
    /\ osource \in Targets \cup {NoTarget, "onoff"}
    /\ osumlo \in Rounded
    /\ otcal \in {0, 1, 11}
    /\ ophascal \in {0, 1, Unset}
    /\ azm \in Offsets \cup {Unset}
    /\ be4 \in Told
    /\ ifFault \in BOOLEAN
    /\ owed \in BOOLEAN
    /\ failed \in BOOLEAN

\* A cal word as on or off.
OnOff(tcal) == IF tcal \in {1, 11} THEN 1 ELSE 0

(* Once a real line has been handled be4 has its source, its frequency and *)
(* its cal state, though only lines that differ are forwarded, and whatever*)
(* came before: offsets, lines without a source, repeats, restarts, lost   *)
(* switches.  Left out are a line the filter bank made the server forget,  *)
(* and a POINTING message, which the server does not remember at all.      *)
(* VLBIsend.py:292-437.                                                    *)
Be4Current ==
    up /\ owed /\ ~failed /\ be4 # Pointing =>
        /\ be4.kind = "line"
        /\ be4.source = wanted.source
        /\ be4.lo = Tenth(wanted.lo)
        /\ OnOff(be4.tcal) = wanted.tcal

(* The IF box has the input of the receiver last asked for, unless its last*)
(* switch did not get through.  VLBIsend.py:319-345, 353-379.              *)
IfBoxCurrent ==
    up /\ owed /\ ~failed /\ ~ifFault => ifBox = IfInput(wanted.lo)
===========================================================================

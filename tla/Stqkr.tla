------------------------------- MODULE Stqkr -------------------------------
(***************************************************************************)
(* stqkr: the station's SNAP commands.  stqkr.c receives a parsed command, *)
(* dispatches on its numbers, and the command's function checks it, stores *)
(* its value in shared memory and has antcn send it (mode 100).            *)
(*                                                                         *)
(* Each command keeps a static copy of its value, which is what it reports *)
(* and what it stores when its argument is none it knows.                  *)
(***************************************************************************)
EXTENDS AntcnLine

CONSTANTS CalArgs,   \* arguments of cal=
          PcalArgs,  \* arguments of phasecal=
          RxNames,   \* receivers asked for by name
          LoNames,   \* LOs asked for: loa, lob, loc, lod, or none of them
          LoFreqs,   \* frequencies asked for
          Modes      \* sideband and polarisation pairs asked for

ASSUME StqkrAssumption == LoFreqs \subseteq Int

VARIABLES stm,       \* ieffcal, ieffpcal, ieffrx of stcom
          own,       \* the statics of effcal, effpcal, effrx and efflo
          sideband, pol,
          reply,     \* ip[2] of the last command, or Unanswered
          synced,    \* antcn has served a mode 100 since it started
          told       \* cal= or phasecal= has been used since stqkr started

stqkrVars == <<stm, own, sideband, pol, reply, synced, told>>
commandVars == <<lo, eff, wire, stqkrVars>>

Unanswered == 1  \* ip[] goes back as it came, a class number in ip[0]

\* effrx's table: the LO in MHz of a receiver; a name it lacks keeps the last.
RxLo(name, kept) ==
    CASE name = "0cm" -> 0 [] name = "3mm" -> 85900 [] name = "7mm" -> 42960
      [] name \in {"13mm", "1cm", "1.3cm"} -> 22080 [] name = "2cm" -> 15000
      [] name \in {"4cm", "3.6cm"} -> 8260 [] name \in {"sx", "geo"} -> 8110
      [] name = "6cm" -> 4840 [] name = "5cm" -> 6500 [] name = "18cm" -> 1510
      [] name = "21cm" -> 1270 [] name = "30cm" -> 650 [] name = "50cm" -> 500
      [] OTHER -> kept

StqkrInit ==
    /\ LineInit
    /\ stm = [ieffcal |-> 0, ieffpcal |-> 0, ieffrx |-> 0]
    /\ own = [cal |-> 0, pcal |-> 0, rx |-> 0, floa |-> 0]
    /\ sideband = [k \in Ifs |-> 0]
    /\ pol = [k \in Ifs |-> 0]
    /\ reply = 0
    /\ synced = FALSE
    /\ told = {}

---------------------------------------------------------------------------
(* stqkr.c: what happens before and instead of a command.                 *)

Refused(ierr) ==
    /\ reply' = ierr
    /\ UNCHANGED <<lo, eff, wire, stm, own, sideband, pol, synced, told>>

\* No class, a command too long, unparsable, or of an unknown group.
Rejected == \E ierr \in {-1, -2, -3, -4} : Refused(ierr)

\* A known group with an item of no command: nobody touches ip[].
Ignored == Refused(Unanswered)

\* A query: cal, phasecal, rx, lo, wx or gps puts its report in a class.
Report == Refused(0)

---------------------------------------------------------------------------
(* effcal, effpcal and effrx.                                             *)

Served ==
    /\ reply' = 0
    /\ synced' = TRUE

OnOffArg(arg, kept) == CASE arg = "on" -> 1 [] arg = "off" -> 0
                         [] OTHER -> kept

Cal(arg) ==
    /\ own' = [own EXCEPT !.cal = OnOffArg(arg, own.cal)]
    /\ stm' = [stm EXCEPT !.ieffcal = own'.cal]
    /\ SendCal(lo, stm'.ieffcal, stm'.ieffpcal)
    /\ Served
    /\ told' = told \cup {"cal"}
    /\ UNCHANGED <<lo, sideband, pol>>

Phasecal(arg) ==
    /\ own' = [own EXCEPT !.pcal = OnOffArg(arg, own.pcal)]
    /\ stm' = [stm EXCEPT !.ieffpcal = own'.pcal]
    /\ SendCal(lo, stm'.ieffcal, stm'.ieffpcal)
    /\ Served
    /\ told' = told \cup {"phasecal"}
    /\ UNCHANGED <<lo, sideband, pol>>

\* Mutant: the cal words come from stqkr's statics.
RxOwnWords(arg) ==
    /\ own' = [own EXCEPT !.rx = RxLo(arg, own.rx)]
    /\ stm' = [stm EXCEPT !.ieffrx = own'.rx]
    /\ lo' = [lo EXCEPT ![0] = 100 * own'.rx]
    /\ SendCal(lo', own.cal, own.pcal)
    /\ Served
    /\ UNCHANGED <<sideband, pol, told>>

Rx(arg) ==
    /\ own' = [own EXCEPT !.rx = RxLo(arg, own.rx)]
    /\ stm' = [stm EXCEPT !.ieffrx = own'.rx]
    /\ lo' = [lo EXCEPT ![0] = 100 * own'.rx]
    /\ SendCal(lo', stm'.ieffcal, stm'.ieffpcal)
    /\ Served
    /\ UNCHANGED <<sideband, pol, told>>

\* cal=, phasecal= and rx= without an argument.
NoArgument == \E ierr \in {-104, -103, -102} : Refused(ierr)

---------------------------------------------------------------------------
(* efflo.                                                                 *)

NoFreq == -100      \* -1.0: the value that means none
Unreadable == -1    \* sscanf finds no number: the last one read stays

LoIndex == [loa |-> 0, lob |-> 1, loc |-> 2, lod |-> 3]

\* Where lines 47, 56, 65 and 74 put the default sideband and polarisation.
DefaultIf(k) == IF k = 0 THEN 0 ELSE 1

\* Word 1 is usb or rcp, 2 is lsb or lcp, any other keeps what is there.
Named(f, k, default, word) ==
    LET d == [f EXCEPT ![DefaultIf(k)] = default]
    IN  [d EXCEPT ![k] = IF word \in {1, 2} THEN word ELSE d[k]]

Lo(name, freq, m) ==
    LET floa == IF freq = Unreadable THEN own.floa ELSE freq IN
    /\ floa # NoFreq
    /\ own' = [own EXCEPT !.floa = floa]
    /\ IF name \in DOMAIN LoIndex
       THEN LET k == LoIndex[name] IN
            /\ lo' = [lo EXCEPT ![k] = floa]
            /\ sideband' = Named(sideband, k, 1, m[1])
            /\ pol' = Named(pol, k, 2, m[2])
       ELSE UNCHANGED <<lo, sideband, pol>>
    /\ SendCal(lo', stm.ieffcal, stm.ieffpcal)
    /\ Served
    /\ UNCHANGED <<stm, told>>

\* -1.0 read, or left over from lo=: refused.
LoNoFreq(freq) ==
    LET floa == IF freq = Unreadable THEN own.floa ELSE freq IN
    /\ floa = NoFreq
    /\ own' = [own EXCEPT !.floa = floa]
    /\ reply' = -101
    /\ UNCHANGED <<lo, eff, wire, stm, sideband, pol, synced, told>>

\* lo= clears two LOs of four, tells nobody and is answered as an error.
LoClear ==
    /\ lo' = [lo EXCEPT ![0] = 0, ![2] = 0]
    /\ own' = [own EXCEPT !.floa = NoFreq]
    /\ reply' = -101
    /\ UNCHANGED <<eff, wire, stm, sideband, pol, synced, told>>

---------------------------------------------------------------------------
(* The process is started again, or crashes before it has stored anything  *)
(* (lo=loa without a frequency, gps without its file): the statics are     *)
(* zeroed, shared memory stays.                                            *)

StaticsZeroed ==
    /\ own' = [cal |-> 0, pcal |-> 0, rx |-> 0, floa |-> 0]
    /\ reply' = 0
    /\ told' = {}

StqkrRestart ==
    /\ StaticsZeroed
    /\ UNCHANGED <<lo, eff, wire, stm, sideband, pol, synced>>

\* lo=loa,8080.0 or lo=loa,8080.0,usb: efflo has stored the LO, the defaults
\* and the sideband word it was given when it compares the word it misses.
LoCrashes(name, freq, word) ==
    LET floa == IF freq = Unreadable THEN own.floa ELSE freq IN
    /\ floa # NoFreq /\ name \in DOMAIN LoIndex
    /\ LET k == LoIndex[name] IN
        /\ lo' = [lo EXCEPT ![k] = floa]
        /\ sideband' = Named(sideband, k, 1, word)
        /\ pol' = Named(pol, k, 2, 0)
    /\ StaticsZeroed
    /\ UNCHANGED <<eff, wire, stm, synced>>

\* The commands that reach a shared word.
StqkrServes ==
    \/ \E arg \in CalArgs : Cal(arg)
    \/ \E arg \in PcalArgs : Phasecal(arg)
    \/ \E arg \in RxNames : Rx(arg)
    \/ \E n \in LoNames, f \in LoFreqs, m \in Modes : Lo(n, f, m)
    \/ \E n \in LoNames, f \in LoFreqs, w \in {0} \cup {m[1] : m \in Modes} :
           LoCrashes(n, f, w)
    \/ LoClear

StqkrNext ==
    \/ StqkrServes
    \/ Rejected \/ Ignored \/ Report \/ NoArgument
    \/ \E f \in LoFreqs : LoNoFreq(f)
    \/ StqkrRestart

---------------------------------------------------------------------------
(* stqkr with antcn's part of each command; the server takes the lines one *)
(* by one, and loses them all when it dies.                                *)

LineTaken ==
    /\ wire # <<>>
    /\ wire' \in {Tail(wire), <<>>}
    /\ UNCHANGED <<lo, eff, stqkrVars>>

AntcnAsks == LineNext /\ UNCHANGED stqkrVars

AntcnStarts ==
    /\ AntcnRestart
    /\ synced' = FALSE
    /\ UNCHANGED <<stm, own, sideband, pol, reply, told>>

CommandNext == StqkrNext \/ AntcnAsks \/ AntcnStarts \/ LineTaken

CommandSpec == StqkrInit /\ [][CommandNext]_commandVars

\* Served or reported, as ip[] came, refused by stqkr.c and by a command.
Replies == {0, Unanswered} \cup (-4..-1) \cup (-104..-101)

CommandTypeOK ==
    /\ lo \in [Ifs -> Int]
    /\ eff \in [source : Targets \cup {"NONE", ""},
                wrap : Wraps \cup {"1950FSX", ""}, tcal : {0, 1}, pcal : {0, 1}]
    /\ wire \in Seq(Sent) /\ Len(wire) <= WireCap
    /\ stm \in [ieffcal : {0, 1}, ieffpcal : {0, 1}, ieffrx : Nat]
    /\ own \in [cal : {0, 1}, pcal : {0, 1}, rx : Nat, floa : Int]
    /\ sideband \in [Ifs -> 0..2]
    /\ pol \in [Ifs -> 0..2]
    /\ reply \in Replies
    /\ synced \in BOOLEAN
    /\ told \subseteq {"cal", "phasecal"}

(* Three programs keep a copy of each cal word: the statics stqkr reports, *)
(* the shared words other commands pass on, and the statics antcn sends.   *)
(* The last two agree from the first command that reaches antcn on; until  *)
(* then an antcn that was started again has both off, whatever stcom holds.*)
(* The first agrees with the second once its command has been used since   *)
(* stqkr started; all this in whatever order commands and restarts come.   *)
(* antcn.c:156-157, 363-364; effcal.c:25-44, effpcal.c:31-50,              *)
(* effrx.c:67-73, efflo.c:37-39.                                           *)
CalWordsAgree ==
    /\ eff.tcal = IF synced THEN stm.ieffcal ELSE 0
    /\ eff.pcal = IF synced THEN stm.ieffpcal ELSE 0
    /\ "cal" \in told => own.cal = stm.ieffcal
    /\ "phasecal" \in told => own.pcal = stm.ieffpcal
===========================================================================

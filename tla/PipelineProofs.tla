-------------------------- MODULE PipelineProofs --------------------------
(***************************************************************************)
(* Theorems about the way of a command to the telescope.                   *)
(*                                                                         *)
(* The argument: every step of the pipeline is a step of the commands'     *)
(* specification and one of the server's (or changes nothing of theirs),   *)
(* so the invariants of both hold.  What joins them is on the wire: the    *)
(* last line on its way carries antcn's present source and cal word, and   *)
(* with none on its way the server has handled it, unless it was lost or   *)
(* the server has been started since; and each elevation follows the       *)
(* azimuth of its own request.                                             *)
(***************************************************************************)
EXTENDS Pipeline, CommandProofs, ServerProofs

---------------------------------------------------------------------------
(* The inductive invariant of the pipeline.                               *)

\* The LOs are numbers the server is sent; a process that has no source has
\* no words at all.
LosTyped ==
    /\ lo \in [Ifs -> LoValues]
    /\ own.rx \in {0} \cup {RxLo(name, 0) : name \in RxNames}
    /\ own.floa \in LoValues \cup {NoFreq}
    /\ eff.source # "" => eff.wrap \in Wraps \cup {"1950FSX"}

\* What antcn sends; without a source the line lacks words.
Garbled == [kind : {"line"}, source : {""}, lo : Los, tcal : {0, 1},
            pcal : {0, 1}, wrap : {"", "1950FSX"} \cup Wraps]
Datagrams ==
    Lines \cup Garbled \cup [kind : {"OFFAZM", "OFFELV"}, off : Offsets]
        \cup [kind : {"POINTING", "REPEAT"}]

\* A line on its way is the last one, or none is.
NoLineAfter(p) == \A q \in DOMAIN wire : q > p => wire[q].kind # "line"

\* The last line has antcn's words, on its way or at the server.
LinesFollow ==
    eff.source \in Targets =>
        /\ \A p \in DOMAIN wire :
              wire[p].kind = "line" /\ NoLineAfter(p) =>
                  wire[p].source = eff.source /\ wire[p].tcal = eff.tcal
        /\ up /\ owed /\ "line" \notin missed /\ NoLineAfter(0) =>
              wanted.source = eff.source /\ wanted.tcal = eff.tcal

\* An elevation has the azimuth of its request before it, or at the server.
PairsTravel ==
    \A p \in DOMAIN wire : wire[p].kind = "OFFELV" =>
        IF p = 1
        THEN azm \in {Unset, wire[p].off} \/ "OFFAZM" \in missed
        ELSE wire[p - 1].kind = "OFFAZM" /\ wire[p - 1].off = wire[p].off

Travels == wire \in Seq(Datagrams) /\ LinesFollow /\ PairsTravel

PipelineInv == CommandInv /\ ServerInv /\ LosTyped /\ Travels

LEMMA NothingSent ==
  ASSUME NEW D
  PROVE  <<>> \in Seq(D) /\ DOMAIN <<>> = {}
  OBVIOUS

LEMMA PipelineInitHolds == Init => PipelineInv
<1> SUFFICES ASSUME Init PROVE PipelineInv
  OBVIOUS
<1>1. CommandInv
  BY CommandInitHolds DEF Init
<1>2. ServerInv
  BY InitHolds DEF Init
<1>3. LosTyped
  BY DEF Init, StqkrInit, LineInit, Blank, LosTyped, LoValues
<1>4. wire = <<>> /\ eff.source = ""
  BY DEF Init, StqkrInit, LineInit, Blank
<1>5. wire \in Seq(Datagrams) /\ DOMAIN wire = {}
  BY <1>4, NothingSent
<1>6. Travels
  BY <1>4, <1>5, PipelineAssumption DEF Travels, LinesFollow, PairsTravel
<1> QED
  BY <1>1, <1>2, <1>3, <1>6 DEF PipelineInv

---------------------------------------------------------------------------
(* Frequencies and lines.                                                 *)

LEMMA LoValuesAreNumbers == LoValues \subseteq Int
  BY PipelineAssumption, ServerAssumption

\* What effrx stores.
LEMMA TableLos ==
  ASSUME NEW r \in {0} \cup {RxLo(name, 0) : name \in RxNames}
  PROVE  100 * r \in LoValues
<1>1. CASE r = 0
  <2>1. 100 * 0 = 0
    OBVIOUS
  <2>2. 100 * r = 100 * 0
    BY <1>1, Zenon
  <2> QED
    BY <2>1, <2>2 DEF LoValues
<1>2. CASE \E name \in RxNames : r = RxLo(name, 0)
  BY <1>2 DEF LoValues
<1> QED
  BY <1>1, <1>2

\* A line antcn prints is one the server knows, or lacks its source.
LEMMA PrintedLine ==
  ASSUME NEW f \in [Ifs -> LoValues],
         NEW e \in [source : Targets \cup {"NONE", ""},
                    wrap : Wraps \cup {"1950FSX", ""},
                    tcal : {0, 1}, pcal : {0, 1}],
         e.source # "" => e.wrap \in Wraps \cup {"1950FSX"}
  PROVE  /\ LineText(e, f) \in Lines \cup Garbled
         /\ LineText(e, f).kind = "line"
         /\ LineText(e, f).source = e.source
         /\ LineText(e, f).tcal = e.tcal
<1>1. f \in [Ifs -> Int]
  BY LoValuesAreNumbers
<1>2. Fflo(f) \in Los
  BY <1>1, FfloIsAnLo, PipelineAssumption
<1> QED
  BY <1>2 DEF LineText, Lines, Garbled, NoTarget

---------------------------------------------------------------------------
(* What a command sends.                                                  *)

\* A line goes to the end of the queue.
LEMMA LineSent ==
  ASSUME Travels, NEW l \in Lines \cup Garbled,
         wire' = wire \o <<l>>, l.source = eff'.source, l.tcal = eff'.tcal,
         UNCHANGED <<azm, missed>>
  PROVE  Travels'
<1>1. /\ wire \in Seq(Datagrams) /\ <<l>> \in Seq(Datagrams)
      /\ wire' \in Seq(Datagrams)
  BY DEF Travels, Datagrams
<1>2. /\ Len(wire) \in Nat /\ DOMAIN wire' = 1..(Len(wire) + 1)
      /\ \A p \in 1..Len(wire) : wire'[p] = wire[p]
      /\ wire'[Len(wire) + 1] = l
  BY <1>1
<1>3. l.kind = "line"
  BY DEF Lines, Garbled
<1>4. LinesFollow'
  BY <1>2, <1>3 DEF LinesFollow, NoLineAfter
<1>5. PairsTravel'
  BY <1>1, <1>2, <1>3 DEF PairsTravel, Travels
<1> QED
  BY <1>1, <1>4, <1>5 DEF Travels

\* An offset request's two datagrams do, or the operator's word.
LEMMA PairSent ==
  ASSUME Travels, NEW off \in Offsets,
         wire' = wire \o <<[kind |-> "OFFAZM", off |-> off],
                           [kind |-> "OFFELV", off |-> off]>>,
         UNCHANGED <<eff, azm, up, owed, wanted, missed>>
  PROVE  Travels'
<1> DEFINE a == [kind |-> "OFFAZM", off |-> off]
           e == [kind |-> "OFFELV", off |-> off]
<1>1. /\ a \in Datagrams /\ a.kind = "OFFAZM" /\ a.off = off
      /\ e \in Datagrams /\ e.kind = "OFFELV" /\ e.off = off
  BY DEF Datagrams
<1>2. wire' = wire \o <<a, e>>
  OBVIOUS
<1> HIDE DEF a, e
<1>3. wire \in Seq(Datagrams) /\ wire' \in Seq(Datagrams)
  BY <1>1, <1>2 DEF Travels
<1>4. /\ Len(wire) \in Nat /\ DOMAIN wire' = 1..(Len(wire) + 2)
      /\ DOMAIN wire = 1..Len(wire)
      /\ \A p \in 1..Len(wire) : wire'[p] = wire[p]
      /\ wire'[Len(wire) + 1] = a /\ wire'[Len(wire) + 2] = e
  BY <1>1, <1>2, <1>3
<1>5. LinesFollow'
  <2> SUFFICES ASSUME eff.source \in Targets
               PROVE  LinesFollow'
    BY DEF LinesFollow
  <2>1. \A p \in DOMAIN wire' : wire'[p].kind = "line" =>
            p \in DOMAIN wire /\ wire'[p] = wire[p]
    BY <1>1, <1>4
  <2>2. \A p \in Nat : NoLineAfter(p)' => NoLineAfter(p)
    BY <1>4 DEF NoLineAfter
  <2> QED
    BY <1>4, <2>1, <2>2 DEF LinesFollow, Travels
<1>6. PairsTravel'
  <2> SUFFICES ASSUME NEW p \in DOMAIN wire', wire'[p].kind = "OFFELV"
               PROVE  IF p = 1
                      THEN azm' \in {Unset, wire'[p].off} \/ "OFFAZM" \in missed'
                      ELSE /\ wire'[p - 1].kind = "OFFAZM"
                           /\ wire'[p - 1].off = wire'[p].off
    BY DEF PairsTravel
  <2>1. CASE p \in 1..Len(wire)
    <3>1. wire'[p] = wire[p] /\ (p # 1 => wire'[p - 1] = wire[p - 1])
      BY <1>4, <2>1
    <3>2. wire[p].kind = "OFFELV"
      BY <3>1
    <3> QED
      BY <1>4, <2>1, <3>1, <3>2 DEF Travels, PairsTravel
  <2>2. CASE p = Len(wire) + 1
    BY <1>1, <1>4, <2>2
  <2>3. CASE p = Len(wire) + 2
    BY <1>1, <1>4, <2>3
  <2> QED
    BY <1>4, <2>1, <2>2, <2>3
<1> QED
  BY <1>3, <1>5, <1>6 DEF Travels

LEMMA WordSent ==
  ASSUME Travels, NEW word \in {"POINTING", "REPEAT"},
         wire' = wire \o <<[kind |-> word]>>,
         UNCHANGED <<eff, azm, up, owed, wanted, missed>>
  PROVE  Travels'
<1> DEFINE d == [kind |-> word]
<1>1. d \in Datagrams /\ d.kind \in {"POINTING", "REPEAT"}
  BY DEF Datagrams
<1>2. wire' = wire \o <<d>>
  OBVIOUS
<1> HIDE DEF d
<1>3. wire \in Seq(Datagrams) /\ wire' \in Seq(Datagrams)
  BY <1>1, <1>2 DEF Travels
<1>4. /\ Len(wire) \in Nat /\ DOMAIN wire' = 1..(Len(wire) + 1)
      /\ DOMAIN wire = 1..Len(wire)
      /\ \A p \in 1..Len(wire) : wire'[p] = wire[p]
      /\ wire'[Len(wire) + 1] = d
  BY <1>1, <1>2, <1>3
<1>5. LinesFollow'
  <2>1. \A p \in DOMAIN wire' : wire'[p].kind = "line" =>
            p \in DOMAIN wire /\ wire'[p] = wire[p]
    BY <1>1, <1>4
  <2>2. \A p \in Nat : NoLineAfter(p)' => NoLineAfter(p)
    BY <1>4 DEF NoLineAfter
  <2> QED
    BY <1>4, <2>1, <2>2 DEF LinesFollow, Travels
<1>6. PairsTravel'
  BY <1>1, <1>4 DEF Travels, PairsTravel
<1> QED
  BY <1>3, <1>5, <1>6 DEF Travels

---------------------------------------------------------------------------
(* The commands and antcn's restarts.                                     *)

\* The words and the LOs are those the invariant needs to print a line.
LEMMA LineOfCommand ==
  ASSUME Travels, NEW f \in [Ifs -> LoValues],
         eff' \in [source : Targets \cup {"NONE", ""},
                   wrap : Wraps \cup {"1950FSX", ""},
                   tcal : {0, 1}, pcal : {0, 1}],
         eff'.source # "" => eff'.wrap \in Wraps \cup {"1950FSX"},
         wire' = wire \o <<LineText(eff', f)>>, UNCHANGED <<azm, missed>>
  PROVE  Travels'
<1>1. /\ LineText(eff', f) \in Lines \cup Garbled
      /\ LineText(eff', f).source = eff'.source
      /\ LineText(eff', f).tcal = eff'.tcal
  BY PrintedLine
<1> HIDE DEF LineText
<1> QED
  BY <1>1, LineSent

\* A step of the commands stores LOs the server knows.
LEMMA LosStayTyped ==
  ASSUME CommandInv, LosTyped, [CommandNext]_commandVars
  PROVE  LosTyped'
<1> USE DEF CommandInv, WordsTyped
<1>0. eff \in [source : Targets \cup {"NONE", ""},
               wrap : Wraps \cup {"1950FSX", ""}, tcal : {0, 1}, pcal : {0, 1}]
  OBVIOUS
<1>1. ASSUME NEW arg, Cal(arg) \/ Phasecal(arg)
      PROVE  LosTyped'
  <2>1. /\ lo' = lo /\ own'.rx = own.rx /\ own'.floa = own.floa
        /\ eff'.source = eff.source /\ eff'.wrap = eff.wrap
    BY <1>1 DEF Cal, Phasecal, SendCal
  <2> QED
    BY <2>1 DEF LosTyped
<1>2. ASSUME NEW arg \in RxNames, Rx(arg)
      PROVE  LosTyped'
  <2>1. /\ own'.rx = RxLo(arg, own.rx) /\ own'.floa = own.floa
        /\ lo' = [lo EXCEPT ![0] = 100 * own'.rx]
        /\ eff'.source = eff.source /\ eff'.wrap = eff.wrap
    BY <1>2 DEF Rx, SendCal
  <2>2. RxLo(arg, own.rx) \in {own.rx, RxLo(arg, 0)}
    BY RxLoKeeps
  <2>3. own'.rx \in {0} \cup {RxLo(name, 0) : name \in RxNames}
    BY <2>1, <2>2 DEF LosTyped
  <2>4. 100 * own'.rx \in LoValues
    BY <2>3, TableLos
  <2> QED
    BY <2>1, <2>3, <2>4 DEF LosTyped
<1>3. ASSUME NEW n \in LoNames, NEW f \in LoFreqs, NEW m \in Modes, Lo(n, f, m)
      PROVE  LosTyped'
  <2> DEFINE floa == IF f = Unreadable THEN own.floa ELSE f
  <2>1. /\ floa # NoFreq /\ own' = [own EXCEPT !.floa = floa]
        /\ lo' \in {lo} \cup {[lo EXCEPT ![k] = floa] : k \in Ifs}
        /\ eff'.source = eff.source /\ eff'.wrap = eff.wrap
    <3>1. n \in DOMAIN LoIndex => LoIndex[n] \in Ifs
      BY IndexedLos
    <3>2. /\ floa # NoFreq /\ own' = [own EXCEPT !.floa = floa]
          /\ eff' = [eff EXCEPT !.tcal = stm.ieffcal, !.pcal = stm.ieffpcal]
      BY <1>3 DEF Lo, SendCal
    <3>3. IF n \in DOMAIN LoIndex
          THEN lo' = [lo EXCEPT ![LoIndex[n]] = floa]
          ELSE lo' = lo
      BY <1>3 DEF Lo
    <3> HIDE DEF floa
    <3> QED
      BY <3>1, <3>2, <3>3
  <2>2. floa \in LoValues
    BY <2>1 DEF LosTyped, LoValues
  <2>3. own'.rx = own.rx /\ own'.floa = floa
    BY <2>1
  <2> HIDE DEF floa
  <2> QED
    BY <2>1, <2>2, <2>3 DEF LosTyped
<1>4. CASE LoClear
  <2>1. 0 \in LoValues
    BY DEF LoValues
  <2>2. /\ lo' = [lo EXCEPT ![0] = 0, ![2] = 0] /\ eff' = eff
        /\ own'.rx = own.rx /\ own'.floa = NoFreq
    BY <1>4 DEF LoClear
  <2> QED
    BY <2>1, <2>2 DEF LosTyped
<1>5. CASE Rejected \/ Ignored \/ Report \/ NoArgument
  <2>1. PICK ierr : Refused(ierr)
    BY <1>5 DEF Rejected, Ignored, Report, NoArgument
  <2> QED
    BY <2>1 DEF Refused, LosTyped
<1>6. ASSUME NEW f \in LoFreqs, LoNoFreq(f)
      PROVE  LosTyped'
  <2>1. /\ own'.rx = own.rx /\ own'.floa = NoFreq /\ lo' = lo /\ eff' = eff
    BY <1>6 DEF LoNoFreq
  <2> QED
    BY <2>1 DEF LosTyped
<1>7. CASE StqkrRestart
  BY <1>7 DEF StqkrRestart, StaticsZeroed, LosTyped, LoValues
<1>7a. ASSUME NEW n \in LoNames, NEW f \in LoFreqs, NEW w, LoCrashes(n, f, w)
      PROVE  LosTyped'
  <2> DEFINE floa == IF f = Unreadable THEN own.floa ELSE f
  <2>1. /\ floa # NoFreq /\ lo' = [lo EXCEPT ![LoIndex[n]] = floa]
        /\ StaticsZeroed /\ eff' = eff
    BY <1>7a DEF LoCrashes
  <2>2. floa \in LoValues
    BY <2>1 DEF LosTyped, LoValues
  <2>3. own'.rx = 0 /\ own'.floa = 0 /\ 0 \in LoValues
    BY <2>1 DEF StaticsZeroed, LoValues
  <2> HIDE DEF floa
  <2>4. lo' \in [Ifs -> LoValues]
    BY <2>1, <2>2 DEF LosTyped
  <2> QED
    BY <2>1, <2>3, <2>4 DEF LosTyped
<1>8. CASE AntcnAsks
  <2>1. lo' = lo /\ own' = own
    BY <1>8 DEF AntcnAsks, LineNext, Initialize, Source, SetOffsets, Raw, stqkrVars
  <2>2. CASE Initialize
    BY <2>1, <2>2 DEF Initialize, LosTyped
  <2>3. CASE \E s \in Targets, w \in Wraps : Source(s, w)
    BY <2>1, <2>3 DEF Source, LosTyped
  <2>4. CASE \/ \E off \in Offsets : SetOffsets(off)
             \/ \E word \in {"POINTING", "REPEAT"} : Raw(word)
    BY <2>1, <2>4 DEF SetOffsets, Raw, LosTyped
  <2> QED
    BY <1>8, <2>2, <2>3, <2>4 DEF AntcnAsks, LineNext
<1>9. CASE AntcnStarts
  BY <1>9 DEF AntcnStarts, AntcnRestart, Blank, LosTyped
<1>10. CASE LineTaken \/ UNCHANGED commandVars
  BY <1>10 DEF LineTaken, commandVars, stqkrVars, LosTyped
<1> QED
  BY <1>1, <1>2, <1>3, <1>4, <1>5, <1>6, <1>7, <1>8, <1>9, <1>10,
     <1>7a DEF CommandNext, StqkrNext, StqkrServes

LEMMA NothingTravels ==
  ASSUME Travels, UNCHANGED <<wire, eff, azm, up, owed, wanted, missed>>
  PROVE  Travels'
  BY DEF Travels, LinesFollow, PairsTravel, NoLineAfter

LEMMA CommandsKeepTravels ==
  ASSUME CommandInv, LosTyped, LosTyped', CommandInv', Travels, Commands
  PROVE  Travels'
<1> USE DEF CommandInv, WordsTyped
<1>1. UNCHANGED <<up, azm, owed, wanted, missed>>
  BY DEF Commands, serverVars, history
<1>2. /\ lo \in [Ifs -> LoValues] /\ lo' \in [Ifs -> LoValues]
      /\ eff' \in [source : Targets \cup {"NONE", ""},
                   wrap : Wraps \cup {"1950FSX", ""},
                   tcal : {0, 1}, pcal : {0, 1}]
      /\ eff'.source # "" => eff'.wrap \in Wraps \cup {"1950FSX"}
  BY DEF LosTyped
<1>3. ASSUME NEW arg, Cal(arg) \/ Phasecal(arg)
      PROVE  Travels'
  <2>1. wire' = wire \o <<LineText(eff', lo)>>
    BY <1>3 DEF Cal, Phasecal, SendCal, Sends
  <2> QED
    BY <1>1, <1>2, <2>1, LineOfCommand
<1>4. ASSUME NEW arg, Rx(arg)
      PROVE  Travels'
  <2>1. wire' = wire \o <<LineText(eff', lo')>>
    BY <1>4 DEF Rx, SendCal, Sends
  <2> QED
    BY <1>1, <1>2, <2>1, LineOfCommand
<1>5. ASSUME NEW n, NEW f, NEW m, Lo(n, f, m)
      PROVE  Travels'
  <2>1. wire' = wire \o <<LineText(eff', lo')>>
    BY <1>5 DEF Lo, SendCal, Sends
  <2> QED
    BY <1>1, <1>2, <2>1, LineOfCommand
<1>6. ASSUME NEW s, NEW w, Source(s, w)
      PROVE  Travels'
  <2>1. wire' = wire \o <<LineText(eff', lo)>>
    BY <1>6 DEF Source, Sends
  <2> QED
    BY <1>1, <1>2, <2>1, LineOfCommand
<1>7. ASSUME NEW off \in Offsets, SetOffsets(off)
      PROVE  Travels'
  <2>1. /\ eff' = eff
        /\ wire' = wire \o <<[kind |-> "OFFAZM", off |-> off],
                             [kind |-> "OFFELV", off |-> off]>>
    BY <1>7 DEF SetOffsets, Sends
  <2> QED
    BY <1>1, <2>1, PairSent
<1>8. ASSUME NEW word \in {"POINTING", "REPEAT"}, Raw(word)
      PROVE  Travels'
  <2>1. eff' = eff /\ wire' = wire \o <<[kind |-> word]>>
    BY <1>8 DEF Raw, Sends
  <2> QED
    BY <1>1, <2>1, WordSent
<1>9. CASE Initialize \/ AntcnRestart
  \* No line need follow: antcn has no source now.
  <2>1. wire' = wire /\ eff'.source \in {"NONE", ""}
    <3>1. CASE Initialize
      BY <3>1 DEF Initialize
    <3>2. CASE AntcnRestart
      BY <3>2 DEF AntcnRestart, Blank
    <3> QED
      BY <1>9, <3>1, <3>2
  <2>2. eff'.source \notin Targets
    BY <2>1, PipelineAssumption, ServerAssumption DEF NoTarget
  <2> QED
    BY <1>1, <2>1, <2>2 DEF Travels, LinesFollow, PairsTravel
<1>10. CASE LoClear \/ \E n, f, w : LoCrashes(n, f, w)
  <2>1. wire' = wire /\ eff' = eff
    BY <1>10 DEF LoClear, LoCrashes
  <2> QED
    BY <1>1, <2>1, NothingTravels
<1> QED
  BY <1>3, <1>4, <1>5, <1>6, <1>7, <1>8, <1>9, <1>10
     DEF Commands, StqkrServes, AntcnAsks, AntcnStarts, LineNext

---------------------------------------------------------------------------
(* The server, and what is lost.                                          *)

\* The queue without its head.
LEMMA HeadTaken ==
  ASSUME Travels, wire # <<>>, wire' = Tail(wire)
  PROVE  /\ wire' \in Seq(Datagrams)
         /\ 1 \in DOMAIN wire /\ Head(wire) = wire[1]
         /\ Head(wire) \in Datagrams
         /\ DOMAIN wire \subseteq Nat
         /\ \A p \in DOMAIN wire' :
              p \in Nat \ {0} /\ p + 1 \in DOMAIN wire /\ wire'[p] = wire[p + 1]
         /\ \A p \in DOMAIN wire :
              p # 1 => p - 1 \in DOMAIN wire' /\ wire'[p - 1] = wire[p]
<1>1. wire \in Seq(Datagrams)
  BY DEF Travels
<1>2. /\ Len(wire) \in Nat \ {0} /\ DOMAIN wire = 1..Len(wire)
      /\ Tail(wire) \in Seq(Datagrams) /\ Head(wire) = wire[1]
      /\ DOMAIN Tail(wire) = 1..(Len(wire) - 1)
      /\ \A p \in 1..(Len(wire) - 1) : Tail(wire)[p] = wire[p + 1]
  BY <1>1
<1>3. Head(wire) \in Datagrams
  BY <1>1, <1>2
<1> QED
  BY <1>2, <1>3

\* The last line of the rest was the last line of the queue.
LEMMA RestFollows ==
  ASSUME Travels, wire # <<>>, wire' = Tail(wire), eff' = eff,
         eff.source \in Targets,
         NEW p \in DOMAIN wire', wire'[p].kind = "line", NoLineAfter(p)'
  PROVE  wire'[p].source = eff'.source /\ wire'[p].tcal = eff'.tcal
<1>1. p + 1 \in DOMAIN wire /\ wire'[p] = wire[p + 1]
  BY HeadTaken
<1>2. NoLineAfter(p + 1)
  <2> SUFFICES ASSUME NEW q \in DOMAIN wire, q > p + 1
               PROVE  wire[q].kind # "line"
    BY DEF NoLineAfter
  <2>1. q \in Nat /\ p \in Nat
    BY HeadTaken
  <2>2. q - 1 \in DOMAIN wire' /\ q - 1 > p /\ wire'[q - 1] = wire[q]
    BY <2>1, HeadTaken
  <2> QED
    BY <2>2 DEF NoLineAfter
<1> QED
  BY <1>1, <1>2 DEF Travels, LinesFollow

\* With no line in the rest, the head was the last line or there was none.
LEMMA RestHasNone ==
  ASSUME Travels, wire # <<>>, wire' = Tail(wire), NoLineAfter(0)'
  PROVE  /\ NoLineAfter(1)
         /\ Head(wire).kind # "line" => NoLineAfter(0)
<1>1. ASSUME NEW q \in DOMAIN wire, q # 1
      PROVE  wire[q].kind # "line"
  <2>1. q - 1 \in DOMAIN wire' /\ wire'[q - 1] = wire[q] /\ q \in Nat
    BY <1>1, HeadTaken
  <2>2. q - 1 > 0
    BY <2>1, HeadTaken
  <2> QED
    BY <2>1, <2>2 DEF NoLineAfter
<1>2. Head(wire) = wire[1]
  BY HeadTaken
<1> QED
  BY <1>1, <1>2 DEF NoLineAfter

\* An elevation at the head of the rest has its azimuth before it.
LEMMA RestPairs ==
  ASSUME Travels, wire # <<>>, wire' = Tail(wire),
         Head(wire).kind = "OFFAZM" =>
             azm' = Head(wire).off \/ "OFFAZM" \in missed'
  PROVE  PairsTravel'
<1> SUFFICES ASSUME NEW p \in DOMAIN wire', wire'[p].kind = "OFFELV"
             PROVE  IF p = 1
                    THEN azm' \in {Unset, wire'[p].off} \/ "OFFAZM" \in missed'
                    ELSE /\ wire'[p - 1].kind = "OFFAZM"
                         /\ wire'[p - 1].off = wire'[p].off
  BY DEF PairsTravel
<1>1. /\ p \in Nat \ {0} /\ p + 1 \in DOMAIN wire
      /\ wire'[p] = wire[p + 1] /\ Head(wire) = wire[1]
  BY HeadTaken
<1>2. p + 1 # 1 /\ (p + 1) - 1 = p
  BY <1>1
<1>3. wire[p].kind = "OFFAZM" /\ wire[p].off = wire'[p].off
  BY <1>1, <1>2 DEF Travels, PairsTravel
<1>4. CASE p = 1
  BY <1>1, <1>3, <1>4
<1>5. CASE p # 1
  <2>1. p \in DOMAIN wire
    BY <1>1 DEF Travels
  <2>2. wire'[p - 1] = wire[p]
    BY <1>5, <2>1, HeadTaken
  <2> QED
    BY <1>3, <1>5, <2>2
<1> QED
  BY <1>4, <1>5

LEMMA EveryLineIsTaken ==
  ASSUME NEW l, HandleLine(l)
  PROVE  TakesLine(l)
  BY DEF HandleLine, LineNewLo, LineFilterFails, LineNewSource, LineNewTcal,
         LineNewPcal, LineNoAction, LineNothingNew

\* A datagram that is not a line leaves the server owing no more than before.
LEMMA OtherFollows ==
  ASSUME Travels, wire # <<>>, wire' = Tail(wire), eff' = eff,
         Head(wire).kind # "line",
         owed' = FALSE \/ UNCHANGED <<up, owed, wanted>>,
         "line" \in missed => "line" \in missed'
  PROVE  LinesFollow'
<1>1. ASSUME eff.source \in Targets, up', owed', "line" \notin missed',
             NoLineAfter(0)'
      PROVE  wanted'.source = eff'.source /\ wanted'.tcal = eff'.tcal
  <2>1. NoLineAfter(0)
    BY <1>1, RestHasNone
  <2>2. UNCHANGED <<up, owed, wanted>>
    BY <1>1
  <2> QED
    BY <1>1, <2>1, <2>2 DEF Travels, LinesFollow
<1> QED
  BY <1>1, RestFollows DEF LinesFollow

LEMMA ServerKeepsTravels ==
  ASSUME Travels, ServerReceives
  PROVE  Travels'
<1> DEFINE d == Head(wire)
<1>1. /\ wire # <<>> /\ wire' = Tail(wire) /\ eff' = eff
      /\ missed' = missed \ {d.kind} /\ Handles(d)
  BY DEF ServerReceives
<1>2. wire' \in Seq(Datagrams) /\ 1 \in DOMAIN wire /\ d = wire[1]
  BY <1>1, HeadTaken
<1> HIDE DEF d
<1>3. CASE d.kind = "line" /\ HandleLine(d)
  <2>1. wanted' = d /\ UNCHANGED <<up, azm>>
    BY <1>3, EveryLineIsTaken DEF TakesLine
  <2>2. ASSUME eff.source \in Targets, NoLineAfter(0)'
        PROVE  wanted'.source = eff'.source /\ wanted'.tcal = eff'.tcal
    <3>1. NoLineAfter(1)
      BY <1>1, <2>2, RestHasNone
    <3> QED
      BY <1>1, <1>2, <1>3, <2>1, <2>2, <3>1 DEF Travels, LinesFollow
  <2>3. LinesFollow'
    BY <1>1, <2>2, RestFollows DEF LinesFollow
  <2>4. PairsTravel'
    BY <1>1, <1>3, RestPairs DEF d
  <2> QED
    BY <1>2, <2>3, <2>4 DEF Travels
<1>4. CASE d.kind = "line" /\ d.source = "" /\ HandleGarbled
  \* It is not the last: a target has a name.
  <2>1. ASSUME eff.source \in Targets, NoLineAfter(0)'
        PROVE  FALSE
    <3>1. NoLineAfter(1)
      BY <1>1, <2>1, RestHasNone
    <3>2. d.source = eff.source
      BY <1>2, <1>4, <2>1, <3>1 DEF Travels, LinesFollow
    <3> QED
      BY <1>4, <2>1, <3>2, PipelineAssumption
  <2>2. LinesFollow'
    BY <1>1, <2>1, RestFollows DEF LinesFollow
  <2>3. PairsTravel'
    BY <1>1, <1>4, RestPairs DEF d
  <2> QED
    BY <1>2, <2>2, <2>3 DEF Travels
<1>5. CASE d.kind = "OFFAZM" /\ HandleOffAzm(d.off)
  <2>1. azm' = d.off /\ owed' = FALSE
    BY <1>5 DEF HandleOffAzm, Distract
  <2>2. LinesFollow'
    BY <1>1, <1>5, <2>1, OtherFollows DEF d
  <2>3. PairsTravel'
    BY <1>1, <2>1, RestPairs DEF d
  <2> QED
    BY <1>2, <2>2, <2>3 DEF Travels
<1>6. CASE \/ d.kind = "OFFELV" /\ (HandleOffElv(d.off) \/ OffElvRaises)
           \/ d.kind = "POINTING" /\ HandlePointing
           \/ d.kind = "REPEAT" /\ HandleRepeat
  <2>1. owed' = FALSE \/ UNCHANGED <<up, owed, wanted>>
    BY <1>6 DEF HandleOffElv, Distract, OffElvRaises, HandlePointing,
                HandleRepeat, serverVars, history
  <2>2. LinesFollow'
    BY <1>1, <1>6, <2>1, OtherFollows DEF d
  <2>3. PairsTravel'
    BY <1>1, <1>6, RestPairs DEF d
  <2> QED
    BY <1>2, <2>2, <2>3 DEF Travels
<1> QED
  BY <1>1, <1>3, <1>4, <1>5, <1>6 DEF Handles

LEMMA LossKeepsTravels ==
  ASSUME Travels, LostAtServer
  PROVE  Travels'
<1> DEFINE d == Head(wire)
<1>1. /\ wire # <<>> /\ wire' = Tail(wire) /\ eff' = eff
      /\ missed' = missed \cup ({d.kind} \cap {"line", "OFFAZM"})
      /\ UNCHANGED <<up, azm, owed, wanted>>
  BY DEF LostAtServer, serverVars, history
<1>2. wire' \in Seq(Datagrams)
  BY <1>1, HeadTaken
<1>3. PairsTravel'
  BY <1>1, RestPairs
<1>4. LinesFollow'
  <2>1. CASE d.kind = "line"
    BY <1>1, <2>1, RestFollows DEF LinesFollow
  <2>2. CASE d.kind # "line"
    BY <1>1, <2>2, OtherFollows
  <2> QED
    BY <2>1, <2>2
<1> QED
  BY <1>2, <1>3, <1>4 DEF Travels

LEMMA RestartKeepsTravels ==
  ASSUME Travels, ServerDies \/ ServerElse
  PROVE  Travels'
<1>1. CASE ServerDies
  <2>1. up' = FALSE /\ wire' = <<>>
    BY <1>1 DEF ServerDies, ServerEnds
  <2>2. wire' \in Seq(Datagrams) /\ DOMAIN wire' = {}
    BY <2>1, NothingSent
  <2> QED
    BY <2>1, <2>2 DEF Travels, LinesFollow, PairsTravel
<1>2. CASE ServerElse /\ ServerStart
  <2>1. /\ azm' = Unset /\ owed' = FALSE
        /\ wire' = wire /\ eff' = eff
    BY <1>2 DEF ServerElse, ServerStart, commandVars
  <2> QED
    BY <2>1 DEF Travels, LinesFollow, PairsTravel, NoLineAfter
<1>3. CASE ServerElse /\ KeyRepeat
  BY <1>3, NothingTravels DEF ServerElse, KeyRepeat, commandVars, history
<1> QED
  BY <1>1, <1>2, <1>3 DEF ServerElse

---------------------------------------------------------------------------
(* A step of the pipeline is a step of each part.                         *)

LEMMA StepOfCommands == [Next]_vars => [CommandNext]_commandVars
<1>1. CASE Commands
  BY <1>1 DEF Commands, CommandNext, StqkrNext
<1>2. CASE ServerReceives \/ LostAtServer
  BY <1>2 DEF ServerReceives, LostAtServer, CommandNext, LineTaken
<1>3. CASE ServerDies
  BY <1>3 DEF ServerDies, CommandNext, LineTaken, commandVars
<1>4. CASE ServerElse \/ UNCHANGED vars
  BY <1>4 DEF ServerElse, vars
<1> QED
  BY <1>1, <1>2, <1>3, <1>4 DEF Next

LEMMA StepOfServer ==
  ASSUME Travels, [Next]_vars
  PROVE  [ServerNext]_serverVars
<1>1. CASE Commands \/ LostAtServer \/ UNCHANGED vars
  BY <1>1 DEF Commands, LostAtServer, vars
<1>2. CASE ServerReceives
  <2> DEFINE d == Head(wire)
  <2>1. d \in Datagrams /\ Handles(d)
    BY <1>2, HeadTaken DEF ServerReceives
  <2>2. /\ d.kind = "line" /\ d.source # "" => d \in Lines
        /\ d.kind \in {"OFFAZM", "OFFELV"} => d.off \in Offsets
    BY <2>1 DEF Datagrams, Lines, Garbled
  <2> HIDE DEF d
  <2> QED
    BY <2>1, <2>2 DEF Handles, ServerNext, OffElvRaises
<1>3. CASE ServerDies \/ ServerElse
  BY <1>3 DEF ServerDies, ServerElse, ServerNext
<1> QED
  BY <1>1, <1>2, <1>3 DEF Next

LEMMA PipelineStep == PipelineInv /\ [Next]_vars => PipelineInv'
<1> SUFFICES ASSUME PipelineInv, [Next]_vars
             PROVE  PipelineInv'
  OBVIOUS
<1>1. [CommandNext]_commandVars /\ [ServerNext]_serverVars
  BY StepOfCommands, StepOfServer DEF PipelineInv
<1>2. CommandInv' /\ ServerInv' /\ LosTyped'
  BY <1>1, CommandInvStep, StepPreserves, LosStayTyped DEF PipelineInv
<1>3. Travels'
  <2>1. CASE Commands
    BY <1>2, <2>1, CommandsKeepTravels DEF PipelineInv
  <2>2. CASE ServerReceives
    BY <2>2, ServerKeepsTravels DEF PipelineInv
  <2>3. CASE LostAtServer
    BY <2>3, LossKeepsTravels DEF PipelineInv
  <2>4. CASE ServerDies \/ ServerElse
    BY <2>4, RestartKeepsTravels DEF PipelineInv
  <2>5. CASE UNCHANGED vars
    BY <2>5, NothingTravels DEF PipelineInv, vars, commandVars, serverVars,
                                history
  <2> QED
    BY <2>1, <2>2, <2>3, <2>4, <2>5 DEF Next
<1> QED
  BY <1>2, <1>3 DEF PipelineInv

---------------------------------------------------------------------------

(* The inductive invariant of the pipeline.                                *)
THEOREM PipelineInvariant == Spec => []PipelineInv
  BY PipelineInitHolds, PipelineStep, PTL DEF Spec

(* The commands and the server keep their own specifications when they run *)
(* together: what is proved of either holds of the pipeline.               *)
(* stqkr.c:41-96, antcn.c:170-387, VLBIsend.py:253-487.                    *)
THEOREM RunsCommands == Spec => CommandSpec
<1>1. Init => StqkrInit
  BY DEF Init
<1> QED
  BY <1>1, StepOfCommands, PTL DEF Spec, CommandSpec

(* The datagrams antcn sends are ones the server takes, and their loss and *)
(* its restarts are the server's own steps.                                *)
(* antcn.c:230-261, VLBIsend.py:253-491.                                   *)
THEOREM RunsServer == Spec => ServerSpec
<1>1. Init => ServerInit
  BY DEF Init
<1>2. PipelineInv /\ [Next]_vars => [ServerNext]_serverVars
  BY StepOfServer DEF PipelineInv
<1> QED
  BY <1>1, <1>2, PipelineInvariant, PTL DEF Spec, ServerSpec

(* End to end: when the server has caught up, be4 observes the source antcn*)
(* was last given, at the frequency of its line, with the cal state stqkr  *)
(* keeps in shared memory, or with cal off while an antcn started again has*)
(* not been told of it; for every set of sources, receivers, LOs and       *)
(* frequencies and any number of datagrams on their way.                   *)
(* antcn.c:156, 202-234, 361-377; VLBIsend.py:292-437.                     *)
THEOREM Be4AlwaysFollows == Spec => []Be4Follows
<1>1. PipelineInv => Be4Follows
  <2> SUFFICES ASSUME PipelineInv, Caught, be4 # Pointing,
                      eff.source \in Targets
               PROVE  /\ be4.source = eff.source
                      /\ be4.lo = Tenth(wanted.lo)
                      /\ OnOff(be4.tcal) = IF synced THEN stm.ieffcal ELSE 0
    BY DEF Be4Follows
  <2>1. /\ up /\ owed /\ ~failed /\ "line" \notin missed
        /\ \A q \in DOMAIN wire : FALSE
    BY NothingSent DEF Caught
  <2>2. wanted.source = eff.source /\ wanted.tcal = eff.tcal
    BY <2>1 DEF PipelineInv, Travels, LinesFollow, NoLineAfter
  <2>3. /\ be4.source = wanted.source /\ be4.lo = Tenth(wanted.lo)
        /\ OnOff(be4.tcal) = wanted.tcal
    BY <2>1, Be4FromInv DEF PipelineInv, Be4Current
  <2>4. eff.tcal = IF synced THEN stm.ieffcal ELSE 0
    BY DEF PipelineInv, CommandInv, CalWordsAgree
  <2> QED
    BY <2>2, <2>3, <2>4
<1> QED
  BY <1>1, PipelineInvariant, PTL

(* The azimuth and the elevation be4 is sent are of one request, unless    *)
(* the azimuth of the last request was lost.                               *)
(* antcn.c:251-255, VLBIsend.py:438-451.                                   *)
THEOREM OffsetsAlwaysPaired == Spec => OffsetsPaired
<1>1. ASSUME PipelineInv, [Next]_vars
      PROVE  [be4'.kind = "offsets" /\ be4' # be4 /\ "OFFAZM" \notin missed
                 => be4'.azm = be4'.elv]_vars
  <2> SUFFICES ASSUME be4'.kind = "offsets", be4' # be4, "OFFAZM" \notin missed
               PROVE  be4'.azm = be4'.elv
    OBVIOUS
  <2>1. oldstring.kind # "offsets"
    <3>1. oldstring \in Texts \cup {OffsetText}
      BY <1>1 DEF PipelineInv, ServerInv, ServerTypeOK
    <3>2. \A t \in Texts : t.kind = "line"
      BY DEF Texts
    <3>3. OffsetText.kind = "offset text"
      BY DEF OffsetText
    <3> QED
      BY <3>1, <3>2, <3>3
  <2>2. ASSUME NEW l, HandleLine(l)
        PROVE  be4' = be4 \/ be4'.kind = "line"
    BY <2>2 DEF HandleLine, LineNewLo, LineFilterFails, LineNewSource,
                LineNewTcal, LineNewPcal, LineNoAction, LineNothingNew, Text,
                devices
  <2>3. Pointing.kind # "offsets"
    BY DEF Pointing
  <2>4. PICK off : HandleOffElv(off) /\ ServerReceives
               /\ Head(wire).kind = "OFFELV" /\ off = Head(wire).off
    <3>1. CASE Commands \/ LostAtServer \/ ServerDies \/ UNCHANGED vars
      BY <3>1 DEF Commands, LostAtServer, ServerDies, ServerEnds, vars,
                  serverVars, devices
    <3>2. CASE ServerElse
      BY <2>1, <3>2 DEF ServerElse, KeyRepeat, ServerStart, devices
    <3>3. CASE ServerReceives
      BY <2>1, <2>2, <2>3, <3>3
         DEF ServerReceives, Handles, HandleGarbled, HandleOffAzm,
             OffElvRaises, HandlePointing, HandleRepeat, serverVars, devices
    <3> QED
      BY <1>1, <3>1, <3>2, <3>3 DEF Next
  <2>5. azm # Unset /\ be4' = OffsetPair(azm, off)
    BY <2>4 DEF HandleOffElv
  <2>6. wire[1].kind = "OFFELV" /\ 1 \in DOMAIN wire /\ off = wire[1].off
    BY <1>1, <2>4, HeadTaken DEF PipelineInv, ServerReceives
  <2>7. azm = off
    BY <1>1, <2>5, <2>6 DEF PipelineInv, Travels, PairsTravel
  <2> QED
    BY <2>5, <2>7 DEF OffsetPair
<1> QED
  BY <1>1, PipelineInvariant, PTL DEF Spec, OffsetsPaired
===========================================================================

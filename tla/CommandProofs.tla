---------------------------- MODULE CommandProofs ----------------------------
(***************************************************************************)
(* Theorems about the station commands: stqkr with antcn's part of each,   *)
(* for every set of arguments, receivers and frequencies and every length  *)
(* of the queue.                                                           *)
(***************************************************************************)
EXTENDS Stqkr, TLAPS

---------------------------------------------------------------------------
(* The cal words.                                                         *)

(* The numbers the programs keep, as far as the cal words need them.       *)
WordsTyped ==
    /\ eff \in [source : Targets \cup {"NONE", ""},
                wrap : Wraps \cup {"1950FSX", ""}, tcal : {0, 1}, pcal : {0, 1}]
    /\ stm \in [ieffcal : {0, 1}, ieffpcal : {0, 1}, ieffrx : Nat]
    /\ own \in [cal : {0, 1}, pcal : {0, 1}, rx : Nat, floa : Int]

(* Before a cal command is used a word stqkr keeps may differ from the     *)
(* shared one, but what antcn is told are the shared ones, in cal=,        *)
(* phasecal=, rx= and lo= alike.                                           *)
CommandInv == WordsTyped /\ CalWordsAgree

LEMMA WordsOfArguments ==
    /\ \A arg, kept : kept \in {0, 1} => OnOffArg(arg, kept) \in {0, 1}
    /\ \A name, kept : kept \in Nat => RxLo(name, kept) \in Nat
  BY SMT DEF OnOffArg, RxLo

\* A receiver the table lacks keeps the last LO; any other has one LO.
LEMMA RxLoKeeps ==
  ASSUME NEW name, NEW kept
  PROVE  RxLo(name, kept) \in {kept, RxLo(name, 0)}
  BY SMTT(30) DEF RxLo

LEMMA IndexedLos == \A name \in DOMAIN LoIndex : LoIndex[name] \in Ifs
<1>1. DOMAIN LoIndex = {"loa", "lob", "loc", "lod"}
  BY DEF LoIndex
<1>2. /\ LoIndex["loa"] = 0 /\ LoIndex["lob"] = 1
      /\ LoIndex["loc"] = 2 /\ LoIndex["lod"] = 3
  BY DEF LoIndex
<1>3. {0, 1, 2, 3} \subseteq Ifs
  BY DEF Ifs
<1> HIDE DEF LoIndex
<1> QED
  BY <1>1, <1>2, <1>3

LEMMA FreshStatics ==
    [cal |-> 0, pcal |-> 0, rx |-> 0, floa |-> 0]
        \in [cal : {0, 1}, pcal : {0, 1}, rx : Nat, floa : Int]
<1>1. 0 \in {0, 1} /\ 0 \in Nat /\ 0 \in Int
  OBVIOUS
<1> QED
  BY <1>1, Zenon

LEMMA NoFreqIsNumber == NoFreq \in Int
<1>1. \A k \in Nat : -k \in Int
  BY SMT
<1> QED
  BY <1>1, SMT DEF NoFreq

LEMMA CommandInvStep == CommandInv /\ [CommandNext]_commandVars => CommandInv'
<1> SUFFICES ASSUME CommandInv, [CommandNext]_commandVars
             PROVE  CommandInv'
  OBVIOUS
<1> USE DEF CommandInv, WordsTyped, CalWordsAgree
<1>1. ASSUME NEW arg \in CalArgs, Cal(arg)
      PROVE  CommandInv'
  <2>1. PICK c \in {0, 1} :
           /\ own' = [own EXCEPT !.cal = c] /\ stm' = [stm EXCEPT !.ieffcal = c]
    BY <1>1, WordsOfArguments DEF Cal
  <2>2. eff' = [eff EXCEPT !.tcal = stm'.ieffcal, !.pcal = stm'.ieffpcal]
          /\ told' = told \cup {"cal"} /\ synced' = TRUE
    BY <1>1 DEF Cal, SendCal, Served
  <2> QED
    BY <2>1, <2>2
<1>2. ASSUME NEW arg \in PcalArgs, Phasecal(arg)
      PROVE  CommandInv'
  <2>1. PICK c \in {0, 1} :
           /\ own' = [own EXCEPT !.pcal = c] /\ stm' = [stm EXCEPT !.ieffpcal = c]
    BY <1>2, WordsOfArguments DEF Phasecal
  <2>2. eff' = [eff EXCEPT !.tcal = stm'.ieffcal, !.pcal = stm'.ieffpcal]
          /\ told' = told \cup {"phasecal"} /\ synced' = TRUE
    BY <1>2 DEF Phasecal, SendCal, Served
  <2> QED
    BY <2>1, <2>2
<1>3. ASSUME NEW arg \in RxNames, Rx(arg)
      PROVE  CommandInv'
  <2>1. PICK n \in Nat :
           /\ own' = [own EXCEPT !.rx = n] /\ stm' = [stm EXCEPT !.ieffrx = n]
    BY <1>3, WordsOfArguments DEF Rx
  <2>2. eff' = [eff EXCEPT !.tcal = stm'.ieffcal, !.pcal = stm'.ieffpcal]
          /\ told' = told /\ synced' = TRUE
    BY <1>3 DEF Rx, SendCal, Served
  <2> QED
    BY <2>1, <2>2
<1>4. ASSUME NEW n \in LoNames, NEW f \in LoFreqs, NEW m \in Modes, Lo(n, f, m)
      PROVE  CommandInv'
  <2>1. PICK k \in Int : own' = [own EXCEPT !.floa = k]
    BY <1>4, StqkrAssumption DEF Lo
  <2>2. eff' = [eff EXCEPT !.tcal = stm.ieffcal, !.pcal = stm.ieffpcal]
          /\ UNCHANGED <<stm, told>> /\ synced' = TRUE
    BY <1>4 DEF Lo, SendCal, Served
  <2> QED
    BY <2>1, <2>2
<1>5. CASE LoClear
  BY <1>5, NoFreqIsNumber DEF LoClear
<1>6. CASE Rejected \/ Ignored \/ Report \/ NoArgument
  <2>1. PICK ierr : Refused(ierr)
    BY <1>6 DEF Rejected, Ignored, Report, NoArgument
  <2> QED
    BY <2>1 DEF Refused
<1>7. ASSUME NEW f \in LoFreqs, LoNoFreq(f)
      PROVE  CommandInv'
  <2>1. PICK k \in Int : own' = [own EXCEPT !.floa = k]
    BY <1>7, StqkrAssumption DEF LoNoFreq
  <2> QED
    BY <1>7, <2>1 DEF LoNoFreq
<1>8. ASSUME StqkrRestart \/ \E n, f, w : LoCrashes(n, f, w)
      PROVE  CommandInv'
  <2>1. StaticsZeroed /\ UNCHANGED <<eff, stm, synced>>
    BY <1>8 DEF StqkrRestart, LoCrashes
  <2> QED
    BY <2>1, FreshStatics DEF StaticsZeroed
<1>9. CASE AntcnAsks
  <2>1. UNCHANGED stqkrVars
    BY <1>9 DEF AntcnAsks
  <2>2. CASE Initialize
    BY <2>1, <2>2 DEF Initialize, stqkrVars
  <2>3. CASE \E s \in Targets, w \in Wraps : Source(s, w)
    BY <2>1, <2>3 DEF Source, stqkrVars
  <2>4. CASE \/ \E off \in Offsets : SetOffsets(off)
             \/ \E word \in {"POINTING", "REPEAT"} : Raw(word)
    BY <2>1, <2>4 DEF SetOffsets, Raw, stqkrVars
  <2> QED
    BY <1>9, <2>2, <2>3, <2>4 DEF AntcnAsks, LineNext
<1>10. CASE AntcnStarts
  BY <1>10 DEF AntcnStarts, AntcnRestart, Blank
<1>11. CASE LineTaken \/ UNCHANGED commandVars
  <2>1. UNCHANGED <<eff, stm, own, synced, told>>
    BY <1>11 DEF LineTaken, commandVars, stqkrVars
  <2> QED
    BY <2>1
<1>12. CASE StqkrServes
  <2>1. ASSUME NEW n, NEW f, NEW w, LoCrashes(n, f, w)
        PROVE  CommandInv'
    BY <1>8, <2>1
  <2> QED
    BY <1>1, <1>2, <1>3, <1>4, <1>5, <1>12, <2>1 DEF StqkrServes
<1> QED
  BY <1>6, <1>7, <1>8, <1>9, <1>10, <1>11, <1>12 DEF CommandNext, StqkrNext

LEMMA CommandInitHolds == StqkrInit => CommandInv
<1> SUFFICES ASSUME StqkrInit PROVE CommandInv
  OBVIOUS
<1>1. eff = Blank /\ synced = FALSE /\ told = {}
  BY DEF StqkrInit, LineInit
<1>2. eff \in [source : Targets \cup {"NONE", ""},
               wrap : Wraps \cup {"1950FSX", ""},
               tcal : {0, 1}, pcal : {0, 1}]
  BY <1>1 DEF Blank
<1>3. stm \in [ieffcal : {0, 1}, ieffpcal : {0, 1}, ieffrx : Nat]
  BY DEF StqkrInit
<1>4. own \in [cal : {0, 1}, pcal : {0, 1}, rx : Nat, floa : Int]
  BY FreshStatics DEF StqkrInit
<1>5. eff.tcal = 0 /\ eff.pcal = 0
  BY <1>1 DEF Blank
<1> QED
  BY <1>1, <1>2, <1>3, <1>4, <1>5 DEF CommandInv, WordsTyped, CalWordsAgree

(* The copies of a cal word agree, and antcn's are off until it is told of *)
(* them, for every set of commands and sources.                            *)
(* antcn.c:156-157, 363-364; effcal.c:25-44, efflo.c:37-39.                *)
THEOREM CalWordsAlwaysAgree == CommandSpec => []CalWordsAgree
<1>1. CommandInv => CalWordsAgree
  BY DEF CommandInv
<1> QED
  BY <1>1, CommandInitHolds, CommandInvStep, PTL DEF CommandSpec

---------------------------------------------------------------------------
(* The types of the words and of what is on the wire.                      *)

\* The frequency of a line is one of the LOs.
LEMMA FfloIsAnLo ==
  ASSUME NEW f \in [Ifs -> Int]
  PROVE  \E k \in Ifs : Fflo(f) = f[k]
<1>1. \E k \in Ifs : \A j \in Ifs : f[k] >= f[j]
  <2>1. Ifs = {0, 1, 2, 3}
    BY DEF Ifs
  <2>2. f[0] \in Int /\ f[1] \in Int /\ f[2] \in Int /\ f[3] \in Int
    BY <2>1
  <2> QED
    BY <2>1, <2>2
<1>2. Max({f[k] : k \in Ifs}) \in {f[k] : k \in Ifs}
  BY <1>1 DEF Max
<1>3. 0 \in Ifs
  BY DEF Ifs
<1> QED
  BY <1>2, <1>3 DEF Fflo

LEMMA LineIsSent ==
  ASSUME NEW f \in [Ifs -> Int],
         NEW e \in [source : Targets \cup {"NONE", ""},
                    wrap : Wraps \cup {"1950FSX", ""},
                    tcal : {0, 1}, pcal : {0, 1}]
  PROVE  LineText(e, f) \in Sent
<1>1. Fflo(f) \in Int
  BY FfloIsAnLo
<1> QED
  BY <1>1 DEF LineText, Sent

LEMMA OneSent == \A S, d : d \in S => <<d>> \in Seq(S)
  OBVIOUS

\* Storing one LO, in any place, and clearing two.
LEMMA LoStored ==
  ASSUME NEW f \in [Ifs -> Int]
  PROVE  /\ \A k, v \in Int : [f EXCEPT ![k] = v] \in [Ifs -> Int]
         /\ [f EXCEPT ![0] = 0, ![2] = 0] \in [Ifs -> Int]
<1>1. \A k, v \in Int : [f EXCEPT ![k] = v] \in [Ifs -> Int]
  OBVIOUS
<1>2. ASSUME NEW g, g = [f EXCEPT ![0] = 0, ![2] = 0]
      PROVE  g \in [Ifs -> Int]
  <2>1. g = [i \in Ifs |-> IF i \in {0, 2} THEN 0 ELSE f[i]]
    BY <1>2
  <2> QED
    BY <2>1
<1> QED
  BY <1>1, <1>2

\* What is added to a queue that has room.
LEMMA QueueKeepsType ==
  ASSUME NEW S, wire \in Seq(S), Len(wire) <= WireCap,
         NEW msgs \in Seq(S), Sends(msgs)
  PROVE  wire' \in Seq(S) /\ Len(wire') <= WireCap
<1>1. wire' = wire \o msgs /\ Len(wire) + Len(msgs) <= WireCap
  BY DEF Sends
<1>2. wire \o msgs \in Seq(S) /\ Len(wire \o msgs) = Len(wire) + Len(msgs)
  OBVIOUS
<1> QED
  BY <1>1, <1>2

\* The two tables of efflo: the words that name a sideband or polarisation.
LEMMA NamedTyped ==
  ASSUME NEW f \in [Ifs -> 0..2], NEW k \in Ifs, NEW default \in 0..2, NEW word
  PROVE  Named(f, k, default, word) \in [Ifs -> 0..2]
<1> DEFINE d == [f EXCEPT ![DefaultIf(k)] = default]
<1>1. d \in [Ifs -> 0..2]
  OBVIOUS
<1>2. (IF word \in {1, 2} THEN word ELSE d[k]) \in 0..2
  BY <1>1
<1>3. Named(f, k, default, word)
        = [d EXCEPT ![k] = IF word \in {1, 2} THEN word ELSE d[k]]
  BY DEF Named
<1> HIDE DEF d
<1> QED
  BY <1>1, <1>2, <1>3

\* A command that sends the line of the words it leaves.
LEMMA CalLineTyped ==
  ASSUME CommandTypeOK, NEW f \in [Ifs -> Int],
         NEW c \in {0, 1}, NEW p \in {0, 1}, SendCal(f, c, p)
  PROVE  /\ eff' \in [source : Targets \cup {"NONE", ""},
                      wrap : Wraps \cup {"1950FSX", ""},
                      tcal : {0, 1}, pcal : {0, 1}]
         /\ wire' \in Seq(Sent) /\ Len(wire') <= WireCap
<1>1. eff' \in [source : Targets \cup {"NONE", ""},
                wrap : Wraps \cup {"1950FSX", ""},
                tcal : {0, 1}, pcal : {0, 1}]
  BY DEF CommandTypeOK, SendCal
<1>2. <<LineText(eff', f)>> \in Seq(Sent)
  BY <1>1, LineIsSent, OneSent
<1>3. wire' \in Seq(Sent) /\ Len(wire') <= WireCap
  BY <1>2, QueueKeepsType DEF CommandTypeOK, SendCal
<1> QED
  BY <1>1, <1>3

LEMMA CommandTypedStep ==
  CommandTypeOK /\ [CommandNext]_commandVars => CommandTypeOK'
<1> SUFFICES ASSUME CommandTypeOK, [CommandNext]_commandVars
             PROVE  CommandTypeOK'
  OBVIOUS
<1>0. /\ lo \in [Ifs -> Int]
      /\ eff \in [source : Targets \cup {"NONE", ""},
                  wrap : Wraps \cup {"1950FSX", ""},
                  tcal : {0, 1}, pcal : {0, 1}]
      /\ wire \in Seq(Sent) /\ Len(wire) <= WireCap
      /\ stm \in [ieffcal : {0, 1}, ieffpcal : {0, 1}, ieffrx : Nat]
      /\ own \in [cal : {0, 1}, pcal : {0, 1}, rx : Nat, floa : Int]
      /\ sideband \in [Ifs -> 0..2] /\ pol \in [Ifs -> 0..2]
      /\ synced \in BOOLEAN /\ told \subseteq {"cal", "phasecal"}
  BY DEF CommandTypeOK
<1>a. 0 \in Replies /\ -101 \in Replies
  BY SMT DEF Replies
\* What the commands that send share.
<1>b. ASSUME NEW f \in [Ifs -> Int], lo' = f, Served,
             SendCal(f, stm'.ieffcal, stm'.ieffpcal),
             stm' \in [ieffcal : {0, 1}, ieffpcal : {0, 1}, ieffrx : Nat],
             own' \in [cal : {0, 1}, pcal : {0, 1}, rx : Nat, floa : Int],
             sideband' \in [Ifs -> 0..2], pol' \in [Ifs -> 0..2],
             told' \subseteq {"cal", "phasecal"}
      PROVE  CommandTypeOK'
  <2>1. /\ eff' \in [source : Targets \cup {"NONE", ""},
                     wrap : Wraps \cup {"1950FSX", ""},
                     tcal : {0, 1}, pcal : {0, 1}]
        /\ wire' \in Seq(Sent) /\ Len(wire') <= WireCap
    BY <1>b, CalLineTyped
  <2>2. reply' \in Replies
          /\ synced' \in BOOLEAN
    BY <1>a, <1>b DEF Served
  <2> QED
    BY <1>b, <2>1, <2>2 DEF CommandTypeOK
<1>1. ASSUME NEW arg \in CalArgs, Cal(arg)
      PROVE  CommandTypeOK'
  <2>1. PICK c \in {0, 1} :
           /\ own' = [own EXCEPT !.cal = c] /\ stm' = [stm EXCEPT !.ieffcal = c]
    BY <1>0, <1>1, WordsOfArguments DEF Cal
  <2>2. /\ own' \in [cal : {0, 1}, pcal : {0, 1}, rx : Nat, floa : Int]
        /\ stm' \in [ieffcal : {0, 1}, ieffpcal : {0, 1}, ieffrx : Nat]
    BY <1>0, <2>1
  <2> QED
    BY <1>0, <1>1, <1>b, <2>2 DEF Cal
<1>2. ASSUME NEW arg \in PcalArgs, Phasecal(arg)
      PROVE  CommandTypeOK'
  <2>1. PICK c \in {0, 1} :
           /\ own' = [own EXCEPT !.pcal = c] /\ stm' = [stm EXCEPT !.ieffpcal = c]
    BY <1>0, <1>2, WordsOfArguments DEF Phasecal
  <2>2. /\ own' \in [cal : {0, 1}, pcal : {0, 1}, rx : Nat, floa : Int]
        /\ stm' \in [ieffcal : {0, 1}, ieffpcal : {0, 1}, ieffrx : Nat]
    BY <1>0, <2>1
  <2> QED
    BY <1>0, <1>2, <1>b, <2>2 DEF Phasecal
<1>3. ASSUME NEW arg \in RxNames, Rx(arg)
      PROVE  CommandTypeOK'
  <2>1. PICK n \in Nat :
           /\ own' = [own EXCEPT !.rx = n] /\ stm' = [stm EXCEPT !.ieffrx = n]
    BY <1>0, <1>3, WordsOfArguments DEF Rx
  <2>2. /\ own' \in [cal : {0, 1}, pcal : {0, 1}, rx : Nat, floa : Int]
        /\ stm' \in [ieffcal : {0, 1}, ieffpcal : {0, 1}, ieffrx : Nat]
        /\ 100 * own'.rx \in Int
    <3>1. own'.rx = n
      BY <1>0, <2>1
    <3>2. 100 * n \in Int
      OBVIOUS
    <3>3. 100 * own'.rx \in Int
      BY <3>1, <3>2, Zenon
    <3> QED
      BY <1>0, <2>1, <3>3
  <2>3. lo' \in [Ifs -> Int]
    <3>1. lo' = [lo EXCEPT ![0] = 100 * own'.rx]
      BY <1>3 DEF Rx
    <3> QED
      BY <1>0, <2>2, <3>1, LoStored
  <2> QED
    BY <1>0, <1>3, <1>b, <2>2, <2>3 DEF Rx
<1>4. ASSUME NEW n \in LoNames, NEW f \in LoFreqs, NEW m \in Modes, Lo(n, f, m)
      PROVE  CommandTypeOK'
  <2>1. PICK k \in Int :
           /\ own' = [own EXCEPT !.floa = k]
           /\ IF n \in DOMAIN LoIndex
              THEN /\ lo' = [lo EXCEPT ![LoIndex[n]] = k]
                   /\ sideband' = Named(sideband, LoIndex[n], 1, m[1])
                   /\ pol' = Named(pol, LoIndex[n], 2, m[2])
              ELSE UNCHANGED <<lo, sideband, pol>>
    BY <1>0, <1>4, StqkrAssumption DEF Lo
  <2>2. own' \in [cal : {0, 1}, pcal : {0, 1}, rx : Nat, floa : Int]
    BY <1>0, <2>1
  <2>3. /\ lo' \in [Ifs -> Int]
        /\ sideband' \in [Ifs -> 0..2] /\ pol' \in [Ifs -> 0..2]
    <3>1. CASE n \in DOMAIN LoIndex
      <4>1. LoIndex[n] \in Ifs /\ 1 \in 0..2 /\ 2 \in 0..2
        BY <3>1, IndexedLos
      <4>2. lo' = [lo EXCEPT ![LoIndex[n]] = k]
              /\ sideband' = Named(sideband, LoIndex[n], 1, m[1])
              /\ pol' = Named(pol, LoIndex[n], 2, m[2])
        BY <2>1, <3>1
      <4>3. sideband' \in [Ifs -> 0..2] /\ pol' \in [Ifs -> 0..2]
        BY <1>0, <4>1, <4>2, NamedTyped
      <4> QED
        BY <1>0, <4>2, <4>3, LoStored
    <3>2. CASE n \notin DOMAIN LoIndex
      BY <1>0, <2>1, <3>2
    <3> QED
      BY <3>1, <3>2
  <2>4. /\ stm' = stm /\ told' = told /\ Served
        /\ SendCal(lo', stm.ieffcal, stm.ieffpcal)
    BY <1>4 DEF Lo
  <2> QED
    BY <1>0, <1>b, <2>2, <2>3, <2>4
<1>5. CASE LoClear
  <2>1. /\ lo' \in [Ifs -> Int]
        /\ own' \in [cal : {0, 1}, pcal : {0, 1}, rx : Nat, floa : Int]
    <3>1. lo' = [lo EXCEPT ![0] = 0, ![2] = 0]
      BY <1>5 DEF LoClear
    <3>2. lo' \in [Ifs -> Int]
      BY <1>0, <3>1, LoStored
    <3> QED
      BY <1>0, <1>5, <3>2, NoFreqIsNumber DEF LoClear
  <2> QED
    BY <1>0, <1>a, <1>5, <2>1 DEF LoClear, CommandTypeOK
<1>6. CASE Rejected \/ Ignored \/ Report \/ NoArgument
  <2>1. PICK ierr \in Replies : Refused(ierr)
    <3>1. \A ierr \in {-1, -2, -3, -4} \cup {-104, -103, -102} :
             ierr \in Replies
      BY SMT DEF Replies
    <3>2. 0 \in Replies /\ Unanswered \in Replies
      BY DEF Replies
    <3> QED
      BY <1>6, <3>1, <3>2 DEF Rejected, Ignored, Report, NoArgument
  <2> QED
    BY <1>0, <2>1 DEF Refused, CommandTypeOK
<1>7. ASSUME NEW f \in LoFreqs, LoNoFreq(f)
      PROVE  CommandTypeOK'
  <2>1. PICK k \in Int : own' = [own EXCEPT !.floa = k]
    BY <1>0, <1>7, StqkrAssumption DEF LoNoFreq
  <2>2. own' \in [cal : {0, 1}, pcal : {0, 1}, rx : Nat, floa : Int]
    BY <1>0, <2>1
  <2> QED
    BY <1>0, <1>a, <1>7, <2>2 DEF LoNoFreq, CommandTypeOK
<1>8. CASE StqkrRestart
  BY <1>0, <1>a, <1>8, FreshStatics DEF StqkrRestart, StaticsZeroed, CommandTypeOK
<1>8a. ASSUME NEW n \in LoNames, NEW f \in LoFreqs, NEW w, LoCrashes(n, f, w)
      PROVE  CommandTypeOK'
  <2>1. PICK v \in Int :
           /\ lo' = [lo EXCEPT ![LoIndex[n]] = v]
           /\ sideband' = Named(sideband, LoIndex[n], 1, w)
           /\ pol' = Named(pol, LoIndex[n], 2, 0)
    BY <1>0, <1>8a, StqkrAssumption DEF LoCrashes
  <2>2. LoIndex[n] \in Ifs /\ 1 \in 0..2 /\ 2 \in 0..2
    BY <1>8a, IndexedLos DEF LoCrashes
  <2>3. sideband' \in [Ifs -> 0..2] /\ pol' \in [Ifs -> 0..2]
    BY <1>0, <2>1, <2>2, NamedTyped
  <2>4. lo' \in [Ifs -> Int]
    BY <1>0, <2>1, <2>2, LoStored
  <2>5. StaticsZeroed /\ UNCHANGED <<eff, wire, stm, synced>>
    BY <1>8a DEF LoCrashes
  <2> QED
    BY <1>0, <1>a, <2>3, <2>4, <2>5, FreshStatics DEF StaticsZeroed, CommandTypeOK
<1>9. CASE AntcnAsks
  <2>1. UNCHANGED <<lo, stm, own, sideband, pol, reply, synced, told>>
    BY <1>9 DEF AntcnAsks, LineNext, Initialize, Source, SetOffsets, Raw,
                stqkrVars
  <2>2. ASSUME eff' \in [source : Targets \cup {"NONE", ""},
                         wrap : Wraps \cup {"1950FSX", ""},
                         tcal : {0, 1}, pcal : {0, 1}],
               wire' = wire \/ \E msgs \in Seq(Sent) : Sends(msgs)
        PROVE  CommandTypeOK'
    <3>1. wire' \in Seq(Sent) /\ Len(wire') <= WireCap
      BY <1>0, <2>2, QueueKeepsType
    <3> QED
      BY <2>1, <2>2, <3>1 DEF CommandTypeOK
  <2>3. CASE Initialize
    <3>1. eff' = [eff EXCEPT !.source = "NONE", !.wrap = "1950FSX"]
            /\ wire' = wire
      BY <2>3 DEF Initialize
    <3>2. eff' \in [source : Targets \cup {"NONE", ""},
                    wrap : Wraps \cup {"1950FSX", ""},
                    tcal : {0, 1}, pcal : {0, 1}]
      BY <1>0, <3>1
    <3> QED
      BY <2>2, <3>1, <3>2
  <2>4. ASSUME NEW s \in Targets, NEW w \in Wraps, Source(s, w)
        PROVE  CommandTypeOK'
    <3>1. eff' = [eff EXCEPT !.source = s, !.wrap = w]
            /\ Sends(<<LineText(eff', lo)>>)
      BY <2>4 DEF Source
    <3>2. eff' \in [source : Targets \cup {"NONE", ""},
                    wrap : Wraps \cup {"1950FSX", ""},
                    tcal : {0, 1}, pcal : {0, 1}]
      BY <1>0, <3>1
    <3>3. <<LineText(eff', lo)>> \in Seq(Sent)
      BY <1>0, <3>2, LineIsSent, OneSent
    <3> QED
      BY <2>2, <3>1, <3>2, <3>3
  <2>5. ASSUME NEW off \in Offsets, SetOffsets(off)
        PROVE  CommandTypeOK'
    <3>1. /\ [kind |-> "OFFAZM", off |-> off] \in Sent
          /\ [kind |-> "OFFELV", off |-> off] \in Sent
      BY DEF Sent
    <3>2. <<[kind |-> "OFFAZM", off |-> off],
            [kind |-> "OFFELV", off |-> off]>> \in Seq(Sent)
      BY <3>1
    <3> QED
      BY <1>0, <2>2, <2>5, <3>2 DEF SetOffsets
  <2>6. ASSUME NEW word \in {"POINTING", "REPEAT"}, Raw(word)
        PROVE  CommandTypeOK'
    <3>1. [kind |-> word] \in Sent
      BY DEF Sent
    <3>2. <<[kind |-> word]>> \in Seq(Sent)
      BY <3>1, OneSent
    <3> QED
      BY <1>0, <2>2, <2>6, <3>2 DEF Raw
  <2> QED
    BY <1>9, <2>3, <2>4, <2>5, <2>6 DEF AntcnAsks, LineNext
<1>10. CASE AntcnStarts
  <2>1. eff' \in [source : Targets \cup {"NONE", ""},
                  wrap : Wraps \cup {"1950FSX", ""},
                  tcal : {0, 1}, pcal : {0, 1}]
    BY <1>10 DEF AntcnStarts, AntcnRestart, Blank
  <2> QED
    BY <1>0, <1>10, <2>1 DEF AntcnStarts, AntcnRestart, CommandTypeOK
<1>11. CASE LineTaken
  <2>1. \A S : <<>> \in Seq(S) /\ Len(<<>>) = 0
    OBVIOUS
  <2>2. \A S : \A q \in Seq(S) :
           q # <<>> => Tail(q) \in Seq(S) /\ Len(Tail(q)) = Len(q) - 1
                         /\ Len(q) \in Nat
    OBVIOUS
  <2>3. wire' \in Seq(Sent) /\ Len(wire') <= WireCap
    <3>1. CASE wire' = <<>>
      BY <2>1, <3>1, LineAssumption
    <3>2. CASE wire' = Tail(wire) /\ wire # <<>>
      <4>1. wire' \in Seq(Sent) /\ Len(wire') = Len(wire) - 1
              /\ Len(wire) \in Nat
        BY <1>0, <2>2, <3>2
      <4>2. \A a, c \in Nat : a <= c => a - 1 <= c
        OBVIOUS
      <4> QED
        BY <1>0, <4>1, <4>2, LineAssumption
    <3> QED
      BY <1>11, <3>1, <3>2 DEF LineTaken
  <2> QED
    BY <1>0, <1>11, <2>3 DEF LineTaken, stqkrVars, CommandTypeOK
<1>12. CASE UNCHANGED commandVars
  BY <1>12 DEF commandVars, stqkrVars, CommandTypeOK
<1> QED
  BY <1>1, <1>2, <1>3, <1>4, <1>5, <1>6, <1>7, <1>8, <1>9, <1>10, <1>11, <1>12,
     <1>8a
     DEF CommandNext, StqkrNext, StqkrServes

LEMMA CommandStartsTyped == StqkrInit => CommandTypeOK
<1> SUFFICES ASSUME StqkrInit PROVE CommandTypeOK
  OBVIOUS
<1>1. WordsTyped
  BY CommandInitHolds DEF CommandInv
<1>2. lo \in [Ifs -> Int] /\ wire = <<>>
  BY DEF StqkrInit, LineInit
<1>3. wire \in Seq(Sent) /\ Len(wire) <= WireCap
  BY <1>2, LineAssumption
<1>4. sideband \in [Ifs -> 0..2] /\ pol \in [Ifs -> 0..2]
  <2>1. [k \in Ifs |-> 0] \in [Ifs -> 0..2]
    OBVIOUS
  <2> QED
    BY <2>1 DEF StqkrInit
<1>5. reply \in Replies /\ synced \in BOOLEAN /\ told \subseteq {"cal", "phasecal"}
  BY DEF StqkrInit, Replies
<1> QED
  BY <1>1, <1>2, <1>3, <1>4, <1>5 DEF WordsTyped, CommandTypeOK

(* The words the commands store, and the datagrams antcn sends, never more *)
(* than the wire holds: for every set of arguments and frequencies.        *)
THEOREM CommandsAreTyped == CommandSpec => []CommandTypeOK
  BY CommandStartsTyped, CommandTypedStep, PTL DEF CommandSpec
=============================================================================

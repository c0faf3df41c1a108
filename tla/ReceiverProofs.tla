--------------------------- MODULE ReceiverProofs ---------------------------
(* Theorems about the receivers that antrcv_multi replaced, each running   *)
(* among any others, and about a station that runs antcn or any receiver.  *)
EXTENDS AntennaPrograms, AntennaProofs

---------------------------------------------------------------------------
(* askvax.                                                                 *)

LEMMA AskvaxTypedStep ==
    ASSUME MemoryTypeOK, AskvaxTypeOK, [AskvaxNext]_askvaxVars
    PROVE  MemoryTypeOK' /\ AskvaxTypeOK'
<1> USE DEF MemoryTypeOK, AskvaxTypeOK, memoryVars, At, Memory, Unborn,
            Window, GiveUp, CountCap
<1>1. CASE AskvaxStart
  BY <1>1 DEF AskvaxStart
<1>2. CASE AskvaxExit
  BY <1>2 DEF AskvaxExit
<1>3. CASE AskvaxReceive
  BY <1>3 DEF AskvaxReceive
<1>4. CASE AskvaxNotice
  <2>1. Counted(askvax.elaps) \in 0..CountCap
    BY DEF Counted
  <2>2. PICK e \in 0..CountCap, l \in {0, 1} :
           askvax' = [askvax EXCEPT !.pc = "expire", !.elaps = e,
                                    !.last_sentoff = l]
    <3>1. CASE askvax.last_sentoff = 0 /\ antenna_sentoff = 1
      BY <1>4, <3>1 DEF AskvaxNotice
    <3>2. CASE ~(askvax.last_sentoff = 0 /\ antenna_sentoff = 1)
      BY <1>4, <2>1, <3>2 DEF AskvaxNotice
    <3> QED
      BY <3>1, <3>2
  <2> QED
    BY <1>4, <2>2 DEF AskvaxNotice
<1>5. CASE AskvaxExpire
  BY <1>5 DEF AskvaxExpire
<1>6. CASE AskvaxDecide
  BY <1>6 DEF AskvaxDecide
<1>7. CASE AskvaxClear
  BY <1>7 DEF AskvaxClear
<1>8. CASE AskvaxRemember
  BY <1>8 DEF AskvaxRemember
<1>9. CASE AntcnWrites /\ UNCHANGED askvax
  BY <1>9 DEF AntcnWrites
<1>10. CASE UNCHANGED askvaxVars
  BY <1>10 DEF askvaxVars
<1> QED
  BY <1>1, <1>2, <1>3, <1>4, <1>5, <1>6, <1>7, <1>8, <1>9, <1>10
     DEF AskvaxNext

(* Nothing clears the way for a report within the window: the flag is      *)
(* cleared by a report only beyond it, and what the window ends with is 0. *)
AskvaxInv ==
    /\ MemoryTypeOK /\ AskvaxTypeOK
    /\ At("clear") => askvax.elaps > Window
    /\ At("remember") /\ askvax.elaps <= Window => ionsor = 0
    /\ AskvaxQuiet

LEMMA AskvaxInvStep == AskvaxInv /\ [AskvaxNext]_askvaxVars => AskvaxInv'
<1> SUFFICES ASSUME AskvaxInv, [AskvaxNext]_askvaxVars
             PROVE  AskvaxInv'
  OBVIOUS
<1>0. MemoryTypeOK' /\ AskvaxTypeOK'
  BY AskvaxTypedStep DEF AskvaxInv
<1> USE <1>0 DEF AskvaxInv, MemoryTypeOK, AskvaxTypeOK, memoryVars, At,
                 Memory, Unborn, Window, GiveUp, CountCap, AskvaxQuiet
<1>1. CASE AskvaxStart
  BY <1>1 DEF AskvaxStart
<1>2. CASE AskvaxExit
  BY <1>2 DEF AskvaxExit
<1>3. CASE AskvaxReceive
  BY <1>3 DEF AskvaxReceive
<1>4. CASE AskvaxNotice
  BY <1>4 DEF AskvaxNotice
<1>5. CASE AskvaxExpire
  BY <1>5 DEF AskvaxExpire
<1>6. CASE AskvaxDecide
  BY <1>6 DEF AskvaxDecide, Settled
<1>7. CASE AskvaxClear
  BY <1>7 DEF AskvaxClear
<1>8. CASE AskvaxRemember
  BY <1>8 DEF AskvaxRemember
<1>9. CASE AntcnWrites /\ UNCHANGED askvax
  BY <1>9 DEF AntcnWrites
<1>10. CASE UNCHANGED askvaxVars
  BY <1>10 DEF askvaxVars
<1> QED
  BY <1>1, <1>2, <1>3, <1>4, <1>5, <1>6, <1>7, <1>8, <1>9, <1>10
     DEF AskvaxNext

LEMMA AskvaxInvInit == AskvaxInit => AskvaxInv
  BY DEF AskvaxInit, MemoryInit, AskvaxInv, MemoryTypeOK, AskvaxTypeOK,
         AskvaxQuiet, At, Unborn, CountCap, GiveUp, Window

(* askvax reports nothing before the fifth broadcast of a counted request, *)
(* whatever antcn writes in between.                                       *)
THEOREM AskvaxIsQuiet == AskvaxSpec => []AskvaxQuiet
<1>1. AskvaxInv => AskvaxQuiet
  BY DEF AskvaxInv
<1> QED
  BY <1>1, AskvaxInvInit, AskvaxInvStep, PTL DEF AskvaxSpec

---------------------------------------------------------------------------
(* real_askvax.                                                            *)

LEMMA VaxTypedStep ==
    ASSUME MemoryTypeOK, VaxTypeOK, [VaxNext]_vaxVars
    PROVE  MemoryTypeOK' /\ VaxTypeOK'
<1> USE DEF MemoryTypeOK, VaxTypeOK, memoryVars, Goto, StateFloor
<1>1. CASE VaxStart
  BY <1>1 DEF VaxStart
<1>2. CASE VaxExit
  <2>1. 0 \in 0..Lapse + 1 /\ 0 \in 0..Steady + 1 /\ 0 \in 0..Calm + 1
    BY DEF Lapse, Steady, Calm
  <2> QED
    BY <1>2, <2>1 DEF VaxExit, Absent
<1>3. CASE VaxReceive
  BY <1>3 DEF VaxReceive
<1>4. CASE VaxNotice
  <2>1. /\ Upto(vax.elaps, Lapse + 1) \in 0..Lapse + 1
        /\ Upto(vax.ioelaps, Steady + 1) \in 0..Steady + 1
        /\ Upto(vax.stable, Calm + 1) \in 0..Calm + 1
        /\ 0 \in 0..Steady + 1 /\ 1 \in 0..Lapse + 1
    BY DEF Upto, Lapse, Steady, Calm
  <2> QED
    BY <1>4, <2>1 DEF VaxNotice
<1>5. CASE VaxExpire
  BY <1>5 DEF VaxExpire
<1>6. CASE Told
  BY <1>6 DEF Told
<1>7. CASE Started
  BY <1>7 DEF Started
<1>8. CASE NotStarted
  BY <1>8 DEF NotStarted
<1>9. CASE StartedClear
  BY <1>9 DEF StartedClear
<1>10. CASE Reached
  <2>1. 0 \in 0..Calm + 1
    BY DEF Calm
  <2>2. ant_state' \in StateFloor..4
    BY <1>10 DEF Reached, Wobble
  <2>3. vax' \in [pc : {"down", "recv", "notice", "expire", "told",
                        "started", "clear", "reached", "remember", "report"},
                  elaps : 0..Lapse + 1, last_sentoff : {0, 1},
                  ioelaps : 0..Steady + 1, stable : 0..Calm + 1]
    BY <1>10, <2>1 DEF Reached
  <2> QED
    BY <1>10, <2>2, <2>3 DEF Reached
<1>11. CASE VaxRemember
  BY <1>11 DEF VaxRemember
<1>12. CASE Report
  BY <1>12 DEF Report, Strict
<1>13. CASE OnoffToggles
  BY <1>13 DEF OnoffToggles
<1>14. CASE AntcnInterferes
  BY <1>14 DEF AntcnInterferes
<1>15. CASE UNCHANGED vaxVars
  BY <1>15 DEF vaxVars
<1> QED
  BY <1>1, <1>2, <1>3, <1>4, <1>5, <1>6, <1>7, <1>8, <1>9, <1>10, <1>11,
     <1>12, <1>13, <1>14, <1>15 DEF VaxNext, VaxStep

(* After a departure the ladder is left below 3: at most at 2 between the  *)
(* statement that sees the antenna off position and the one that counts    *)
(* that very broadcast against the state.                                  *)
Below ==
    departed =>
        /\ vax.pc = "clear" => ant_state = 2 /\ raw_ionsor = 0
        /\ vax.pc = "reached" /\ ant_state = 2 => raw_ionsor = 0
        /\ vax.pc = "reached" => ant_state <= 2
        /\ vax.pc \notin {"clear", "reached"} => ant_state <= 1

VaxInv == MemoryTypeOK /\ VaxTypeOK /\ Below

LEMMA VaxInvStep == VaxInv /\ [VaxNext]_vaxVars => VaxInv'
<1> SUFFICES ASSUME VaxInv, [VaxNext]_vaxVars
             PROVE  Below'
  BY VaxTypedStep DEF VaxInv
<1> USE DEF VaxInv, VaxTypeOK, memoryVars, Goto, Steady, Calm, StateFloor,
            Below
<1>1. CASE VaxStart
  BY <1>1 DEF VaxStart
<1>2. CASE VaxExit
  BY <1>2 DEF VaxExit
<1>3. CASE VaxReceive
  BY <1>3 DEF VaxReceive
<1>4. CASE VaxNotice
  BY <1>4 DEF VaxNotice
<1>5. CASE VaxExpire
  BY <1>5 DEF VaxExpire
<1>6. CASE Told
  BY <1>6 DEF Told
<1>7. CASE Started
  BY <1>7 DEF Started
<1>8. CASE NotStarted
  BY <1>8 DEF NotStarted
<1>9. CASE StartedClear
  BY <1>9 DEF StartedClear
<1>10. CASE Reached
  <2> SUFFICES ASSUME departed'
               PROVE  ant_state' <= 1
    BY <1>10 DEF Reached
  <2>1. departed /\ vax.ioelaps <= 9 /\ vax.pc = "reached"
    BY <1>10 DEF Reached
  <2>2. ~Arrives(ant_state)
    BY <2>1 DEF Arrives
  <2>3. ant_state' = Wobble(ant_state)
    BY <1>10, <2>1, <2>2 DEF Reached, Wobble
  <2> QED
    BY <2>1, <2>3 DEF Wobble
<1>11. CASE VaxRemember
  BY <1>11 DEF VaxRemember
<1>12. CASE Report
  BY <1>12 DEF Report
<1>13. CASE OnoffToggles
  BY <1>13 DEF OnoffToggles
<1>14. CASE AntcnInterferes
  BY <1>14 DEF AntcnInterferes
<1>15. CASE UNCHANGED vaxVars
  BY <1>15 DEF vaxVars
<1> QED
  BY <1>1, <1>2, <1>3, <1>4, <1>5, <1>6, <1>7, <1>8, <1>9, <1>10, <1>11,
     <1>12, <1>13, <1>14, <1>15 DEF VaxNext, VaxStep

LEMMA VaxInvInit == VaxInit => VaxInv
<1>1. 0 \in 0..Lapse + 1 /\ 0 \in 0..Steady + 1 /\ 0 \in 0..Calm + 1
  BY DEF Lapse, Steady, Calm
<1>2. Absent \in [pc : {"down", "recv", "notice", "expire", "told",
                       "started", "clear", "reached", "remember", "report"},
                 elaps : 0..Lapse + 1, last_sentoff : {0, 1},
                 ioelaps : 0..Steady + 1, stable : 0..Calm + 1]
  BY <1>1 DEF Absent
<1>3. VaxInit => VaxTypeOK
  <2> SUFFICES ASSUME VaxInit PROVE VaxTypeOK
    OBVIOUS
  <2>1. vax = Absent /\ raw_ionsor = 0 /\ ant_state = 0
          /\ onoff \in BOOLEAN /\ departed \in BOOLEAN
    BY DEF VaxInit
  <2>2. raw_ionsor \in {0, 1} /\ ant_state \in StateFloor..4
    BY <2>1 DEF StateFloor
  <2> QED
    BY <1>2, <2>1, <2>2, Zenon DEF VaxTypeOK
<1> QED
  BY <1>3 DEF VaxInit, MemoryInit, VaxInv, MemoryTypeOK, Below

\* A departure is over before the state allows a strict report.
LEMMA VaxStrict == VaxInv => (Report /\ onoff /\ departed => ionsor' = 0)
  BY DEF VaxInv, Below, VaxTypeOK, StateFloor, Report, Goto, Strict

(* While onoff or fivpt runs, real_askvax reports on source after an       *)
(* antenna it saw leaving only when it has been back for ten broadcasts.   *)
THEOREM VaxWaits == VaxSpec => StrictWaits
  BY VaxInvInit, VaxInvStep, VaxStrict, PTL DEF VaxSpec, StrictWaits

---------------------------------------------------------------------------
(* clientserv.                                                             *)

ClientInv == ClientTypeOK /\ InOrder

LEMMA TailAscends ==
    ASSUME NEW line \in Seq(Nat), line # <<>>, Ascending(line)
    PROVE  /\ Ascending(Tail(line))
           /\ \A i \in 1..Len(Tail(line)) : Head(line) < Tail(line)[i]
<1>1. /\ Len(line) \in Nat /\ Len(line) >= 1
      /\ Len(Tail(line)) = Len(line) - 1 /\ Head(line) = line[1]
      /\ \A i \in 1..Len(Tail(line)) : Tail(line)[i] = line[i + 1]
  OBVIOUS
<1>2. ASSUME NEW i \in 1..Len(Tail(line)), NEW j \in 1..Len(Tail(line)), i < j
      PROVE  Tail(line)[i] < Tail(line)[j]
  <2>1. /\ i + 1 \in 1..Len(line) /\ j + 1 \in 1..Len(line) /\ i + 1 < j + 1
        /\ Tail(line)[i] = line[i + 1] /\ Tail(line)[j] = line[j + 1]
    BY <1>1, <1>2
  <2> QED
    BY <2>1 DEF Ascending
<1>3. ASSUME NEW i \in 1..Len(Tail(line))
      PROVE  Head(line) < Tail(line)[i]
  <2>1. /\ 1 \in 1..Len(line) /\ i + 1 \in 1..Len(line) /\ 1 < i + 1
        /\ Tail(line)[i] = line[i + 1]
    BY <1>1
  <2> QED
    BY <1>1, <2>1 DEF Ascending
<1> QED
  BY <1>2, <1>3 DEF Ascending

LEMMA AppendAscends ==
    ASSUME NEW line \in Seq(Nat), NEW last \in Nat, Ascending(line),
           \A i \in 1..Len(line) : line[i] < last
    PROVE  Ascending(Append(line, last))
<1> DEFINE longer == Append(line, last)
<1>1. /\ Len(line) \in Nat /\ Len(longer) = Len(line) + 1
      /\ longer[Len(line) + 1] = last
      /\ \A i \in 1..Len(line) : longer[i] = line[i]
  OBVIOUS
<1>2. ASSUME NEW i \in 1..Len(longer), NEW j \in 1..Len(longer), i < j
      PROVE  longer[i] < longer[j]
  <2> HIDE DEF longer
  <2>1. i \in 1..Len(line) /\ longer[i] = line[i]
    BY <1>1, <1>2
  <2>2. CASE j \in 1..Len(line)
    BY <1>1, <1>2, <2>1, <2>2 DEF Ascending
  <2>3. CASE j = Len(line) + 1
    BY <1>1, <2>1, <2>3
  <2> QED
    BY <1>1, <2>2, <2>3
<1> QED
  BY <1>2 DEF Ascending

(* What the steps below start from, with every number's type at hand.      *)
LEMMA ClientFacts ==
    ASSUME ClientInv
    PROVE  /\ sent \in Nat /\ buf \in Nat /\ missed \in Nat
           /\ answers \in Seq(Nat) /\ asked \in Seq(Nat)
           /\ Ascending(answers) /\ Ascending(asked) /\ Between /\ Counts
<1>1. answers \in Seq(Nat) /\ asked \in Seq(Nat)
  BY ClientservAssumption DEF ClientInv, ClientTypeOK
<1> QED
  BY <1>1, ClientservAssumption DEF ClientInv, ClientTypeOK, InOrder

LEMMA ClientTyped == ClientInv /\ [ClientNext]_clientVars => ClientTypeOK'
<1> SUFFICES ASSUME ClientInv, [ClientNext]_clientVars
             PROVE  ClientTypeOK'
  OBVIOUS
<1> USE ClientservAssumption DEF ClientInv, ClientTypeOK
<1>1. CASE Open
  BY <1>1 DEF Open, ServerBind
<1>2. CASE Disaster
  BY <1>2 DEF Disaster
<1>3. CASE Request
  BY <1>3 DEF Request, SocketSendto
<1>4. CASE Read
  <2>1. answers \in Seq(1..MaxSent) /\ answers # <<>>
    BY <1>4 DEF Read
  <2>2. Head(answers) \in 1..MaxSent /\ Tail(answers) \in Seq(1..MaxSent)
    BY <2>1
  <2> QED
    BY <1>4, <2>2 DEF Read
<1>5. CASE ReadNothing
  BY <1>5 DEF ReadNothing, InOrder, Counts, Overdue
<1>6. CASE Judge
  BY <1>6 DEF Judge
<1>7. CASE Answer
  <2>1. asked \in Seq(1..MaxSent) /\ asked # <<>>
    BY <1>7 DEF Answer
  <2>2. Head(asked) \in 1..MaxSent /\ Tail(asked) \in Seq(1..MaxSent)
    BY <2>1
  <2> QED
    BY <1>7, <2>2 DEF Answer
<1>8. CASE Lost
  <2>1. asked \in Seq(1..MaxSent) /\ asked # <<>>
    BY <1>8 DEF Lost
  <2> QED
    BY <1>8, <2>1 DEF Lost
<1>9. CASE UNCHANGED clientVars
  BY <1>9 DEF clientVars
<1> QED
  BY <1>1, <1>2, <1>3, <1>4, <1>5, <1>6, <1>7, <1>8, <1>9 DEF ClientNext

LEMMA ClientInvStep == ClientInv /\ [ClientNext]_clientVars => ClientInv'
<1> SUFFICES ASSUME ClientInv, [ClientNext]_clientVars
             PROVE  InOrder'
  BY ClientTyped DEF ClientInv
<1>0. /\ sent \in Nat /\ buf \in Nat /\ missed \in Nat
      /\ answers \in Seq(Nat) /\ asked \in Seq(Nat)
      /\ Ascending(answers) /\ Ascending(asked) /\ Between /\ Counts
  BY ClientFacts
<1>1. CASE Open
  <2>1. answers' = <<>> /\ csPc = "closed" /\ csPc' = "send"
          /\ UNCHANGED <<sent, asked, buf, missed>>
    BY <1>1 DEF Open, ServerBind
  <2>2. Ascending(answers)' /\ Ascending(asked)'
    BY <1>0, <2>1 DEF Ascending
  <2>3. Between'
    BY <1>0, <2>1 DEF Between
  <2>4. Counts'
    BY <1>0, <2>1 DEF Counts, Overdue
  <2> QED
    BY <2>2, <2>3, <2>4 DEF InOrder
<1>2. CASE Disaster
  BY <1>2 DEF Disaster, InOrder, Counts, Overdue, Ascending, Between
<1>3. CASE Request
  <2>1. /\ asked' = Append(asked, sent + 1) /\ sent' = sent + 1
        /\ csPc = "send" /\ csPc' = "read" /\ UNCHANGED <<answers, buf, missed>>
    BY <1>3 DEF Request, SocketSendto
  <2>2. \A i \in 1..Len(asked) : asked[i] \in Nat /\ asked[i] < sent + 1
    BY <1>0 DEF Between
  <2>3. Ascending(asked)' /\ Ascending(answers)'
    <3>1. Ascending(Append(asked, sent + 1))
      BY <1>0, <2>2, AppendAscends
    <3> QED
      BY <1>0, <2>1, <3>1
  <2>4. buf < sent + 1 /\ \A i \in 1..Len(answers) :
           answers[i] \in Nat /\ answers[i] <= sent
    <3>1. \A i \in 1..Len(answers) : answers[i] \in Nat /\ answers[i] <= sent
      BY <1>0 DEF Between
    <3>2. buf <= sent
      BY <1>0, <2>1 DEF Between, Counts, Overdue, InOrder
    <3> QED
      BY <1>0, <3>1, <3>2
  <2>5. Between'
    BY <1>0, <2>1, <2>2, <2>4 DEF Between
  <2>6. Counts'
    BY <1>0, <2>1 DEF Counts, Overdue
  <2> QED
    BY <2>3, <2>5, <2>6 DEF InOrder
<1>4. CASE Read
  <2>1. /\ answers # <<>> /\ answers' = Tail(answers) /\ buf' = Head(answers)
        /\ csPc = "read" /\ csPc' = "judge" /\ UNCHANGED <<sent, asked, missed>>
    BY <1>4 DEF Read
  <2>2. /\ Ascending(Tail(answers))
        /\ \A i \in 1..Len(Tail(answers)) : Head(answers) < Tail(answers)[i]
    BY <1>0, <2>1, TailAscends
  <2>3. /\ 1 \in 1..Len(answers) /\ Head(answers) = answers[1]
        /\ answers[1] \in Nat
    BY <1>0, <2>1
  <2>4. buf < buf' /\ buf' \in Nat /\ buf' <= sent
    BY <1>0, <2>1, <2>3 DEF Between
  <2>5. Counts'
    BY <1>0, <2>1, <2>4 DEF Counts, Overdue
  <2>6. \A j \in 1..Len(asked) : buf' < asked[j] /\ asked[j] <= sent
    BY <1>0, <2>1, <2>3 DEF Between
  <2>7. \A i \in 1..Len(Tail(answers)) :
           /\ i + 1 \in 1..Len(answers)
           /\ Tail(answers)[i] = answers[i + 1]
    BY <1>0, <2>1
  <2>8. \A i \in 1..Len(Tail(answers)) :
           /\ Tail(answers)[i] <= sent
           /\ \A j \in 1..Len(asked) : Tail(answers)[i] < asked[j]
    BY <1>0, <2>7 DEF Between
  <2>9. Between'
    BY <2>1, <2>2, <2>6, <2>8 DEF Between
  <2>10. Ascending(answers)' /\ Ascending(asked)'
    BY <1>0, <2>1, <2>2
  <2> QED
    BY <2>5, <2>9, <2>10 DEF InOrder
<1>5. CASE ReadNothing
  <2>1. /\ csPc = "read" /\ csPc' = "judge" /\ missed' = missed + 1
        /\ UNCHANGED <<sent, asked, answers, buf>>
    BY <1>5 DEF ReadNothing
  <2> QED
    BY <1>0, <2>1 DEF InOrder, Counts, Overdue, Ascending, Between
<1>6. CASE Judge
  <2>1. /\ csPc = "judge" /\ csPc' = "send"
        /\ UNCHANGED <<sent, asked, answers, buf, missed>>
    BY <1>6 DEF Judge
  <2> QED
    BY <1>0, <2>1 DEF InOrder, Counts, Overdue, Ascending, Between
<1>7. CASE Answer
  <2>1. /\ asked # <<>> /\ asked' = Tail(asked)
        /\ answers' = Append(answers, Head(asked))
        /\ UNCHANGED <<csPc, sent, buf, missed>>
    BY <1>7 DEF Answer
  <2>2. /\ Ascending(Tail(asked))
        /\ \A i \in 1..Len(Tail(asked)) : Head(asked) < Tail(asked)[i]
    BY <1>0, <2>1, TailAscends
  <2>3. /\ 1 \in 1..Len(asked) /\ Head(asked) = asked[1]
        /\ Head(asked) \in Nat
    BY <1>0, <2>1
  <2>4. \A i \in 1..Len(answers) : answers[i] < Head(asked)
    BY <1>0, <2>3 DEF Between
  <2>5. Ascending(Append(answers, Head(asked)))
    BY <1>0, <2>3, <2>4, AppendAscends
  <2>6. \A i \in 1..Len(Tail(asked)) :
           /\ i + 1 \in 1..Len(asked)
           /\ Tail(asked)[i] = asked[i + 1]
    BY <1>0, <2>1
  <2>7. /\ Len(answers) \in Nat
        /\ Len(Append(answers, Head(asked))) = Len(answers) + 1
        /\ Append(answers, Head(asked))[Len(answers) + 1] = Head(asked)
        /\ \A i \in 1..Len(answers) :
              Append(answers, Head(asked))[i] = answers[i]
    BY <1>0, <2>3
  <2>8. ASSUME NEW i \in 1..Len(Append(answers, Head(asked)))
        PROVE  \/ /\ i \in 1..Len(answers)
                  /\ Append(answers, Head(asked))[i] = answers[i]
               \/ Append(answers, Head(asked))[i] = Head(asked)
    BY <2>7
  <2>9. \A j \in 1..Len(Tail(asked)) :
           /\ buf < Tail(asked)[j] /\ Tail(asked)[j] <= sent
           /\ \A i \in 1..Len(answers) : answers[i] < Tail(asked)[j]
    BY <1>0, <2>6 DEF Between
  <2>10. buf < Head(asked) /\ Head(asked) <= sent
    BY <1>0, <2>3 DEF Between
  <2>11. \A i \in 1..Len(answers) : buf < answers[i] /\ answers[i] <= sent
    BY <1>0 DEF Between
  <2>12. \A i \in 1..Len(Append(answers, Head(asked))) :
            /\ buf < Append(answers, Head(asked))[i]
            /\ Append(answers, Head(asked))[i] <= sent
            /\ \A j \in 1..Len(Tail(asked)) :
                  Append(answers, Head(asked))[i] < Tail(asked)[j]
    BY <2>2, <2>8, <2>9, <2>10, <2>11
  <2>13. Between'
    BY <2>1, <2>9, <2>12 DEF Between
  <2>14. Counts'
    BY <1>0, <2>1 DEF Counts, Overdue
  <2>15. Ascending(answers)' /\ Ascending(asked)'
    BY <2>1, <2>2, <2>5
  <2> QED
    BY <2>13, <2>14, <2>15 DEF InOrder
<1>8. CASE Lost
  <2>1. /\ asked # <<>> /\ asked' = Tail(asked)
        /\ UNCHANGED <<csPc, sent, answers, buf, missed>>
    BY <1>8 DEF Lost
  <2>2. Ascending(Tail(asked))
    BY <1>0, <2>1, TailAscends
  <2>3. \A i \in 1..Len(Tail(asked)) :
           /\ i + 1 \in 1..Len(asked)
           /\ Tail(asked)[i] = asked[i + 1]
    BY <1>0, <2>1
  <2>4. \A j \in 1..Len(Tail(asked)) :
           /\ buf < Tail(asked)[j] /\ Tail(asked)[j] <= sent
           /\ \A i \in 1..Len(answers) : answers[i] < Tail(asked)[j]
    BY <1>0, <2>3 DEF Between
  <2>5. Between'
    BY <1>0, <2>1, <2>4 DEF Between
  <2>6. Counts' /\ Ascending(answers)' /\ Ascending(asked)'
    BY <1>0, <2>1, <2>2 DEF Counts, Overdue
  <2> QED
    BY <2>5, <2>6 DEF InOrder
<1>9. CASE UNCHANGED clientVars
  BY <1>0, <1>9 DEF clientVars, InOrder, Counts, Overdue, Ascending, Between
<1> QED
  BY <1>1, <1>2, <1>3, <1>4, <1>5, <1>6, <1>7, <1>8, <1>9 DEF ClientNext

LEMMA ClientInvInit == ClientInit => ClientInv
  BY ClientservAssumption
     DEF ClientInit, ClientInv, ClientTypeOK, InOrder, Counts, Overdue,
         Ascending, Between

LEMMA ClientRecent == ClientInv => JudgesRecent
  BY DEF ClientInv, ClientTypeOK, InOrder, Counts, Overdue, JudgesRecent

(* clientserv judges answers no older than one request for every read that *)
(* found nothing, whatever is lost.                                        *)
THEOREM ClientJudgesRecent == ClientSpec => []JudgesRecent
  BY ClientInvInit, ClientInvStep, ClientRecent, PTL DEF ClientSpec

---------------------------------------------------------------------------
(* A station runs one of the programs.  The shared words keep their type   *)
(* whichever it is; what is claimed of a program's own words holds while it*)
(* runs, and the words of one that does not run stay as they started.      *)

AntennaInv ==
    /\ AntcnTyped /\ RecordsLeft /\ Answering
    /\ AntrcvTyped /\ Settling
    /\ AskvaxInv /\ VaxInv /\ ClientInv
    /\ program # "antrcv_multi" => antrcvPc = "down"
    /\ program # "askvax" => At("down")

LEMMA AntennaInvInit == AntennaInit => AntennaInv
<1> SUFFICES ASSUME AntennaInit PROVE AntennaInv
  OBVIOUS
<1>1. AntcnInit /\ AntrcvInit /\ AskvaxInit /\ VaxInit /\ ClientInit
  BY DEF AntennaInit
<1>2. AntcnTyped /\ RecordsLeft /\ AntrcvTyped
  BY <1>1, AntcnStarts, AntrcvStarts
<1>3. Answering /\ Settling
  <2>1. antcnPc = "down" /\ antrcvPc = "down"
    BY <1>1 DEF AntcnInit, AntrcvInit
  <2>2. Answering
    BY <2>1 DEF Answering, AnswerIsOwn, MidCommand, Sending
  <2>3. Settling
    BY <2>1 DEF Settling
  <2> QED
    BY <2>2, <2>3
<1>4. AskvaxInv /\ VaxInv /\ ClientInv
  BY <1>1, AskvaxInvInit, VaxInvInit, ClientInvInit
<1>5. antrcvPc = "down" /\ At("down")
  BY <1>1 DEF AntrcvInit, AskvaxInit, At, Unborn
<1> QED
  BY <1>2, <1>3, <1>4, <1>5 DEF AntennaInv

\* A program that does not run keeps its part of the invariant when another
\* leaves the shared words well typed.
LEMMA AntcnRests ==
  ASSUME AntennaInv, MemoryTypeOK', UNCHANGED antcnVars
  PROVE  AntcnTyped' /\ RecordsLeft' /\ Answering'
  BY DEF AntennaInv, AntcnTyped, AntcnTypeOK, RecordsLeft, Answering,
         AnswerIsOwn, antcnVars

LEMMA AntrcvRests ==
  ASSUME AntennaInv, antrcvPc = "down", MemoryTypeOK', UNCHANGED antrcvVars
  PROVE  AntrcvTyped' /\ Settling' /\ antrcvPc' = "down"
  BY DEF AntennaInv, AntrcvTyped, AntrcvTypeOK, Settling, antrcvVars

LEMMA AskvaxRests ==
  ASSUME AntennaInv, At("down"), MemoryTypeOK', UNCHANGED askvax
  PROVE  AskvaxInv' /\ At("down")'
  BY DEF AntennaInv, AskvaxInv, AskvaxTypeOK, AskvaxQuiet, At

LEMMA VaxRests ==
  ASSUME AntennaInv, MemoryTypeOK', UNCHANGED vaxOnly
  PROVE  VaxInv'
  BY DEF AntennaInv, VaxInv, VaxTypeOK, Below, vaxOnly

LEMMA ClientRests ==
  ASSUME AntennaInv, UNCHANGED clientVars
  PROVE  ClientInv'
  BY ClientInvStep DEF AntennaInv

LEMMA AntennaInvStep == AntennaInv /\ [AntennaNext]_antennaVars => AntennaInv'
<1> SUFFICES ASSUME AntennaInv, [AntennaNext]_antennaVars
             PROVE  AntennaInv'
  OBVIOUS
<1>1. CASE AntcnRuns
  <2>1. /\ AntcnNext /\ program = "antcn"
        /\ UNCHANGED antrcvVars /\ UNCHANGED askvax /\ UNCHANGED vaxOnly
        /\ UNCHANGED clientVars
    BY <1>1 DEF AntcnRuns
  <2>2. AntcnTyped' /\ RecordsLeft' /\ Answering'
    BY <2>1, AntcnTypedStep, CountedStep, AnsweringStep DEF AntennaInv
  <2>3. MemoryTypeOK' /\ antrcvPc = "down" /\ At("down")
    BY <2>1, <2>2 DEF AntennaInv, AntcnTyped
  <2> QED
    BY <2>1, <2>2, <2>3, AntrcvRests, AskvaxRests, VaxRests, ClientRests
       DEF AntennaInv
<1>2. CASE MultiRuns
  <2>1. /\ AntrcvNext /\ program = "antrcv_multi" /\ program' = program
        /\ UNCHANGED antcnVars /\ UNCHANGED askvax /\ UNCHANGED vaxOnly
        /\ UNCHANGED clientVars
    BY <1>2 DEF MultiRuns
  <2>2. AntrcvTyped' /\ Settling'
    BY <2>1, AntrcvTypedStep, SettlingStep DEF AntennaInv
  <2>3. MemoryTypeOK' /\ At("down")
    BY <2>1, <2>2 DEF AntennaInv, AntrcvTyped
  <2> QED
    BY <2>1, <2>2, <2>3, AntcnRests, AskvaxRests, VaxRests, ClientRests
       DEF AntennaInv
<1>3. CASE AskvaxRuns
  <2>1. /\ AskvaxNext /\ program = "askvax" /\ program' = program
        /\ UNCHANGED antcnVars /\ UNCHANGED antrcvVars /\ UNCHANGED vaxOnly
        /\ UNCHANGED clientVars
    BY <1>3 DEF AskvaxRuns
  <2>2. AskvaxInv'
    BY <2>1, AskvaxInvStep DEF AntennaInv
  <2>3. MemoryTypeOK' /\ antrcvPc = "down"
    BY <2>1, <2>2 DEF AntennaInv, AskvaxInv
  <2> QED
    BY <2>1, <2>2, <2>3, AntcnRests, AntrcvRests, VaxRests, ClientRests
       DEF AntennaInv
<1>4. CASE VaxRuns
  <2>1. /\ VaxNext /\ program = "real_askvax" /\ program' = program
        /\ UNCHANGED antcnVars /\ UNCHANGED antrcvVars /\ UNCHANGED askvax
        /\ UNCHANGED clientVars
    BY <1>4 DEF VaxRuns
  <2>2. VaxInv'
    BY <2>1, VaxInvStep DEF AntennaInv
  <2>3. MemoryTypeOK' /\ antrcvPc = "down" /\ At("down")
    BY <2>1, <2>2 DEF AntennaInv, VaxInv
  <2> QED
    BY <2>1, <2>2, <2>3, AntcnRests, AntrcvRests, AskvaxRests, ClientRests
       DEF AntennaInv
<1>5. CASE ClientRuns \/ UNCHANGED antennaVars
  <2>1. /\ [ClientNext]_clientVars /\ UNCHANGED memoryVars
        /\ program' = program /\ UNCHANGED antcnVars /\ UNCHANGED antrcvVars
        /\ UNCHANGED askvax /\ UNCHANGED vaxOnly
    BY <1>5 DEF ClientRuns, antennaVars
  <2>2. MemoryTypeOK' /\ ClientInv'
    BY <2>1, ClientInvStep DEF AntennaInv, AntcnTyped, MemoryTypeOK, memoryVars
  <2>3. AntcnTyped' /\ RecordsLeft' /\ Answering' /\ VaxInv'
    BY <2>1, <2>2, AntcnRests, VaxRests
  <2>4. /\ AntrcvTyped' /\ Settling'
        /\ program' # "antrcv_multi" => antrcvPc' = "down"
    BY <2>1 DEF AntennaInv, AntrcvTyped, AntrcvTypeOK, MemoryTypeOK, Settling,
                antrcvVars, memoryVars
  <2>5. AskvaxInv' /\ (program' # "askvax" => At("down")')
    BY <2>1, AskvaxInvStep DEF AntennaInv, askvaxVars, At
  <2> QED
    BY <2>2, <2>3, <2>4, <2>5 DEF AntennaInv
<1> QED
  BY <1>1, <1>2, <1>3, <1>4, <1>5 DEF AntennaNext

(* The inductive invariant of a station that runs antcn.c, antrcv_multi.c, *)
(* askvax.c, real_askvax.c or clientserv.c.                                *)
THEOREM AntennaInvariant == AntennaSpec => []AntennaInv
  BY AntennaInvInit, AntennaInvStep, PTL DEF AntennaSpec

(* The types of the receivers that antrcv_multi replaced, and that the     *)
(* state of real_askvax never exceeds 4: for every number of requests, and *)
(* whichever program runs.  askvax.c, real_askvax.c, clientserv.c.         *)
THEOREM EarlierTypesHold == AntennaSpec => []EarlierTypeOK
<1>1. AntennaInv => EarlierTypeOK
  BY DEF AntennaInv, AskvaxInv, VaxInv, ClientInv, EarlierTypeOK
<1> QED
  BY <1>1, AntennaInvariant, PTL

(* What each program promises alone it promises as the one a station runs. *)
THEOREM StationKeepsPromises ==
  AntennaSpec => /\ [](AntcnTyped /\ AnswerIsOwn)
                 /\ [](AntrcvTyped /\ QuietWhileSettling)
                 /\ [](AskvaxQuiet /\ JudgesRecent)
                 /\ StrictWaits
<1>1. AntennaInv => /\ AntcnTyped /\ AnswerIsOwn
                    /\ AntrcvTyped /\ QuietWhileSettling
                    /\ AskvaxQuiet /\ JudgesRecent
  BY ClientRecent
     DEF AntennaInv, Answering, Settling, QuietWhileSettling, AskvaxInv
<1>2. AntennaInv => [Report /\ onoff /\ departed => ionsor' = 0]_vaxVars
  BY VaxStrict DEF AntennaInv
<1> QED
  BY <1>1, <1>2, AntennaInvariant, PTL DEF StrictWaits
=============================================================================

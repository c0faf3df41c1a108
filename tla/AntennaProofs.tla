--------------------------- MODULE AntennaProofs ---------------------------
(***************************************************************************)
(* Theorems about the two programs that decide together whether the        *)
(* antenna is on source, each by itself.                                   *)
(*                                                                         *)
(* antcn, among any others that write its memory and take from its wire:   *)
(* for every set of modes asked for, every number of records and whatever  *)
(* an uninitialised ierr may hold.                                         *)
(***************************************************************************)
EXTENDS Antcn, AntrcvMulti, TLAPS

antcnAlone == <<memoryVars, antcnVars>>

USE DEF MinMode, MaxMode, Kinds, Sending, MidCommand, AntcnPcs

---------------------------------------------------------------------------
(* What one request does to the registers, cited once for every mode.      *)
LEMMA CallTyped ==
    ASSUME AntcnTyped,
           NEW m \in Int, NEW n \in 0..MaxRec, NEW err \in Int,
           NEW next \in AntcnPcs, Call(m, n, err, next)
    PROVE  AntcnTyped'
BY AntcnAssumption
   DEF Call, AntcnTyped, MemoryTypeOK, AntcnTypeOK, memoryVars

(* The acknowledgements given and the records still to be sent do not      *)
(* exceed the class, and one is left while its record is being served.     *)
RecordsLeft ==
    /\ left + nrecr <= MaxRec
    /\ antcnPc \in {"record_clear", "record_ack"} => left > 0

LEMMA AntcnTypedStep ==
    AntcnTyped /\ RecordsLeft /\ [AntcnNext]_antcnAlone => AntcnTyped'
<1> SUFFICES ASSUME AntcnTyped, RecordsLeft, [AntcnNext]_antcnAlone
             PROVE  AntcnTyped'
  OBVIOUS
<1>t. /\ MemoryTypeOK
      /\ AntcnTypeOK
  BY DEF AntcnTyped
<1>1. CASE AntcnStart
  BY <1>1, <1>t, AntcnAssumption
     DEF AntcnStart, AntcnTyped, MemoryTypeOK, AntcnTypeOK
<1>2. CASE AntcnCrash
  BY <1>2, <1>t, AntcnAssumption
     DEF AntcnCrash, AntcnTyped, MemoryTypeOK, AntcnTypeOK, memoryVars
<1>3. CASE AntcnCall
  <2>1. 0 \in 0..MaxRec /\ ierr \in Int /\ -1 \in Int
    BY <1>t, AntcnAssumption DEF AntcnTypeOK
  <2>2. ASSUME CallIllegal PROVE AntcnTyped'
    BY <2>1, <2>2, CallTyped, AntcnAssumption DEF CallIllegal
  <2>3. ASSUME CallReport PROVE AntcnTyped'
    BY <2>1, <2>3, CallTyped DEF CallReport
  <2>4. ASSUME CallAntenna PROVE AntcnTyped'
    BY <2>1, <2>4, CallTyped DEF CallAntenna
  <2>5. ASSUME CallUnhandled PROVE AntcnTyped'
    BY <2>1, <2>5, CallTyped, AntcnAssumption DEF CallUnhandled
  <2>6. ASSUME \/ CallInitialize \/ CallSource \/ CallOffsets
               \/ CallAntennaNoClass \/ CallPoll \/ CallReserved
               \/ CallExternalDetector \/ CallCal \/ CallPatch
        PROVE  AntcnTyped'
    BY <2>1, <2>6, CallTyped
       DEF CallInitialize, CallSource, CallOffsets, CallAntennaNoClass,
           CallPoll, CallReserved, CallExternalDetector, CallCal, CallPatch
  <2> QED
    BY <1>3, <2>2, <2>3, <2>4, <2>5, <2>6 DEF AntcnCall
<1>4. ASSUME NEW here \in AntcnPcs, NEW next \in AntcnPcs,
             NEW value \in {0, 1}, NEW kind \in Kinds,
             \/ SetIonsor0(here, next)
             \/ SetSentoff(here, next, value)
             \/ Sendto(here, next, kind)
      PROVE  AntcnTyped'
  BY <1>4, <1>t
     DEF SetIonsor0, SetSentoff, Sendto, AntcnTyped, MemoryTypeOK,
         AntcnTypeOK, antcnLocals, memoryVars
<1>5. CASE InitIonsor \/ SourceIonsor \/ OffsetIonsor \/ PollClear
  BY <1>5, <1>4 DEF InitIonsor, SourceIonsor, OffsetIonsor, PollClear
<1>6. CASE CommandFlag \/ RecordClear
  BY <1>6, <1>4 DEF CommandFlag, SourceFlag, OffsetFlag, RecordClear
<1>7. CASE \/ SourceSend \/ OffsetSendAzm \/ OffsetSendElv \/ CalSend
           \/ RecordSend
  BY <1>7, <1>4
     DEF SourceSend, OffsetSendAzm, OffsetSendElv, CalSend, RecordSend
<1>8. CASE RecordAck
  <2>1. /\ left' \in 0..MaxRec
        /\ nrecr' \in 0..MaxRec
    BY <1>8, <1>t, AntcnAssumption DEF RecordAck, RecordsLeft, AntcnTypeOK
  <2>2. /\ antcnPc' = "record"
        /\ UNCHANGED <<antenna_sentoff, ionsor, imode, ierr, wire>>
    BY <1>8 DEF RecordAck, memoryVars
  <2> QED
    BY <2>1, <2>2, <1>t DEF AntcnTyped, MemoryTypeOK, AntcnTypeOK
<1>9. CASE RecordsDone \/ PollTest \/ AntcnReply
  <2>1. /\ antcnPc' \in {"wait", "end", "poll_clear"}
        /\ UNCHANGED <<antenna_sentoff, ionsor, ierr, wire>>
    BY <1>9
       DEF RecordsDone, PollTest, AntcnReply, memoryVars, antcnLocals
  <2>2. \/ UNCHANGED <<imode, left, nrecr>>
        \/ imode' = 0 /\ left' = 0 /\ nrecr' = 0
    BY <1>9 DEF RecordsDone, PollTest, AntcnReply, antcnLocals
  <2> QED
    BY <2>1, <2>2, <1>t, AntcnAssumption
       DEF AntcnTyped, MemoryTypeOK, AntcnTypeOK
<1>10. CASE OthersReport \/ WireTaken \/ UNCHANGED antcnAlone
  BY <1>10, <1>t
     DEF OthersReport, WireTaken, AntcnTyped, MemoryTypeOK, AntcnTypeOK,
         memoryVars, antcnVars, antcnLocals, antcnAlone
<1> QED
  BY <1>1, <1>2, <1>3, <1>5, <1>6, <1>7, <1>8, <1>9, <1>10
     DEF AntcnNext, AntcnStep, AntcnQuiet

LEMMA CountedStep ==
    AntcnTyped /\ RecordsLeft /\ [AntcnNext]_antcnAlone => RecordsLeft'
<1> SUFFICES ASSUME AntcnTyped, RecordsLeft, [AntcnNext]_antcnAlone
             PROVE  RecordsLeft'
  OBVIOUS
<1>t. left \in 0..MaxRec /\ nrecr \in 0..MaxRec /\ MaxRec \in Nat
  BY AntcnAssumption DEF AntcnTyped, AntcnTypeOK
<1>1. ASSUME NEW m, NEW n \in 0..MaxRec, NEW err, NEW next,
             next \notin {"record_clear", "record_ack"},
             Call(m, n, err, next)
      PROVE  RecordsLeft'
  BY <1>1, <1>t DEF Call, RecordsLeft
<1>2. CASE AntcnCall
  BY <1>2, <1>1, <1>t
     DEF AntcnCall, CallIllegal, CallInitialize, CallSource, CallOffsets,
         CallReport, CallAntenna, CallAntennaNoClass, CallPoll, CallReserved,
         CallExternalDetector, CallCal, CallPatch, CallUnhandled
<1>3. CASE AntcnStart \/ AntcnCrash \/ AntcnReply
  BY <1>3, <1>t DEF AntcnStart, AntcnCrash, AntcnReply, RecordsLeft
<1>4. CASE \/ InitIonsor \/ SourceIonsor \/ OffsetIonsor \/ PollClear
           \/ CommandFlag \/ RecordClear
  BY <1>4, <1>t
     DEF InitIonsor, SourceIonsor, OffsetIonsor, PollClear, CommandFlag,
         SourceFlag, OffsetFlag, RecordClear, SetIonsor0, SetSentoff,
         antcnLocals, RecordsLeft
<1>5. CASE \/ SourceSend \/ OffsetSendAzm \/ OffsetSendElv \/ CalSend
           \/ RecordSend
  BY <1>5, <1>t
     DEF SourceSend, OffsetSendAzm, OffsetSendElv, CalSend, RecordSend,
         Sendto, antcnLocals, RecordsLeft
<1>6. CASE RecordAck \/ RecordsDone \/ PollTest
  BY <1>6, <1>t DEF RecordAck, RecordsDone, PollTest, antcnLocals, RecordsLeft
<1>7. CASE OthersReport \/ WireTaken \/ UNCHANGED antcnAlone
  BY <1>7
     DEF OthersReport, WireTaken, antcnAlone, antcnVars, antcnLocals, RecordsLeft
<1> QED
  BY <1>2, <1>3, <1>4, <1>5, <1>6, <1>7 DEF AntcnNext, AntcnStep, AntcnQuiet

LEMMA AntcnStarts ==
    AntcnInit => AntcnTyped /\ RecordsLeft
BY AntcnAssumption
   DEF MemoryInit, AntcnInit, AntcnTyped, MemoryTypeOK, AntcnTypeOK, RecordsLeft

(* Type correctness of antcn's state.                                      *)
THEOREM AntcnTypeCorrect == AntcnSpec => []AntcnTyped
<1>1. AntcnInit => AntcnTyped /\ RecordsLeft
  BY AntcnStarts
<1>2. AntcnTyped /\ RecordsLeft /\ [AntcnNext]_antcnAlone
        => (AntcnTyped /\ RecordsLeft)'
  BY AntcnTypedStep, CountedStep
<1> QED
  BY <1>1, <1>2, PTL DEF AntcnSpec, antcnAlone

---------------------------------------------------------------------------
(* The error number while a request is served.                             *)
Answering ==
    /\ antcnPc \in {"init_ionsor", "source_flag", "offset_flag", "poll",
                    "poll_clear", "cal_send"} \cup MidCommand
         => ierr = 0 /\ imode \notin Refused
    /\ antcnPc \in {"record", "record_clear", "record_ack"} => imode = 4
    /\ AnswerIsOwn

LEMMA AnsweringStep == Answering /\ [AntcnNext]_antcnAlone => Answering'
<1> SUFFICES ASSUME Answering, [AntcnNext]_antcnAlone
             PROVE  Answering'
  OBVIOUS
<1> USE DEF Answering, AnswerIsOwn, Served, Refused
<1>1. CASE CallIllegal
  BY <1>1, AntcnAssumption DEF CallIllegal, Call
<1>2. CASE CallUnhandled
  BY <1>2, AntcnAssumption DEF CallUnhandled, Unhandled, Call
<1>3. CASE \/ CallInitialize \/ CallSource \/ CallOffsets \/ CallReport
           \/ CallPoll \/ CallExternalDetector \/ CallCal \/ CallPatch
  BY <1>3
     DEF CallInitialize, CallSource, CallOffsets, CallReport, CallPoll,
         CallExternalDetector, CallCal, CallPatch, Call
<1>4. CASE CallAntenna \/ CallAntennaNoClass \/ CallReserved
  BY <1>4 DEF CallAntenna, CallAntennaNoClass, CallReserved, Call
<1>5. CASE AntcnStart \/ AntcnCrash \/ AntcnReply
  BY <1>5 DEF AntcnStart, AntcnCrash, AntcnReply
<1>6. CASE \/ InitIonsor \/ SourceIonsor \/ OffsetIonsor \/ PollClear
           \/ CommandFlag \/ RecordClear
  BY <1>6
     DEF InitIonsor, SourceIonsor, OffsetIonsor, PollClear, CommandFlag,
         SourceFlag, OffsetFlag, RecordClear, SetIonsor0, SetSentoff,
         antcnLocals
<1>7. CASE \/ SourceSend \/ OffsetSendAzm \/ OffsetSendElv \/ CalSend
           \/ RecordSend
  BY <1>7
     DEF SourceSend, OffsetSendAzm, OffsetSendElv, CalSend, RecordSend,
         Sendto, antcnLocals
<1>8. CASE RecordAck \/ RecordsDone \/ PollTest
  BY <1>8 DEF RecordAck, RecordsDone, PollTest, antcnLocals
<1>9. CASE OthersReport \/ WireTaken \/ UNCHANGED antcnAlone
  BY <1>9
     DEF OthersReport, WireTaken, antcnAlone, antcnVars, antcnLocals
<1> QED
  BY <1>1, <1>2, <1>3, <1>4, <1>5, <1>6, <1>7, <1>8, <1>9
     DEF AntcnNext, AntcnStep, AntcnQuiet, AntcnCall

(* A request that is served is answered 0 and one that is refused -1,      *)
(* whatever was asked, and answered, before it.                            *)
THEOREM AnswersAreOwn == AntcnSpec => []AnswerIsOwn
<1>1. AntcnInit => Answering
  BY DEF AntcnInit, Answering, AnswerIsOwn
<1>2. Answering => AnswerIsOwn
  BY DEF Answering
<1> QED
  BY <1>1, <1>2, AnsweringStep, PTL DEF AntcnSpec, antcnAlone
---------------------------------------------------------------------------
(* antrcv, among any others that write its memory as OthersCommand allows, *)
(* for every queue length.                                                 *)

USE DEF Settle, Expire, ElapsCap, Statuses, Broadcasts

LEMMA AntrcvTypedStep ==
    AntrcvTyped /\ [AntrcvNext]_aloneVars => AntrcvTyped'
<1> SUFFICES ASSUME AntrcvTyped, [AntrcvNext]_aloneVars
             PROVE  AntrcvTyped'
  OBVIOUS
<1> USE AntrcvAssumption
        DEF AntrcvTyped, MemoryTypeOK, AntrcvTypeOK, AntrcvPcs,
            memoryVars, antrcvLocals
<1>1. CASE AntrcvStart
  BY <1>1 DEF AntrcvStart
<1>2. CASE AntrcvCrash
  BY <1>2 DEF AntrcvCrash
<1>3. CASE AnyBroadcast
  BY <1>3 DEF AnyBroadcast, Queue
<1>4. CASE OthersCommand
  BY <1>4 DEF OthersCommand, antrcvVars
<1>5. CASE Recv
  <2>1. Len(net') <= QCap /\ net' \in Seq(Broadcasts)
    BY <1>5 DEF Recv
  <2>2. Head(net) \in Broadcasts
    BY <1>5 DEF Recv
  <2> QED
    BY <1>5, <2>1, <2>2 DEF Recv
<1>6. CASE RecvForeign
  BY <1>6 DEF RecvForeign
<1>7. CASE PairOther
  BY <1>7 DEF PairOther
<1>8. CASE PairIstmess
  BY <1>8 DEF PairIstmess
<1>9. CASE Notice
  BY <1>9 DEF Notice
<1>10. CASE ExpireRequest
  BY <1>10 DEF ExpireRequest
<1>11. CASE Decide
  BY <1>11 DEF Decide
<1>12. CASE ClearRequest
  BY <1>12 DEF ClearRequest
<1>13. CASE RememberNext
  BY <1>13 DEF RememberNext
<1>14. CASE RememberLast
  BY <1>14 DEF RememberLast, Tick
<1>15. CASE RunOut
  BY <1>15 DEF RunOut, Tick
<1>16. CASE UNCHANGED aloneVars
  BY <1>16 DEF aloneVars, antrcvVars
<1> QED
  BY <1>1, <1>2, <1>3, <1>4, <1>5, <1>6, <1>7, <1>8, <1>9, <1>10, <1>11,
     <1>12, <1>13, <1>14, <1>15, <1>16 DEF AntrcvNext, AntrcvStep

LEMMA AntrcvStarts == AntrcvInit => AntrcvTyped
BY AntrcvAssumption
   DEF MemoryInit, AntrcvInit, AntrcvTyped, MemoryTypeOK, AntrcvTypeOK,
       AntrcvPcs

(* Type correctness of antrcv's state, for every queue length.             *)
THEOREM AntrcvTypeCorrect == AntrcvSpec => []AntrcvTyped
BY AntrcvStarts, AntrcvTypedStep, PTL DEF AntrcvSpec

---------------------------------------------------------------------------
(* The settle window, strengthened to hold at every statement: between     *)
(* broadcasts and between pairs ionsor is already 0, and the on-source     *)
(* block can only leave it 1 with elaps beyond the window.                 *)
Settling ==
    /\ antrcvPc = "recv"
         => (last_sentoff = 1 /\ elaps <= Settle + 1 => ionsor = 0)
    /\ antrcvPc \in {"pair", "notice"}
         => (last_sentoff = 1 /\ elaps <= Settle => ionsor = 0)
    /\ antrcvPc = "clear" => elaps > Settle
    /\ antrcvPc = "remember" => (elaps <= Settle => ionsor = 0)

LEMMA SettlingStep ==
    AntrcvTyped /\ Settling /\ [AntrcvNext]_aloneVars => Settling'
<1> SUFFICES ASSUME AntrcvTyped, Settling, [AntrcvNext]_aloneVars
             PROVE  Settling'
  OBVIOUS
<1> USE DEF AntrcvTyped, MemoryTypeOK, AntrcvTypeOK, AntrcvPcs, Settling,
            memoryVars, antrcvLocals
<1>1. CASE AntrcvStart
  BY <1>1 DEF AntrcvStart
<1>2. CASE AntrcvCrash
  BY <1>2 DEF AntrcvCrash
<1>3. CASE AnyBroadcast
  BY <1>3 DEF AnyBroadcast, Queue
<1>4. CASE OthersCommand
  BY <1>4 DEF OthersCommand, antrcvVars
<1>5. CASE Recv
  BY <1>5 DEF Recv
<1>6. CASE RecvForeign
  BY <1>6 DEF RecvForeign
<1>7. CASE PairOther
  BY <1>7 DEF PairOther
<1>8. CASE PairIstmess
  BY <1>8 DEF PairIstmess
<1>9. CASE Notice
  BY <1>9 DEF Notice
<1>10. CASE ExpireRequest
  BY <1>10 DEF ExpireRequest
<1>11. CASE Decide
  BY <1>11 DEF Decide
<1>12. CASE ClearRequest
  BY <1>12 DEF ClearRequest
<1>13. CASE RememberNext
  BY <1>13 DEF RememberNext
<1>14. CASE RememberLast
  BY <1>14 DEF RememberLast, Tick
<1>15. CASE RunOut
  BY <1>15 DEF RunOut, Tick
<1>16. CASE UNCHANGED aloneVars
  BY <1>16 DEF aloneVars, antrcvVars
<1> QED
  BY <1>1, <1>2, <1>3, <1>4, <1>5, <1>6, <1>7, <1>8, <1>9, <1>10, <1>11,
     <1>12, <1>13, <1>14, <1>15, <1>16 DEF AntrcvNext, AntrcvStep

(* While a request is being counted, only a broadcast processed with elaps *)
(* beyond the settle window leaves ionsor at 1, for every queue length and *)
(* whatever the others write.                                              *)
THEOREM AntrcvIsQuiet == AntrcvSpec => []QuietWhileSettling
<1>1. AntrcvInit => Settling
  BY DEF MemoryInit, AntrcvInit, Settling
<1>2. Settling => QuietWhileSettling
  BY DEF Settling, QuietWhileSettling
<1> QED
  BY <1>1, <1>2, SettlingStep, AntrcvTypeCorrect, PTL DEF AntrcvSpec
===========================================================================

------------------------------ MODULE Antcn ------------------------------
(***************************************************************************)
(* antcn/antcn.c: the antenna control program.  It sleeps in skd_wait,     *)
(* is woken with a mode, performs it and answers through ip[].             *)
(*                                                                         *)
(* Every access to shared memory and every sendto is a step of its own,    *)
(* in program order, because antrcv runs concurrently; antcnPc names the   *)
(* next such statement.  Register-only code is folded into the step before *)
(* it.  Datagrams are abstracted to their kind.  wire is the set of kinds  *)
(* in flight to the telescope's server: UDP neither orders nor counts.     *)
(*   SV               source, from mode 1                                  *)
(*   OFFAZM, OFFELV   the two offset commands of mode 2                    *)
(*   CAL              the repeat of SV with other cal bits, from mode 100  *)
(*   RAW              an antenna= record, mode 4                           *)
(***************************************************************************)
EXTENDS StationMemory, Integers

CONSTANTS Modes,    \* the modes callers ask for
          MaxRec,   \* bound: records in the class of one antenna= request
          Junk      \* what an uninitialised ierr may hold

ASSUME AntcnAssumption ==
    /\ Modes \subseteq Int
    /\ MaxRec \in Nat
    /\ Junk \subseteq Int

VARIABLES antcnPc,  \* next statement
          imode,    \* mode being served
          left,     \* records of the class still to be sent (nrec - i)
          nrecr,    \* acknowledgements put in the reply class
          ierr,     \* the local of that name: never initialised by main
          wire

antcnLocals == <<imode, left, nrecr, ierr>>
antcnVars == <<antcnPc, imode, left, nrecr, ierr, wire>>

MinMode == 0
MaxMode == 110
Kinds == {"SV", "OFFAZM", "OFFELV", "CAL", "RAW"}

\* The kinds that make the antenna move.
Moves == {"SV", "OFFAZM", "OFFELV"}

\* A source or offset request is flagged and its datagrams are not all out.
Sending == {"source_send", "offset_ionsor", "offset_azm", "offset_elv"}

\* The statements of a source or offset request that follow the flag.
MidCommand == Sending \cup {"source_ionsor"}

AntcnPcs == MidCommand \cup
    {"down", "wait", "end", "init_ionsor", "source_flag", "offset_flag",
     "record", "record_clear", "record_ack", "poll", "poll_clear", "cal_send"}

AntcnTypeOK ==
    /\ antcnPc \in AntcnPcs
    /\ imode \in Int
    /\ left \in 0..MaxRec
    /\ nrecr \in 0..MaxRec
    /\ ierr \in Int
    /\ wire \subseteq Kinds

AntcnInit ==
    /\ MemoryInit
    /\ antcnPc = "down"
    /\ imode = 0
    /\ left = 0
    /\ nrecr = 0
    /\ ierr \in Junk
    /\ wire = {}

---------------------------------------------------------------------------
(* Start, restart and death of the process.                               *)

AntcnStart ==
    /\ antcnPc = "down"
    /\ antcnPc' = "wait"
    /\ antenna_sentoff' = 0
    /\ ierr' \in Junk
    /\ UNCHANGED <<ionsor, imode, left, nrecr, wire>>

AntcnCrash ==
    /\ antcnPc # "down"
    /\ antcnPc' = "down"
    /\ imode' = 0
    /\ left' = 0
    /\ nrecr' = 0
    /\ UNCHANGED <<memoryVars, ierr, wire>>

---------------------------------------------------------------------------
(* skd_wait returns: the switch on imode.  err is the value ierr has after *)
(* the register code of the mode's section, next its first shared access. *)

Call(m, n, err, next) ==
    /\ antcnPc = "wait"
    /\ m \in Modes
    /\ imode' = m
    /\ left' = n
    /\ nrecr' = 0
    /\ ierr' = err
    /\ antcnPc' = next
    /\ UNCHANGED <<memoryVars, wire>>

CallIllegal == \E m \in Modes :
    (m < MinMode \/ m > MaxMode) /\ Call(m, 0, -1, "end")
CallInitialize == Call(0, 0, 0, "init_ionsor")
CallSource == Call(1, 0, 0, "source_flag")
CallOffsets == Call(2, 0, 0, "offset_flag")
\* Modes 3 and 7 read ionsor and log it; 3 also compares frequencies.
CallReport == \E m \in {3, 7} : Call(m, 0, 0, "end")
\* antenna= leaves ierr alone; without a class it leaves everything alone.
CallAntenna == \E n \in 0..MaxRec : Call(4, n, ierr, "record")
CallAntennaNoClass == Call(4, 0, ierr, "end")
\* Slip: the section of mode 5 does not set ierr.
CallPollStale == Call(5, 0, ierr, "poll")
CallPoll == Call(5, 0, 0, "poll")
CallReserved == Call(6, 0, -1, "end")
CallExternalDetector == Call(8, 0, 0, "end")
CallCal == Call(100, 0, 0, "cal_send")
CallPatch == Call(110, 0, 0, "end")

\* The switch has no default: any other mode in range changes nothing.
Unhandled == (MinMode..MaxMode) \ ((0..8) \cup {100, 110})
CallUnhandled == \E m \in Modes \cap Unhandled : Call(m, 0, ierr, "end")

AntcnCall ==
    \/ CallIllegal \/ CallInitialize \/ CallSource \/ CallOffsets
    \/ CallReport \/ CallAntenna \/ CallAntennaNoClass \/ CallPoll
    \/ CallReserved \/ CallExternalDetector \/ CallCal \/ CallPatch
    \/ CallUnhandled

---------------------------------------------------------------------------
(* The statements, one shared access or sendto each.                      *)

SetIonsor0(here, next) ==
    /\ antcnPc = here
    /\ antcnPc' = next
    /\ ionsor' = 0
    /\ UNCHANGED <<antenna_sentoff, antcnLocals, wire>>

SetSentoff(here, next, value) ==
    /\ antcnPc = here
    /\ antcnPc' = next
    /\ antenna_sentoff' = value
    /\ UNCHANGED <<ionsor, antcnLocals, wire>>

Sendto(here, next, kind) ==
    /\ antcnPc = here
    /\ antcnPc' = next
    /\ wire' = wire \cup {kind}
    /\ UNCHANGED <<memoryVars, antcnLocals>>

InitIonsor == SetIonsor0("init_ionsor", "end")

SourceFlag == SetSentoff("source_flag", "source_send", 1)
SourceSend == Sendto("source_send", "source_ionsor", "SV")
\* Mutant: ionsor is not lowered.
SourceIonsorForgotten ==
    /\ antcnPc = "source_ionsor"
    /\ antcnPc' = "end"
    /\ UNCHANGED <<memoryVars, antcnLocals, wire>>
SourceIonsor == SetIonsor0("source_ionsor", "end")

OffsetFlag == SetSentoff("offset_flag", "offset_ionsor", 1)
\* Mutant: the wrong constant.
OffsetIonsorInverted ==
    /\ antcnPc = "offset_ionsor"
    /\ antcnPc' = "offset_azm"
    /\ ionsor' = 1
    /\ UNCHANGED <<antenna_sentoff, antcnLocals, wire>>
OffsetIonsor == SetIonsor0("offset_ionsor", "offset_azm")
OffsetSendAzm == Sendto("offset_azm", "offset_elv", "OFFAZM")
OffsetSendElv == Sendto("offset_elv", "end", "OFFELV")

CalSend == Sendto("cal_send", "end", "CAL")

\* The loop over the records of an antenna= request.
RecordSend == left > 0 /\ Sendto("record", "record_clear", "RAW")
RecordClear == SetSentoff("record_clear", "record_ack", 0)
\* Slip: a record is acknowledged twice.
RecordAckTwice ==
    /\ antcnPc = "record_ack"
    /\ antcnPc' = "record"
    /\ nrecr' = nrecr + 2
    /\ left' = left - 1
    /\ UNCHANGED <<memoryVars, imode, ierr, wire>>
RecordAck ==
    /\ antcnPc = "record_ack"
    /\ antcnPc' = "record"
    /\ nrecr' = nrecr + 1
    /\ left' = left - 1
    /\ UNCHANGED <<memoryVars, imode, ierr, wire>>
RecordsDone ==
    /\ antcnPc = "record"
    /\ left = 0
    /\ antcnPc' = "end"
    /\ UNCHANGED <<memoryVars, antcnLocals, wire>>

\* Mode 5 tests the flag, then writes ionsor: two accesses, not one.
PollTest ==
    /\ antcnPc = "poll"
    /\ antcnPc' = IF antenna_sentoff = 1 THEN "poll_clear" ELSE "end"
    /\ UNCHANGED <<memoryVars, antcnLocals, wire>>
PollClear == SetIonsor0("poll_clear", "end")

\* End: ip[] is filled from nrecr and ierr and the caller is released.  The
\* next request overwrites imode, left and nrecr before it reads them, so
\* they are forgotten here; ierr is not overwritten by every request.
AntcnReply ==
    /\ antcnPc = "end"
    /\ antcnPc' = "wait"
    /\ imode' = 0
    /\ left' = 0
    /\ nrecr' = 0
    /\ UNCHANGED <<memoryVars, ierr, wire>>

CommandFlag == SourceFlag \/ OffsetFlag

\* The statements that neither raise nor clear antenna_sentoff.
AntcnQuiet ==
    \/ AntcnCall \/ AntcnReply
    \/ InitIonsor \/ SourceSend \/ SourceIonsor
    \/ OffsetIonsor \/ OffsetSendAzm \/ OffsetSendElv \/ CalSend
    \/ RecordSend \/ RecordAck \/ RecordsDone
    \/ PollTest \/ PollClear

AntcnStep == AntcnQuiet \/ CommandFlag \/ RecordClear

---------------------------------------------------------------------------
(* antcn by itself, among the others that share its memory and its wire.  *)

\* External: antrcv reports, and clears the flag; it never raises it.
OthersReport ==
    /\ ionsor' \in {0, 1}
    /\ antenna_sentoff' \in {antenna_sentoff, 0}
    /\ UNCHANGED antcnVars

\* External: the telescope's server takes what was sent, or it is lost.
WireTaken ==
    /\ wire' \in SUBSET wire
    /\ UNCHANGED <<memoryVars, antcnPc, antcnLocals>>

AntcnNext ==
    \/ OthersReport \/ WireTaken
    \/ AntcnStart \/ AntcnCrash \/ AntcnStep

AntcnSpec ==
    /\ AntcnInit
    /\ [][AntcnNext]_<<memoryVars, antcnVars>>

AntcnTyped == MemoryTypeOK /\ AntcnTypeOK

(* The answer to a request, whatever was asked before it: the modes that   *)
(* are served answer 0, an illegal or reserved mode -1.  Mode 4 and the    *)
(* modes of no case never set it and are left out: theirs is the answer to *)
(* an earlier request.  antcn.c:180-358, 389-392.                          *)
Served == {0, 1, 2, 3, 5, 7, 8, 100, 110}
Refused == {m \in Modes : m < MinMode \/ m > MaxMode} \cup {6}

AnswerIsOwn ==
    antcnPc = "end" =>
        /\ imode \in Served => ierr = 0
        /\ imode \in Refused => ierr = -1

===========================================================================

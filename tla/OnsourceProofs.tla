-------------------------- MODULE OnsourceProofs --------------------------
(* Theorems about antcn, antrcv and the telescope together, for every      *)
(* queue length and reaction time that the settle window covers.           *)
EXTENDS Onsource, AntennaProofs

---------------------------------------------------------------------------
(* Each program sees the other as one of the OthersXxx of its own module.  *)

LEMMA AntcnView ==
    MemoryTypeOK /\ [Next]_vars => [AntcnNext]_antcnAlone
<1> SUFFICES ASSUME MemoryTypeOK, [Next]_vars
             PROVE  [AntcnNext]_antcnAlone
  OBVIOUS
<1> USE DEF MemoryTypeOK
<1>1. CASE Broadcast
  BY <1>1 DEF Broadcast, Queue, antcnAlone
<1>2. CASE BroadcastLost \/ Arrive \/ Disturb \/ UNCHANGED vars
  BY <1>2 DEF BroadcastLost, Arrive, Disturb, vars, antcnAlone
<1>3. CASE TakeCommands
  BY <1>3 DEF TakeCommands, AntcnNext, WireTaken
<1>l. CASE CommandLost
  BY <1>l DEF CommandLost, AntcnNext, WireTaken
<1>4. CASE IssueCommand \/ AntcnProceeds \/ AntcnWithdraws \/ AntcnDies
  BY <1>4 DEF IssueCommand, AntcnProceeds, AntcnWithdraws, AntcnDies,
              AntcnNext, AntcnStep
<1>5. CASE AntrcvProceeds
  <2>1. antenna_sentoff' \in {antenna_sentoff, 0} /\ ionsor' \in {0, 1}
    BY <1>5
       DEF AntrcvProceeds, AntrcvStep, AntrcvStart, Recv, RecvForeign,
           PairOther, PairIstmess, Notice, ExpireRequest, Decide,
           ClearRequest, RememberNext, RememberLast, RunOut, memoryVars
  <2> QED
    BY <1>5, <2>1 DEF AntrcvProceeds, AntcnNext, OthersReport
<1>6. CASE AntrcvDies
  BY <1>6 DEF AntrcvDies, AntrcvCrash, antcnAlone
<1> QED
  BY <1>1, <1>2, <1>3, <1>l, <1>4, <1>5, <1>6 DEF Next

LEMMA AntrcvView ==
    MemoryTypeOK /\ [Next]_vars => [AntrcvNext]_aloneVars
<1> SUFFICES ASSUME MemoryTypeOK, [Next]_vars
             PROVE  [AntrcvNext]_aloneVars
  OBVIOUS
<1> USE DEF MemoryTypeOK
<1>1. CASE Broadcast
  <2>1. Status \in Broadcasts
    BY DEF Status, Statuses, Broadcasts
  <2> QED
    BY <1>1, <2>1 DEF Broadcast, AntrcvNext, AnyBroadcast
<1>2. CASE BroadcastLost \/ Arrive \/ Disturb \/ UNCHANGED vars
  BY <1>2 DEF BroadcastLost, Arrive, Disturb, vars, aloneVars
<1>3. CASE TakeCommands \/ CommandLost
  BY <1>3 DEF TakeCommands, CommandLost, aloneVars
<1>4. ASSUME NEW here, NEW next, NEW kind, NEW value \in {0, 1},
             \/ SetIonsor0(here, next)
             \/ SetSentoff(here, next, value)
             \/ Sendto(here, next, kind)
      PROVE  antenna_sentoff' \in {0, 1} /\ ionsor' \in {ionsor, 0}
  BY <1>4 DEF SetIonsor0, SetSentoff, Sendto, memoryVars
<1>5. CASE IssueCommand
  BY <1>5, <1>4
     DEF IssueCommand, CommandFlag, SourceFlag, OffsetFlag, AntrcvNext,
         OthersCommand
<1>6. CASE AntcnProceeds
  <2>1. CASE AntcnCall
    BY <2>1, <1>6
       DEF AntcnCall, CallIllegal, CallInitialize, CallSource, CallOffsets,
           CallReport, CallAntenna, CallAntennaNoClass, CallPoll,
           CallReserved, CallExternalDetector, CallCal, CallPatch,
           CallUnhandled, Call, AntcnProceeds, aloneVars
  <2>2. CASE AntcnReply \/ RecordAck \/ RecordsDone \/ PollTest
    BY <2>2, <1>6
       DEF AntcnReply, RecordAck, RecordsDone, PollTest, AntcnProceeds,
           aloneVars
  <2>3. CASE \/ InitIonsor \/ SourceIonsor \/ OffsetIonsor \/ PollClear
             \/ SourceSend \/ OffsetSendAzm \/ OffsetSendElv \/ CalSend
             \/ RecordSend
    <3>1. antenna_sentoff' \in {0, 1} /\ ionsor' \in {ionsor, 0}
      BY <2>3, <1>4
         DEF InitIonsor, SourceIonsor, OffsetIonsor, PollClear, SourceSend,
             OffsetSendAzm, OffsetSendElv, CalSend, RecordSend
    <3> QED
      BY <3>1, <1>6 DEF AntcnProceeds, AntrcvNext, OthersCommand
  <2> QED
    BY <1>6, <2>1, <2>2, <2>3 DEF AntcnProceeds, AntcnQuiet
<1>7. CASE AntcnWithdraws
  BY <1>7, <1>4
     DEF AntcnWithdraws, RecordClear, AntcnStart, AntrcvNext, OthersCommand
<1>8. CASE AntcnDies
  BY <1>8 DEF AntcnDies, AntcnCrash, aloneVars
<1>9. CASE AntrcvProceeds \/ AntrcvDies
  BY <1>9 DEF AntrcvProceeds, AntrcvDies, AntrcvNext
<1> QED
  BY <1>1, <1>2, <1>3, <1>5, <1>6, <1>7, <1>8, <1>9 DEF Next

LEMMA MemoryTyped == Spec => []MemoryTypeOK
<1>1. Init => MemoryTypeOK /\ AntrcvTyped
  BY AntrcvStarts DEF Init, AntrcvTyped
<1>2. MemoryTypeOK /\ AntrcvTyped /\ [Next]_vars
        => (MemoryTypeOK /\ AntrcvTyped)'
  BY AntrcvView, AntrcvTypedStep DEF AntrcvTyped
<1> QED
  BY <1>1, <1>2, PTL DEF Spec

(* The system implements antcn among others, so the theorems about         *)
(* AntcnSpec hold in it.                                                   *)
THEOREM ImplementsAntcn == Spec => AntcnAmongOthers
<1>1. Init => AntcnInit
  BY DEF Init
<1> QED
  BY <1>1, AntcnView, MemoryTyped, PTL
     DEF Spec, AntcnAmongOthers, AntcnSpec, antcnAlone

(* The system implements antrcv among others, so the theorems about        *)
(* AntrcvSpec hold in it.                                                  *)
THEOREM ImplementsAntrcv == Spec => AntrcvAmongOthers
<1>1. Init => AntrcvInit
  BY DEF Init
<1> QED
  BY <1>1, AntrcvView, MemoryTyped, PTL
     DEF Spec, AntrcvAmongOthers, AntrcvSpec

---------------------------------------------------------------------------
(* Type correctness of the whole.                                          *)

TelescopeTypeOK ==
    /\ moving \in BOOLEAN
    /\ arrived \in BOOLEAN
    /\ lag \in 0..React
    /\ lost \in BOOLEAN
    /\ covered \in BOOLEAN
    /\ crashes \in 0..MaxCrashes

LEMMA TelescopeTypedStep ==
    TelescopeTypeOK /\ [Next]_vars => TelescopeTypeOK'
<1> SUFFICES ASSUME TelescopeTypeOK, [Next]_vars
             PROVE  TelescopeTypeOK'
  OBVIOUS
<1> USE OnsourceAssumption DEF TelescopeTypeOK, telescopeVars
<1>1. CASE Broadcast \/ BroadcastLost
  BY <1>1 DEF Broadcast, BroadcastLost, MayBroadcast, CountLag
<1>2. CASE TakeCommands
  BY <1>2 DEF TakeCommands
<1>l. CASE CommandLost
  BY <1>l DEF CommandLost
<1>3. CASE Arrive \/ Disturb \/ UNCHANGED vars
  BY <1>3 DEF Arrive, Disturb, vars
<1>4. CASE IssueCommand
  <2>1. covered' \in BOOLEAN
    BY <1>4 DEF IssueCommand, WillNotice
  <2>2. arrived' \in BOOLEAN /\ moving' \in BOOLEAN /\ lost' \in BOOLEAN
    BY <1>4 DEF IssueCommand
  <2>3. lag' \in 0..React /\ crashes' \in 0..MaxCrashes
    BY <1>4 DEF IssueCommand
  <2> QED
    BY <2>1, <2>2, <2>3
<1>5. CASE AntcnProceeds \/ AntrcvProceeds \/ AntrcvDies
  BY <1>5 DEF AntcnProceeds, AntrcvProceeds, AntrcvDies
<1>6. CASE AntcnWithdraws
  BY <1>6 DEF AntcnWithdraws
<1>7. CASE AntcnDies
  BY <1>7 DEF AntcnDies
<1> QED
  BY <1>1, <1>2, <1>l, <1>3, <1>4, <1>5, <1>6, <1>7 DEF Next

(* Type correctness: the state of both programs, from their own theorems,  *)
(* and that of the telescope.                                              *)
THEOREM TypeCorrect == Spec => []TypeOK
<1>1. Init => TelescopeTypeOK
  <2>1. Init => lag \in 0..React /\ crashes \in 0..MaxCrashes
    BY OnsourceAssumption DEF Init
  <2>2. Init => /\ moving \in BOOLEAN
                /\ arrived \in BOOLEAN
                /\ lost \in BOOLEAN
                /\ covered \in BOOLEAN
    BY DEF Init
  <2> QED
    BY <2>1, <2>2 DEF TelescopeTypeOK
<1>2. Spec => []TelescopeTypeOK
  BY <1>1, TelescopeTypedStep, PTL DEF Spec
<1>3. Spec => []AntcnTyped
  BY ImplementsAntcn, AntcnTypeCorrect, PTL DEF AntcnAmongOthers
<1>4. Spec => []AntrcvTyped
  BY ImplementsAntrcv, AntrcvTypeCorrect, PTL DEF AntrcvAmongOthers
<1>5. TelescopeTypeOK /\ AntcnTyped /\ AntrcvTyped => TypeOK
  BY DEF TelescopeTypeOK, AntcnTyped, AntrcvTyped, TypeOK
<1> QED
  BY <1>2, <1>3, <1>4, <1>5, PTL

---------------------------------------------------------------------------
(* The guard on false reports is inductive: first the steps of the         *)
(* telescope and the network.                                              *)

LEMMA Numbers ==
    ASSUME TypeOK
    PROVE  /\ elaps \in Nat /\ elaps <= 11
           /\ lag \in Nat /\ lag <= React
           /\ React \in Nat /\ QCap \in Nat
           /\ QCap + React <= 3
           /\ net \in Seq(Broadcasts)
           /\ Len(net) \in Nat /\ Len(net) <= QCap
           /\ ionsor \in {0, 1}
           /\ antenna_sentoff \in {0, 1}
           /\ last_sentoff \in {0, 1}
<1>1. net \in Seq(Broadcasts) /\ Len(net) <= QCap /\ elaps \in 0..11
  BY DEF TypeOK, AntrcvTypeOK, ElapsCap, Expire
<1>2. lag \in 0..React
  BY DEF TypeOK
<1>3. React \in Nat /\ QCap \in Nat /\ QCap + React <= 3
  BY OnsourceAssumption, AntrcvAssumption DEF Settle
<1>4. ionsor \in {0, 1} /\ antenna_sentoff \in {0, 1} /\ last_sentoff \in {0, 1}
  BY DEF TypeOK, MemoryTypeOK, AntrcvTypeOK
<1> QED
  BY <1>1, <1>2, <1>3, <1>4

(* A bound in lag is kept when lag grows.                                  *)
LEMMA Widen ==
    ASSUME NEW e \in Nat, NEW q \in Nat, NEW a \in Nat, NEW b \in Nat, a <= b
    PROVE  /\ e <= q + a => e <= q + b
           /\ e <= q + a + 1 => e <= q + b + 1
OBVIOUS

LEMMA GuardedTelescope ==
    ASSUME TypeOK, Guarded,
           \/ Broadcast \/ BroadcastLost \/ TakeCommands \/ CommandLost
           \/ Arrive \/ Disturb
    PROVE  Guarded'
<1>n. elaps \in Nat /\ lag \in Nat /\ QCap \in Nat
  BY Numbers
<1>s. net \in Seq(Broadcasts) /\ Len(net) \in Nat
  BY Numbers
<1> USE <1>n DEF Owed
<1>1. CASE Broadcast
  <2>1. /\ antrcvPc # "down"
        /\ net' = Append(net, Status)
        /\ UNCHANGED <<antenna_sentoff, ionsor, antrcvPc, msg, gstatus,
                       elaps, last_sentoff>>
    BY <1>1 DEF Broadcast, Queue, memoryVars, antrcvLocals
  <2>2. UNCHANGED <<antcnPc, wire, moving, arrived, covered>>
    BY <1>1 DEF Broadcast, antcnVars
  <2>3. lag' = IF Pending THEN lag + 1 ELSE lag
    BY <1>1 DEF Broadcast, CountLag
  <2>4. (Pending' <=> Pending) /\ (Unnoticed' <=> Unnoticed) /\ InHand' = InHand
    BY <2>1, <2>2 DEF Pending, Unnoticed, WillNotice, InHand
  <2>5. Status \in Statuses /\ (Status = "measure" => ~moving)
    BY DEF Status, Statuses
  <2>6. /\ Len(net') = Len(net) + 1
        /\ \A p \in 1..Len(net) : net'[p] = net[p]
        /\ net'[Len(net) + 1] = Status
    BY <1>s, <2>1, <2>5
  <2>7. \A p \in 1..Len(net') : net'[p] \in Statuses
    BY <1>s, <2>5, <2>6 DEF Guarded
  <2>8. ASSUME Owed, OldNewsIsEarly PROVE OldNewsIsEarly'
    <3>0. InHand \in {0, 1}
      BY DEF InHand
    <3>1. Pending' => elaps' + InHand' + Len(net') <= QCap + 1 + lag'
      BY <1>s, <2>1, <2>3, <2>4, <2>6, <2>8, <3>0 DEF OldNewsIsEarly
    <3>2. ASSUME NEW p \in 1..Len(net'), net'[p] = "measure"
          PROVE  elaps' + InHand' + p <= QCap + lag' + 1
      <4>1. CASE p \in 1..Len(net)
        BY <4>1, <2>1, <2>3, <2>4, <2>6, <2>8, <3>0, <3>2
           DEF OldNewsIsEarly
      <4>2. CASE p = Len(net) + 1
        <5>1. Pending
          BY <4>2, <3>2, <2>5, <2>6, <2>8 DEF Guarded
        <5> QED
          BY <5>1, <4>2, <1>s, <2>1, <2>3, <2>4, <2>8, <3>0 DEF OldNewsIsEarly
      <4> QED
        BY <4>1, <4>2, <2>6, <1>s
    <3>3. lag <= lag' /\ lag' \in Nat
      BY <2>3
    <3>4. /\ msg = "measure" => elaps <= QCap + lag'
          /\ gstatus = "measure" => elaps <= QCap + lag' + 1
          /\ gstatus = "measure" /\ InHand = 1 /\ msg = "none"
               => elaps <= QCap + lag'
      <4>1. /\ msg = "measure" => elaps <= QCap + lag
            /\ gstatus = "measure" => elaps <= QCap + lag + 1
            /\ gstatus = "measure" /\ InHand = 1 /\ msg = "none"
                 => elaps <= QCap + lag
        BY <2>8 DEF OldNewsIsEarly
      <4>2. /\ elaps <= QCap + lag => elaps <= QCap + lag'
            /\ elaps <= QCap + lag + 1 => elaps <= QCap + lag' + 1
        BY <3>3, Widen
      <4> QED
        BY <4>1, <4>2
    <3>5. /\ msg' = "measure" => elaps' <= QCap + lag'
          /\ gstatus' = "measure" => elaps' <= QCap + lag' + 1
          /\ gstatus' = "measure" /\ InHand' = 1 /\ msg' = "none"
               => elaps' <= QCap + lag'
      BY <2>1, <2>4, <3>4
    <3> QED
      BY <3>1, <3>2, <3>5 DEF OldNewsIsEarly
  <2> QED
    BY <2>1, <2>2, <2>4, <2>7, <2>8 DEF Guarded
<1>2. CASE BroadcastLost
  <2>1. /\ UNCHANGED <<antenna_sentoff, ionsor, antrcvPc, msg, gstatus,
                       elaps, last_sentoff, net>>
        /\ UNCHANGED <<antcnPc, wire, moving, arrived, covered>>
    BY <1>2 DEF BroadcastLost, memoryVars, antcnVars, antrcvVars
  <2>2. lag' = lag + 1
    BY <1>2 DEF BroadcastLost, CountLag
  <2>3. (Pending' <=> Pending) /\ (Unnoticed' <=> Unnoticed) /\ InHand' = InHand
    BY <2>1 DEF Pending, Unnoticed, WillNotice, InHand
  <2>4. InHand \in {0, 1}
    BY DEF InHand
  <2>5. OldNewsIsEarly => OldNewsIsEarly'
    BY <2>1, <2>2, <2>3, <2>4 DEF OldNewsIsEarly
  <2> QED
    BY <2>1, <2>3, <2>5 DEF Guarded
<1>3. CASE TakeCommands
  <2>1. /\ UNCHANGED <<antenna_sentoff, ionsor, antrcvPc, msg, gstatus,
                       elaps, last_sentoff, net, antcnPc, lag, covered>>
        /\ wire' = {}
    BY <1>3 DEF TakeCommands, memoryVars, antcnLocals, antrcvVars
  <2>2. Pending' => Pending
    BY <2>1 DEF Pending
  <2>3. (Unnoticed' <=> Unnoticed) /\ InHand' = InHand
    BY <2>1 DEF Unnoticed, WillNotice, InHand
  <2>4. OldNewsIsEarly => OldNewsIsEarly'
    BY <2>1, <2>2, <2>3 DEF OldNewsIsEarly
  <2>5. CASE wire \cap Moves = {}
    <3>1. UNCHANGED <<moving, arrived>>
      BY <1>3, <2>5 DEF TakeCommands
    <3>2. Pending' <=> Pending
      BY <2>1, <2>5 DEF Pending
    <3> QED
      BY <2>1, <2>3, <2>4, <3>1, <3>2 DEF Guarded
  <2>6. CASE wire \cap Moves # {}
    <3>1. Pending /\ ~arrived
      BY <2>6 DEF Pending, Guarded
    <3>2. /\ moving' \in BOOLEAN
          /\ arrived' = (~moving' /\ antcnPc \notin Sending)
      BY <1>3, <2>6 DEF TakeCommands
    <3>3. Pending' <=> antcnPc \in Sending
      BY <2>1 DEF Pending
    <3>4. Owed' => Owed /\ (Pending' \/ moving')
      BY <2>1, <3>1, <3>2, <3>3 DEF Guarded
    <3>5. Pending' => ~arrived'
      BY <3>2, <3>3
    <3> QED
      BY <2>1, <2>3, <2>4, <3>4, <3>5 DEF Guarded
  <2> QED
    BY <1>s, <2>5, <2>6 DEF Guarded
<1>l. CASE CommandLost
  <2>1. /\ UNCHANGED <<antenna_sentoff, ionsor, antrcvPc, msg, gstatus,
                       elaps, last_sentoff, net>>
        /\ UNCHANGED <<antcnPc, moving, arrived, lag>>
    BY <1>l DEF CommandLost, memoryVars, antrcvVars
  <2>2. PICK d \in wire : /\ wire' = wire \ {d}
                         /\ covered' = (covered /\ d \notin Moves)
    BY <1>l DEF CommandLost
  <2>3. Pending' => Pending
    BY <2>1, <2>2 DEF Pending
  <2>4. covered' => (Pending' <=> Pending)
    BY <2>1, <2>2 DEF Pending
  <2>5. (Unnoticed' <=> Unnoticed) /\ InHand' = InHand
    BY <2>1 DEF Unnoticed, WillNotice, InHand
  <2>6. OldNewsIsEarly => OldNewsIsEarly'
    BY <2>1, <2>3, <2>5 DEF OldNewsIsEarly
  <2>7. Owed' => Owed /\ (Pending' <=> Pending)
    BY <2>1, <2>2, <2>4
  <2> QED
    BY <2>1, <2>3, <2>5, <2>6, <2>7 DEF Guarded
<1>4. CASE Arrive \/ Disturb
  <2>1. /\ UNCHANGED <<antenna_sentoff, ionsor, antrcvPc, msg, gstatus,
                       elaps, last_sentoff, net>>
        /\ UNCHANGED <<antcnPc, wire, lag, covered>>
    BY <1>4 DEF Arrive, Disturb, memoryVars, antcnVars, antrcvVars
  <2>2. (Pending' <=> Pending) /\ (Unnoticed' <=> Unnoticed) /\ InHand' = InHand
    BY <2>1 DEF Pending, Unnoticed, WillNotice, InHand
  <2>3. OldNewsIsEarly' <=> OldNewsIsEarly
    BY <2>1, <2>2 DEF OldNewsIsEarly
  <2>4. CASE Arrive
    <3>1. /\ moving
          /\ arrived' = (arrived \/ ~Pending)
      BY <2>4 DEF Arrive
    <3>2. /\ Pending' => ~arrived'
          /\ Owed' => Owed /\ Pending'
      BY <2>1, <2>2, <3>1 DEF Guarded
    <3> QED
      BY <2>1, <2>2, <2>3, <3>2 DEF Guarded
  <2>5. CASE Disturb
    <3>1. moving' = TRUE /\ UNCHANGED arrived
      BY <2>5 DEF Disturb
    <3> QED
      BY <2>1, <2>2, <2>3, <3>1 DEF Guarded
  <2> QED
    BY <1>4, <2>4, <2>5
<1> QED
  BY <1>1, <1>2, <1>3, <1>l, <1>4

---------------------------------------------------------------------------
(* The steps of antcn.                                                     *)

\* Where antcn may be while a covered request is owed and ionsor is still 1.
BeforeLowering == {"source_send", "source_ionsor", "offset_ionsor"}

LEMMA AntcnKeepsGuard ==
    ASSUME Guarded,
           UNCHANGED <<antenna_sentoff, antrcvVars, moving, arrived, lag>>,
           Pending' <=> Pending,
           covered' => covered,
           Owed => (ionsor' = 1 => antcnPc' \in BeforeLowering)
    PROVE  Guarded'
<1>1. /\ UNCHANGED <<antrcvPc, msg, gstatus, elaps, last_sentoff, net>>
      /\ UNCHANGED <<antenna_sentoff, moving, arrived, lag>>
  BY DEF antrcvVars
<1>2. (Unnoticed' <=> Unnoticed) /\ InHand' = InHand
  BY <1>1 DEF Unnoticed, WillNotice, InHand
<1>3. OldNewsIsEarly' <=> OldNewsIsEarly
  BY <1>1, <1>2 DEF OldNewsIsEarly
<1>4. Owed' => Owed
  BY <1>1 DEF Owed
<1> QED
  BY <1>1, <1>2, <1>3, <1>4 DEF Guarded, BeforeLowering

LEMMA GuardedAntcn ==
    ASSUME TypeOK, Guarded,
           IssueCommand \/ AntcnProceeds \/ AntcnWithdraws \/ AntcnDies
    PROVE  Guarded'
<1> USE DEF Sending, MidCommand, Moves
<1>o. Owed => (ionsor = 1 => antcnPc \in BeforeLowering)
  BY DEF Guarded, BeforeLowering
<1>1. CASE IssueCommand
  <2>1. /\ antcnPc' \in {"source_send", "offset_ionsor"}
        /\ antenna_sentoff' = 1
        /\ UNCHANGED ionsor
    BY <1>1
       DEF IssueCommand, CommandFlag, SourceFlag, OffsetFlag, SetSentoff
  <2>2. UNCHANGED <<antrcvPc, msg, gstatus, elaps, last_sentoff, net>>
    BY <1>1 DEF IssueCommand, antrcvVars
  <2>3. (covered' <=> WillNotice) /\ ~arrived'
    BY <1>1 DEF IssueCommand
  <2>4. Pending'
    BY <2>1 DEF Pending
  <2>5. Owed' => Unnoticed' /\ antrcvPc' # "clear"
    BY <2>1, <2>2, <2>3 DEF Owed, Unnoticed, WillNotice
  <2> QED
    BY <2>1, <2>2, <2>3, <2>4, <2>5 DEF Guarded
<1>2. CASE AntcnProceeds
  <2>0. UNCHANGED <<antrcvVars, moving, arrived, lag, covered>>
    BY <1>2 DEF AntcnProceeds, telescopeVars
  <2>1. CASE AntcnCall
    <3>1. /\ antcnPc = "wait"
          /\ antcnPc' \notin Sending
          /\ UNCHANGED <<antenna_sentoff, ionsor, wire>>
      BY <2>1
         DEF AntcnCall, CallIllegal, CallInitialize, CallSource, CallOffsets,
             CallReport, CallAntenna, CallAntennaNoClass, CallPoll,
             CallReserved, CallExternalDetector, CallCal, CallPatch,
             CallUnhandled, Call, memoryVars
    <3> QED
      BY <2>0, <3>1, <1>o, AntcnKeepsGuard DEF Pending, BeforeLowering
  <2>2. CASE AntcnReply \/ RecordAck \/ RecordsDone \/ PollTest
    <3>1. /\ antcnPc \in {"end", "record_ack", "record", "poll"}
          /\ antcnPc' \in {"wait", "record", "end", "poll_clear"}
          /\ UNCHANGED <<antenna_sentoff, ionsor, wire>>
      BY <2>2 DEF AntcnReply, RecordAck, RecordsDone, PollTest, memoryVars
    <3> QED
      BY <2>0, <3>1, <1>o, AntcnKeepsGuard DEF Pending, BeforeLowering
  <2>3. CASE InitIonsor \/ SourceIonsor \/ OffsetIonsor \/ PollClear
    <3>1. /\ antcnPc \in Sending <=> antcnPc' \in Sending
          /\ ionsor' = 0
          /\ UNCHANGED <<antenna_sentoff, wire>>
      BY <2>3
         DEF InitIonsor, SourceIonsor, OffsetIonsor, PollClear, SetIonsor0
    <3> QED
      BY <2>0, <3>1, AntcnKeepsGuard DEF Pending
  <2>4. CASE SourceSend
    <3>1. /\ antcnPc = "source_send" /\ antcnPc' = "source_ionsor"
          /\ wire' = wire \cup {"SV"}
          /\ UNCHANGED <<antenna_sentoff, ionsor>>
      BY <2>4 DEF SourceSend, Sendto, memoryVars
    <3>2. Pending /\ Pending'
      BY <3>1 DEF Pending
    <3> QED
      BY <2>0, <3>1, <3>2, AntcnKeepsGuard DEF BeforeLowering
  <2>5. CASE OffsetSendAzm \/ OffsetSendElv
    <3>1. /\ antcnPc \in {"offset_azm", "offset_elv"}
          /\ wire' = wire \cup {"OFFAZM"} \/ wire' = wire \cup {"OFFELV"}
          /\ UNCHANGED <<antenna_sentoff, ionsor>>
      BY <2>5 DEF OffsetSendAzm, OffsetSendElv, Sendto, memoryVars
    <3>2. Pending /\ Pending'
      BY <3>1 DEF Pending
    <3> QED
      BY <2>0, <3>1, <3>2, <1>o, AntcnKeepsGuard DEF BeforeLowering
  <2>6. CASE CalSend \/ RecordSend
    <3>1. /\ antcnPc \in {"cal_send", "record"}
          /\ antcnPc' \in {"end", "record_clear"}
          /\ wire' = wire \cup {"CAL"} \/ wire' = wire \cup {"RAW"}
          /\ UNCHANGED <<antenna_sentoff, ionsor>>
      BY <2>6 DEF CalSend, RecordSend, Sendto, memoryVars
    <3>2. Pending' <=> Pending
      BY <3>1 DEF Pending
    <3> QED
      BY <2>0, <3>1, <3>2, <1>o, AntcnKeepsGuard DEF BeforeLowering
  <2> QED
    BY <1>2, <2>1, <2>2, <2>3, <2>4, <2>5, <2>6 DEF AntcnProceeds, AntcnQuiet
<1>3. CASE AntcnWithdraws
  <2>1. /\ antcnPc \in {"record_clear", "down"}
        /\ antcnPc' \in {"record_ack", "wait"}
        /\ UNCHANGED <<ionsor, wire>>
    BY <1>3 DEF AntcnWithdraws, RecordClear, AntcnStart, SetSentoff
  <2>2. /\ UNCHANGED <<antrcvPc, msg, gstatus, elaps, last_sentoff, net>>
        /\ UNCHANGED <<moving, arrived, lag>>
        /\ covered' => covered /\ ~Unnoticed
    BY <1>3 DEF AntcnWithdraws, antrcvVars, telescopeVars
  <2>3. Pending' <=> Pending
    BY <2>1 DEF Pending
  <2>4. InHand' = InHand
    BY <2>2 DEF InHand
  <2>5. OldNewsIsEarly' <=> OldNewsIsEarly
    BY <2>2, <2>3, <2>4 DEF OldNewsIsEarly
  <2>6. Owed' => Owed /\ ~Unnoticed
    BY <2>2 DEF Owed
  <2> QED
    BY <2>1, <2>2, <2>3, <2>5, <2>6 DEF Guarded
<1>4. CASE AntcnDies
  <2>1. /\ antcnPc' = "down"
        /\ UNCHANGED <<antenna_sentoff, ionsor, wire>>
        /\ UNCHANGED <<antrcvPc, msg, gstatus, elaps, last_sentoff, net>>
        /\ UNCHANGED <<moving, arrived, lag>>
        /\ covered' => covered /\ antcnPc \notin MidCommand
    BY <1>4
       DEF AntcnDies, AntcnCrash, memoryVars, antrcvVars, telescopeVars
  <2>2. Pending' => Pending
    BY <2>1 DEF Pending
  <2>3. covered' => (Pending' <=> Pending)
    BY <2>1 DEF Pending
  <2>4. (Unnoticed' <=> Unnoticed) /\ InHand' = InHand
    BY <2>1 DEF Unnoticed, WillNotice, InHand
  <2>5. OldNewsIsEarly => OldNewsIsEarly'
    BY <2>1, <2>2, <2>4 DEF OldNewsIsEarly
  <2>6. Owed' => Owed /\ antcnPc \notin MidCommand
    BY <2>1 DEF Owed
  <2>7. Owed' => covered'
    BY DEF Owed
  <2> QED
    BY <2>1, <2>2, <2>3, <2>4, <2>5, <2>6, <2>7 DEF Guarded
<1> QED
  BY <1>1, <1>2, <1>3, <1>4

---------------------------------------------------------------------------
(* The steps of antrcv.  Each leaves antcn, the telescope and the debt     *)
(* alone, so it is enough to follow the last three parts of Guarded.       *)

LEMMA AntrcvKeepsGuard ==
    ASSUME Guarded,
           UNCHANGED <<antcnVars, telescopeVars, covered>>,
           ionsor' \in {ionsor, 0},
           antrcvPc' # "clear",
           \A p \in 1..Len(net') : net'[p] \in Statuses,
           Owed => \/ Unnoticed'
                   \/ antrcvPc' = "down" /\ net' = <<>> /\ msg' = "none"
                   \/ OldNewsIsEarly'
    PROVE  Guarded'
<1>1. UNCHANGED <<antcnPc, wire, moving, arrived, covered>>
  BY DEF antcnVars, telescopeVars
<1>2. Pending' <=> Pending
  BY <1>1 DEF Pending
<1>3. Owed' <=> Owed
  BY <1>1 DEF Owed
<1> QED
  BY <1>1, <1>2, <1>3 DEF Guarded

(* The count grows by one, the broadcast in hand is done with.             *)
LEMMA OneTick ==
    ASSUME NEW e \in Nat, NEW f \in Nat, f <= e + 1,
           NEW p \in Nat, NEW q \in Nat, NEW l \in Nat
    PROVE  e + 1 + p <= q + l + 1 => f + 0 + p <= q + l + 1
OBVIOUS

LEMMA GuardedAntrcv ==
    ASSUME TypeOK, Guarded, AntrcvProceeds \/ AntrcvDies
    PROVE  Guarded'
<1>n. elaps \in Nat /\ lag \in Nat /\ QCap \in Nat
  BY Numbers
<1>s. net \in Seq(Broadcasts) /\ Len(net) \in Nat /\ Len(net) <= QCap
  BY Numbers
<1>u. UNCHANGED <<antcnVars, telescopeVars, covered>>
  BY DEF AntrcvProceeds, AntrcvDies
<1>l. UNCHANGED lag /\ (Pending' <=> Pending)
  BY <1>u DEF telescopeVars, antcnVars, Pending
<1>q. \A p \in 1..Len(net) : net[p] \in Statuses
  BY DEF Guarded
<1>o. Owed => \/ Unnoticed
              \/ antrcvPc = "down" /\ net = <<>> /\ msg = "none"
              \/ OldNewsIsEarly
  BY DEF Guarded
<1>1. CASE AntrcvStart
  <2>1. /\ antrcvPc = "down" /\ antrcvPc' = "recv"
        /\ elaps' = 0 /\ last_sentoff' = 0
        /\ UNCHANGED <<antenna_sentoff, ionsor, msg, net>>
    BY <1>1 DEF AntrcvStart, memoryVars
  <2>2. Unnoticed => Unnoticed'
    BY <2>1 DEF Unnoticed, WillNotice
  <2>3. ASSUME \/ net = <<>> /\ msg = "none"
               \/ OldNewsIsEarly
        PROVE  OldNewsIsEarly'
    <3>1. InHand = 0 /\ InHand' = 0
      BY <2>1 DEF InHand
    <3>2. CASE net = <<>> /\ msg = "none"
      BY <3>1, <3>2, <2>1, <1>l, <1>n DEF OldNewsIsEarly
    <3>3. CASE OldNewsIsEarly
      BY <3>1, <3>3, <2>1, <1>l, <1>n, <1>s DEF OldNewsIsEarly
    <3> QED
      BY <2>3, <3>2, <3>3
  <2> QED
    BY <1>u, <1>q, <1>o, <2>1, <2>2, <2>3, AntrcvKeepsGuard
<1>2. CASE AntrcvDies
  <2>1. /\ antrcvPc' = "down" /\ net' = <<>> /\ msg' = "none"
        /\ UNCHANGED <<antenna_sentoff, ionsor>>
    BY <1>2 DEF AntrcvDies, AntrcvCrash, memoryVars
  <2> QED
    BY <1>u, <2>1, AntrcvKeepsGuard
<1>3. CASE Recv
  <2>1. /\ antrcvPc = "recv" /\ antrcvPc' = "pair"
        /\ net # <<>> /\ msg' = Head(net) /\ net' = Tail(net)
        /\ UNCHANGED <<antenna_sentoff, ionsor, gstatus, elaps, last_sentoff>>
    BY <1>3 DEF Recv, memoryVars
  <2>2. /\ Len(net) > 0 /\ Len(net') = Len(net) - 1
        /\ msg' = net[1]
        /\ \A p \in 1..Len(net') : net'[p] = net[p + 1]
    BY <2>1, <1>s
  <2>3. /\ \A p \in 1..Len(net') : net'[p] \in Statuses
        /\ msg' \in Statuses
    BY <2>2, <1>q, <1>s
  <2>4. InHand = 0 /\ InHand' = 1
    BY <2>1 DEF InHand
  <2>5. Unnoticed => Unnoticed'
    BY <2>1 DEF Unnoticed, WillNotice
  <2>6. ASSUME OldNewsIsEarly PROVE OldNewsIsEarly'
    <3>1. Pending' => elaps' + InHand' + Len(net') <= QCap + 1 + lag'
      BY <2>6, <2>1, <2>2, <2>4, <1>l, <1>n, <1>s DEF OldNewsIsEarly
    <3>2. ASSUME NEW p \in 1..Len(net'), net'[p] = "measure"
          PROVE  elaps' + InHand' + p <= QCap + lag' + 1
      <4>1. p + 1 \in 1..Len(net) /\ net[p + 1] = "measure"
        BY <3>2, <2>2, <1>s
      <4>2. elaps + 0 + (p + 1) <= QCap + lag + 1
        BY <4>1, <2>6, <2>4 DEF OldNewsIsEarly
      <4> QED
        BY <4>2, <2>1, <2>4, <1>l, <1>n, <1>s, <2>2
    <3>3. msg' = "measure" => elaps' <= QCap + lag'
      <4>1. 1 \in 1..Len(net)
        BY <2>2, <1>s
      <4>2. net[1] = "measure" => elaps + 0 + 1 <= QCap + lag + 1
        BY <4>1, <2>6, <2>4 DEF OldNewsIsEarly
      <4> QED
        BY <4>2, <2>1, <2>2, <1>l, <1>n
    <3>4. gstatus' = "measure" => elaps' <= QCap + lag' + 1
      BY <2>6, <2>1, <1>l DEF OldNewsIsEarly
    <3>5. msg' # "none"
      BY <2>3 DEF Statuses
    <3> QED
      BY <3>1, <3>2, <3>3, <3>4, <3>5 DEF OldNewsIsEarly
  <2> QED
    BY <1>u, <1>o, <2>1, <2>3, <2>5, <2>6, AntrcvKeepsGuard
<1>4. CASE RecvForeign
  BY <1>4, <1>q, <1>s DEF RecvForeign, Statuses
<1>5. CASE PairOther \/ PairIstmess
  <2>1. /\ antrcvPc = "pair" /\ antrcvPc' = "notice"
        /\ UNCHANGED <<antenna_sentoff, ionsor, elaps, last_sentoff, net>>
        /\ \/ UNCHANGED <<gstatus, msg>>
           \/ gstatus' = msg /\ msg' = "none"
    BY <1>5 DEF PairOther, PairIstmess, memoryVars, antrcvLocals
  <2>2. Unnoticed => Unnoticed'
    BY <2>1 DEF Unnoticed, WillNotice
  <2>3. InHand = 1 /\ InHand' = 1
    BY <2>1 DEF InHand
  <2>4. OldNewsIsEarly => OldNewsIsEarly'
    BY <2>1, <2>3, <1>l, <1>n DEF OldNewsIsEarly
  <2> QED
    BY <1>u, <1>q, <1>o, <2>1, <2>2, <2>4, AntrcvKeepsGuard
<1>6. CASE Notice
  <2>1. /\ antrcvPc = "notice" /\ antrcvPc' = "expire"
        /\ UNCHANGED <<antenna_sentoff, ionsor, msg, gstatus, net>>
        /\ \/ elaps' = 0
           \/ ~Unnoticed /\ UNCHANGED elaps
    BY <1>6 DEF Notice, Unnoticed, WillNotice, memoryVars
  <2>2. InHand = 1 /\ InHand' = 1
    BY <2>1 DEF InHand
  <2>3. CASE elaps' = 0
    BY <2>1, <2>2, <2>3, <1>l, <1>n, <1>s, <1>u, <1>q, AntrcvKeepsGuard
       DEF OldNewsIsEarly
  <2>4. CASE ~Unnoticed /\ UNCHANGED elaps
    <3>1. OldNewsIsEarly => OldNewsIsEarly'
      BY <2>1, <2>2, <2>4, <1>l DEF OldNewsIsEarly
    <3> QED
      BY <2>1, <2>4, <3>1, <1>u, <1>q, <1>o, AntrcvKeepsGuard
  <2> QED
    BY <2>1, <2>3, <2>4
<1>7. CASE Decide
  <2>1. /\ antrcvPc = "decide"
        /\ UNCHANGED <<antenna_sentoff, msg, gstatus, elaps, net>>
    BY <1>7 DEF Decide
  <2>2. InHand = 1
    BY <2>1 DEF InHand
  <2>3. Owed => OldNewsIsEarly
    BY <2>1, <1>o DEF Unnoticed, WillNotice
  <2>4. CASE elaps > Settle /\ gstatus = "measure"
    <3>1. ~OldNewsIsEarly
      <4>1. QCap + lag + 1 <= 4
        BY Numbers
      <4> QED
        BY <4>1, <2>4, <1>n DEF OldNewsIsEarly, Settle
    <3>2. ~Owed
      BY <2>3, <3>1
    <3>3. ~Owed' /\ (Pending' => ~arrived')
      BY <3>2, <1>u, <1>l DEF Owed, telescopeVars, Guarded
    <3> QED
      BY <3>3, <1>q, <2>1 DEF Guarded
  <2>5. CASE ~(elaps > Settle /\ gstatus = "measure")
    <3>1. ionsor' = 0 /\ antrcvPc' = "remember"
      BY <1>7, <2>5 DEF Decide
    <3>2. InHand' = 1
      BY <3>1 DEF InHand
    <3>3. OldNewsIsEarly => OldNewsIsEarly'
      BY <2>1, <2>2, <3>2, <1>l DEF OldNewsIsEarly
    <3> QED
      BY <1>u, <1>q, <2>1, <2>3, <3>1, <3>3, AntrcvKeepsGuard
  <2> QED
    BY <2>4, <2>5
<1>8. CASE ExpireRequest \/ ClearRequest \/ RememberNext
  <2>1. /\ antrcvPc \in {"expire", "clear", "remember"}
        /\ antrcvPc' \in {"decide", "remember", "pair"}
        /\ UNCHANGED <<ionsor, msg, gstatus, elaps, net>>
    BY <1>8
       DEF ExpireRequest, ClearRequest, RememberNext, memoryVars, antrcvLocals
  <2>2. InHand = 1 /\ InHand' = 1
    BY <2>1 DEF InHand
  <2>3. Owed => OldNewsIsEarly
    BY <2>1, <1>o DEF Unnoticed, WillNotice
  <2>4. OldNewsIsEarly => OldNewsIsEarly'
    BY <2>1, <2>2, <1>l DEF OldNewsIsEarly
  <2> QED
    BY <1>u, <1>q, <2>1, <2>3, <2>4, AntrcvKeepsGuard
<1>9. CASE RememberLast \/ RunOut
  <2>1. /\ antrcvPc \in {"remember", "pair"} /\ antrcvPc' = "recv"
        /\ msg = "none"
        /\ UNCHANGED <<antenna_sentoff, ionsor, msg, gstatus, net>>
        /\ antrcvPc = "pair" => UNCHANGED last_sentoff
    BY <1>9 DEF RememberLast, RunOut, memoryVars
  <2>2. elaps' \in Nat /\ elaps' <= elaps + 1
    BY <1>9, Numbers DEF RememberLast, RunOut, Tick, ElapsCap, Expire
  <2>3. InHand = 1 /\ InHand' = 0
    BY <2>1 DEF InHand
  <2>4. Unnoticed => Unnoticed'
    BY <2>1 DEF Unnoticed, WillNotice
  <2>5. ASSUME OldNewsIsEarly PROVE OldNewsIsEarly'
    <3>1. Pending' => elaps' + InHand' + Len(net') <= QCap + 1 + lag'
      BY <2>5, <2>1, <2>2, <2>3, <1>l, <1>n, <1>s DEF OldNewsIsEarly
    <3>2. ASSUME NEW p \in 1..Len(net'), net'[p] = "measure"
          PROVE  elaps' + InHand' + p <= QCap + lag' + 1
      <4>1. p \in 1..Len(net) /\ net[p] = "measure"
        BY <3>2, <2>1
      <4>2. elaps + 1 + p <= QCap + lag + 1
        BY <4>1, <2>5, <2>3 DEF OldNewsIsEarly
      <4>3. p \in Nat
        BY <4>1, <1>s
      <4>4. elaps' + 0 + p <= QCap + lag + 1
        BY <2>2, <4>2, <4>3, <1>n, OneTick
      <4> QED
        BY <4>4, <2>3, <1>l
    <3>3. gstatus' = "measure" => elaps' <= QCap + lag' + 1
      <4>1. gstatus = "measure" => elaps <= QCap + lag
        BY <2>5, <2>1, <2>3 DEF OldNewsIsEarly
      <4> QED
        BY <4>1, <2>1, <2>2, <1>l, <1>n
    <3> QED
      BY <3>1, <3>2, <3>3, <2>1, <2>3 DEF OldNewsIsEarly
  <2> QED
    BY <1>u, <1>q, <1>o, <2>1, <2>4, <2>5, AntrcvKeepsGuard
<1> QED
  BY <1>1, <1>2, <1>3, <1>4, <1>5, <1>6, <1>7, <1>8, <1>9
     DEF AntrcvProceeds, AntrcvStep

LEMMA GuardedStep == TypeOK /\ Guarded /\ [Next]_vars => Guarded'
<1> SUFFICES ASSUME TypeOK, Guarded, [Next]_vars
             PROVE  Guarded'
  OBVIOUS
<1>1. CASE \/ Broadcast \/ BroadcastLost \/ TakeCommands \/ CommandLost
           \/ Arrive \/ Disturb
  BY <1>1, GuardedTelescope
<1>2. CASE IssueCommand \/ AntcnProceeds \/ AntcnWithdraws \/ AntcnDies
  BY <1>2, GuardedAntcn
<1>3. CASE AntrcvProceeds \/ AntrcvDies
  BY <1>3, GuardedAntrcv
<1>4. CASE UNCHANGED vars
  BY <1>4
     DEF vars, memoryVars, antcnVars, antrcvVars, telescopeVars, Guarded,
         Owed, Pending, Unnoticed, WillNotice, InHand, OldNewsIsEarly
<1> QED
  BY <1>1, <1>2, <1>3, <1>4 DEF Next

(* Old news is never taken for arrival: the inductive form.                *)
THEOREM GuardHolds == Spec => []Guarded
<1>1. Init => Guarded
  BY DEF Init, AntcnInit, AntrcvInit, Guarded, Owed, Pending, Sending
<1> QED
  BY <1>1, GuardedStep, TypeCorrect, PTL DEF Spec

(* After a source or offset request antrcv could not miss, ionsor is not 1 *)
(* before the telescope has reached the position asked for, whatever the   *)
(* queue and the reaction time, as long as the settle window covers them.  *)
THEOREM NoFalseReport == Spec => []NoFalseOnsource
<1>1. Guarded => NoFalseOnsource
  BY DEF Guarded, NoFalseOnsource, Owed, MidCommand, Sending
<1> QED
  BY <1>1, GuardHolds, PTL

---------------------------------------------------------------------------
(* The refinement: every step is a step of the service or changes nothing  *)
(* it speaks of.                                                           *)

Promised == IF covered THEN IF arrived THEN "there" ELSE "owed" ELSE "none"
Reported == ionsor = 1 /\ antcnPc \notin MidCommand

LEMMA ServiceStep ==
    ASSUME TypeOK, Guarded, Guarded', [Next]_vars
    PROVE  [Service!ServiceNext]_<<Promised, Reported>>
<1> USE DEF Service!ServiceNext
<1>t. arrived \in BOOLEAN /\ covered \in BOOLEAN
  BY DEF TypeOK
<1>b. Reported \in BOOLEAN /\ Reported' \in BOOLEAN
  BY DEF Reported
<1>o. Promised' = "owed" => ~Reported'
  BY DEF Guarded, Promised, Reported, Owed, MidCommand, Sending
<1>j. ASSUME Promised' = Promised
      PROVE  Service!Judge
  BY <1>j, <1>b, <1>o DEF Service!Judge, Promised, Reported
<1>1. CASE Broadcast \/ BroadcastLost \/ Disturb \/ UNCHANGED vars
  <2>1. UNCHANGED <<ionsor, antcnPc, arrived, covered>>
    BY <1>1
       DEF Broadcast, BroadcastLost, Disturb, Queue, vars, memoryVars,
           antcnVars, antrcvLocals, telescopeVars
  <2> QED
    BY <2>1 DEF Promised, Reported
<1>2. CASE TakeCommands \/ Arrive
  <2>1. UNCHANGED <<ionsor, antcnPc, covered>>
    BY <1>2 DEF TakeCommands, Arrive, memoryVars, antcnVars
  <2>2. ~arrived \/ arrived'
    <3>1. CASE Arrive
      BY <3>1 DEF Arrive
    <3>2. CASE TakeCommands
      BY <3>2 DEF TakeCommands, Guarded, Pending
    <3> QED
      BY <1>2, <3>1, <3>2
  <2>3. Reported' = Reported
    BY <2>1 DEF Reported
  <2>4. CASE Promised' = Promised
    BY <2>4, <1>j
  <2>5. CASE Promised' # Promised
    <3>1. Promised = "owed" /\ Promised' = "there"
      BY <2>1, <2>2, <2>5 DEF Promised
    <3> QED
      BY <3>1, <2>3 DEF Service!Reach, Promised, Reported
  <2> QED
    BY <2>4, <2>5
<1>3. CASE IssueCommand
  <2>1. antcnPc' \in MidCommand /\ ~arrived'
    BY <1>3
       DEF IssueCommand, CommandFlag, SourceFlag, OffsetFlag, SetSentoff,
           MidCommand, Sending
  <2>2. ~Reported' /\ Promised' \in {"owed", "none"}
    BY <2>1 DEF Reported, Promised
  <2> QED
    BY <2>2 DEF Service!Ask, Promised, Reported
<1>4. CASE AntcnProceeds \/ AntrcvProceeds \/ AntrcvDies
  <2>1. UNCHANGED <<arrived, covered>>
    BY <1>4 DEF AntcnProceeds, AntrcvProceeds, AntrcvDies, telescopeVars
  <2> QED
    BY <2>1, <1>j DEF Promised
<1>5. CASE AntcnWithdraws \/ AntcnDies \/ CommandLost
  <2>1. UNCHANGED arrived /\ (covered' => covered)
    BY <1>5 DEF AntcnWithdraws, AntcnDies, CommandLost, telescopeVars
  <2>2. CASE Promised' = Promised
    BY <2>2, <1>j
  <2>3. CASE Promised' # Promised
    <3>1. Promised # "none" /\ Promised' = "none"
      BY <2>1, <2>3 DEF Promised
    <3> QED
      BY <3>1, <1>b DEF Service!Lapse, Promised, Reported
  <2> QED
    BY <2>2, <2>3
<1> QED
  BY <1>1, <1>2, <1>3, <1>4, <1>5 DEF Next

(* antcn, antrcv and the telescope implement the service the pointing      *)
(* programs rely on, whatever the queue and the reaction time that the     *)
(* settle window covers, and through the death of either program.          *)
THEOREM ImplementsService == Spec => KeepsPromise
<1>1. Init => Service!ServiceInit
  BY DEF Init, Service!ServiceInit
<1>2. TypeOK /\ Guarded /\ Guarded' /\ [Next]_vars
        => [Service!ServiceNext]_<<Promised, Reported>>
  BY ServiceStep
<1>3. TypeOK /\ Guarded /\ Guarded' /\ [Next]_vars
        => [Service!ServiceNext]_Service!serviceVars
  BY <1>2 DEF Promised, Reported, Service!serviceVars
<1> QED
  BY <1>1, <1>3, TypeCorrect, GuardHolds, PTL
     DEF Spec, KeepsPromise, Service!ServiceSpec
===========================================================================

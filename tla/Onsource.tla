----------------------------- MODULE Onsource -----------------------------
(***************************************************************************)
(* antcn and antrcv around the shared on-source flag, with the telescope   *)
(* they talk to.  antcn flags a request and sends it; the telescope acts   *)
(* on it a little later; its broadcasts travel through a queue; antrcv     *)
(* must not take a broadcast about the old position for arrival at the     *)
(* new one.                                                                *)
(*                                                                         *)
(* The telescope and the network are external: they are modelled by what   *)
(* the code relies on (comments antcn.c:263-265, 333-334 and the elaps     *)
(* window of antrcv_multi.c:119-124).                                      *)
(***************************************************************************)
EXTENDS Antcn, AntrcvMulti

CONSTANTS React,      \* broadcasts the telescope may still make about the old
                      \* position after a request is flagged
          MaxCrashes, \* bound: deaths of antcn and antrcv together
          Lossy       \* whether the network may lose what antcn sends

\* The settle window covers what may be queued, plus what the telescope may
\* add before it reacts, plus one broadcast for the gstatus left over from
\* the broadcast before.
ASSUME OnsourceAssumption ==
    /\ React \in Nat
    /\ MaxCrashes \in Nat
    /\ Lossy \in BOOLEAN
    /\ QCap + React + 1 <= Settle

VARIABLES moving,   \* what the telescope's next broadcast says
          arrived,  \* it has reached the last position asked for
          lag,      \* broadcasts it made since the request was flagged,
                    \* while the request had not reached it
          lost,     \* a datagram of the last request was lost, and antrcv
                    \* could not have missed the request
          covered,  \* the last request was flagged where antrcv cannot miss
                    \* it, and neither withdrawn before antrcv saw it nor lost
          crashes

telescopeVars == <<moving, arrived, lag, lost>>
vars == <<memoryVars, antcnVars, antrcvVars, telescopeVars, covered, crashes>>

\* A request is on its way to the telescope.
Pending == antcnPc \in Sending \/ wire \cap Moves # {}

TypeOK ==
    /\ MemoryTypeOK
    /\ AntcnTypeOK
    /\ AntrcvTypeOK
    /\ moving \in BOOLEAN
    /\ arrived \in BOOLEAN
    /\ lag \in 0..React
    /\ lost \in BOOLEAN
    /\ covered \in BOOLEAN
    /\ crashes \in 0..MaxCrashes

Init ==
    /\ AntcnInit
    /\ AntrcvInit
    /\ moving \in BOOLEAN
    /\ arrived = FALSE
    /\ lag = 0
    /\ lost = FALSE
    /\ covered = FALSE
    /\ crashes = 0

---------------------------------------------------------------------------
(* The telescope (external).                                              *)

Status == IF moving THEN "moving" ELSE "measure"

\* React bounds how long a request may go unheeded.
MayBroadcast == Pending => lag < React
CountLag == lag' = IF Pending THEN lag + 1 ELSE lag

Broadcast ==
    /\ MayBroadcast
    /\ Queue(Status)
    /\ CountLag
    /\ UNCHANGED <<antcnVars, moving, arrived, lost, covered, crashes>>

\* The datagram is lost, the queue is full or nobody listens.
BroadcastLost ==
    /\ Pending /\ lag < React
    /\ CountLag
    /\ UNCHANGED <<memoryVars, antcnVars, antrcvVars, moving, arrived, lost,
                   covered, crashes>>

\* The telescope takes what was sent; a new position may be the present one.
TakeCommands ==
    /\ wire # {}
    /\ wire' = {}
    /\ IF wire \cap Moves = {}
       THEN UNCHANGED <<moving, arrived>>
       ELSE /\ moving' \in BOOLEAN
            /\ arrived' = (~moving' /\ antcnPc \notin Sending)
    /\ UNCHANGED <<memoryVars, antcnPc, antcnLocals, antrcvVars, lag, lost,
                   covered, crashes>>

\* A datagram is lost: UDP says nothing of it, and antcn sends it once.  The
\* telescope does not go where it was asked to, and nothing is promised.
CommandLost ==
    /\ Lossy
    /\ \E d \in wire :
          /\ wire' = wire \ {d}
          /\ lost' = (lost \/ (covered /\ d \in Moves))
          /\ covered' = (covered /\ d \notin Moves)
    /\ UNCHANGED <<memoryVars, antcnPc, antcnLocals, antrcvVars, moving,
                   arrived, lag, crashes>>

Arrive ==
    /\ moving
    /\ moving' = FALSE
    /\ arrived' = (arrived \/ ~Pending)
    /\ UNCHANGED <<memoryVars, antcnVars, antrcvVars, lag, lost, covered,
                   crashes>>

\* It leaves the measure state by itself: wind, cable wrap, an operator.
Disturb ==
    /\ ~moving
    /\ moving' = TRUE
    /\ UNCHANGED <<memoryVars, antcnVars, antrcvVars, arrived, lag, lost,
                   covered, crashes>>

---------------------------------------------------------------------------
(* The two programs.                                                      *)

\* antrcv has yet to look at the flag in this pair, and will see it change.
WillNotice ==
    \/ antrcvPc = "down"
    \/ antrcvPc \in {"recv", "pair", "notice"} /\ last_sentoff = 0

\* The flag is up and antrcv has not seen it.
Unnoticed == antenna_sentoff = 1 /\ WillNotice

IssueCommand ==
    /\ CommandFlag
    /\ covered' = WillNotice
    /\ arrived' = FALSE
    /\ lag' = 0
    /\ lost' = FALSE
    /\ UNCHANGED <<antrcvVars, moving, crashes>>

AntcnProceeds ==
    /\ AntcnQuiet
    /\ UNCHANGED <<antrcvVars, telescopeVars, covered, crashes>>

\* antenna= and a start of antcn clear the flag whoever raised it.
AntcnWithdraws ==
    /\ RecordClear \/ AntcnStart
    /\ covered' = (covered /\ ~Unnoticed)
    /\ UNCHANGED <<antrcvVars, telescopeVars, crashes>>

AntcnDies ==
    /\ crashes < MaxCrashes
    /\ AntcnCrash
    /\ crashes' = crashes + 1
    /\ covered' = (covered /\ antcnPc \notin MidCommand)
    /\ UNCHANGED <<antrcvVars, telescopeVars>>

AntrcvProceeds ==
    /\ AntrcvStep \/ AntrcvStart
    /\ UNCHANGED <<antcnVars, telescopeVars, covered, crashes>>

AntrcvDies ==
    /\ crashes < MaxCrashes
    /\ AntrcvCrash
    /\ crashes' = crashes + 1
    /\ UNCHANGED <<antcnVars, telescopeVars, covered>>

Next ==
    \/ Broadcast \/ BroadcastLost \/ TakeCommands \/ CommandLost
    \/ Arrive \/ Disturb
    \/ IssueCommand \/ AntcnProceeds \/ AntcnWithdraws \/ AntcnDies
    \/ AntrcvProceeds \/ AntrcvDies

Spec == Init /\ [][Next]_vars

(***************************************************************************)
(* Fairness.  The programs run: a statement that can be executed is, a     *)
(* dead antrcv is started again, and antcn serves a request it has taken.  *)
(* Nothing obliges callers to ask.  A broadcast is finite: its istmess     *)
(* pair and its end are reached.  The network does not lose everything,    *)
(* and the telescope takes its commands; it need not ever arrive.          *)
(***************************************************************************)
AntcnServes ==
    \/ IssueCommand
    \/ antcnPc # "wait" /\ AntcnProceeds
    \/ antcnPc # "down" /\ AntcnWithdraws
\* msg says which of the two is awaited: they are never enabled together.
ReadOn ==
    /\ PairIstmess \/ RememberLast \/ RunOut
    /\ UNCHANGED <<antcnVars, telescopeVars, covered, crashes>>

Fairness ==
    /\ WF_vars(AntcnServes)
    /\ WF_vars(AntrcvProceeds)
    /\ SF_vars(ReadOn)
    /\ WF_vars(TakeCommands)
    /\ SF_vars(Broadcast)

FairSpec == Spec /\ Fairness

---------------------------------------------------------------------------
(* Properties.                                                            *)

(* No false report.  After a source or offset request that antrcv could    *)
(* not miss (covered), ionsor is not 1 before the telescope has reached    *)
(* the position asked for, from the moment antcn is done with the request: *)
(* the settle window outlasts every broadcast about the old position.      *)
(* antcn.c:202-266, antrcv_multi.c:119-129.                                *)
NoFalseOnsource ==
    covered /\ ionsor = 1 /\ antcnPc \notin MidCommand => arrived

(* Its inductive form.  A request on its way has not been fulfilled, the   *)
(* queue holds real broadcasts only, and a covered request (Owed) that the *)
(* telescope has not fulfilled is either still to be noticed, or the count *)
(* of broadcasts since it was noticed is held against those made about the *)
(* old position: each such broadcast is read before elaps passes Settle.   *)
Owed == covered /\ ~arrived

InHand == IF antrcvPc \in {"recv", "down"} THEN 0 ELSE 1

OldNewsIsEarly ==
    /\ Pending => elaps + InHand + Len(net) <= QCap + 1 + lag
    /\ \A p \in 1..Len(net) :
          net[p] = "measure" => elaps + InHand + p <= QCap + lag + 1
    /\ msg = "measure" => elaps <= QCap + lag
    /\ gstatus = "measure" => elaps <= QCap + lag + 1
    /\ gstatus = "measure" /\ InHand = 1 /\ msg = "none"
          => elaps <= QCap + lag

Guarded ==
    /\ Pending => ~arrived
    /\ \A p \in 1..Len(net) : net[p] \in Statuses
    /\ Owed =>
        /\ Pending \/ moving
        /\ antrcvPc # "clear"
        /\ ionsor = 1 =>
              antcnPc \in {"source_send", "source_ionsor", "offset_ionsor"}
        /\ \/ Unnoticed
           \/ antrcvPc = "down" /\ net = <<>> /\ msg = "none"
           \/ OldNewsIsEarly

(* Each program, run with the other, is the program run among others: what *)
(* is shown of AntcnSpec and AntrcvSpec holds here.                        *)
AntcnAmongOthers == AntcnSpec
AntrcvAmongOthers == AntrcvSpec

(* antcn, antrcv and the telescope together keep the promise: a request    *)
(* antrcv cannot miss is owed until the telescope gets there, and ionsor   *)
(* is the report once antcn is done with the request.  Every step of theirs*)
(* is one of the service or none.  antcn.c:202-266, antrcv_multi.c:119-129.*)
Service == INSTANCE OnsourceService WITH
    service <- IF covered THEN IF arrived THEN "there" ELSE "owed"
               ELSE "none",
    report <- ionsor = 1 /\ antcnPc \notin MidCommand

KeepsPromise == Service!ServiceSpec

(* Liveness.  A request antrcv could not miss is cleared in the end, if    *)
(* only by the count reaching Expire.  antrcv_multi.c:119-123.             *)
CoveredRequestExpires ==
    covered /\ antenna_sentoff = 1 ~> antenna_sentoff = 0

(* Liveness.  Once the telescope stays in measure and nobody asks for      *)
(* anything, ionsor becomes and stays 1; while it never returns to measure *)
(* ionsor becomes and stays 0.  antrcv_multi.c:124-128.                    *)
VerdictFollows ==
    /\ <>[](~moving /\ antcnPc = "wait") => <>[](ionsor = 1)
    /\ <>[]moving => <>[](ionsor = 0)

(* What antcn.c:333-334 says of mode 5: "make sure that if antenna just    *)
(* sent off but not started moving yet, dont falsely report onsrc".        *)
PollNeverFalse == antcnPc = "end" /\ imode = 5 /\ ionsor = 1 => ~Pending

(* What antcn.c:263-264 says of the offsets it sends: "antenna must get     *)
(* message to change offsets, then will report offsource: fivpt and onoff  *)
(* wait until ionsor reports position reached".  After a request whose     *)
(* message was lost, ionsor does not report a position reached.            *)
LostNeverReported == lost /\ antcnPc \notin MidCommand => ionsor = 0

(* What antrcv_multi.c:123 says of the tenth broadcast: "at latest clear   *)
(* new src request".  No request outlives the last one for ever.           *)
RequestExpires == <>[](antcnPc = "wait") => []<>(antenna_sentoff = 0)
===========================================================================

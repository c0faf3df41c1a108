--------------------------- MODULE AntrcvMulti ---------------------------
(***************************************************************************)
(* antrcv/antrcv_multi.c: the receiver of the telescope's multicast status *)
(* broadcasts, about one a second.  A broadcast is a list of key:value     *)
(* pairs.  The on-source decision (lines 119-129) runs after EVERY pair,   *)
(* not once per broadcast; elaps counts whole broadcasts.                  *)
(*                                                                         *)
(* A broadcast is abstracted to the value of its "istmess" pair, at an     *)
(* unknown place among an unknown number of other pairs:                   *)
(*   "measure"  istmess is 1                                               *)
(*   "moving"   istmess is any other number                                *)
(*   "none"     no readable istmess: gstatus keeps its former value        *)
(*   "foreign"  a datagram that does not begin with an opening brace       *)
(* net is the socket's receive queue.                                      *)
(***************************************************************************)
EXTENDS StationMemory, Sequences

CONSTANT QCap       \* bound: broadcasts the socket's queue holds

ASSUME AntrcvAssumption == QCap \in Nat \ {0}

VARIABLES antrcvPc,     \* next statement
          msg,          \* the istmess pair of this broadcast, not yet read
          gstatus,      \* last istmess read: never initialised by main
          elaps,        \* broadcasts since the last request noticed
          last_sentoff, \* antenna_sentoff as seen after the last pair
          net

antrcvLocals == <<msg, gstatus, elaps, last_sentoff>>
antrcvVars == <<antrcvPc, msg, gstatus, elaps, last_sentoff, net>>

Settle == 4     \* elaps must exceed this before ionsor may be raised
Expire == 10    \* at this elaps the request is cleared in any case

\* Bound: elaps is only compared with Settle and Expire, so every value
\* beyond Expire is the same.
ElapsCap == Expire + 1

Statuses == {"measure", "moving"}
Broadcasts == Statuses \cup {"none", "foreign"}

AntrcvPcs == {"down", "recv", "pair", "notice", "expire", "decide",
              "clear", "remember"}

AntrcvTypeOK ==
    /\ antrcvPc \in AntrcvPcs
    /\ msg \in Statuses \cup {"none"}
    /\ gstatus \in Statuses
    /\ elaps \in 0..ElapsCap
    /\ last_sentoff \in {0, 1}
    /\ net \in Seq(Broadcasts)
    /\ Len(net) <= QCap

AntrcvInit ==
    /\ MemoryInit
    /\ antrcvPc = "down"
    /\ msg = "none"
    /\ gstatus \in Statuses
    /\ elaps = 0
    /\ last_sentoff = 0
    /\ net = <<>>

---------------------------------------------------------------------------
(* The process and its socket.                                            *)

AntrcvStart ==
    /\ antrcvPc = "down"
    /\ antrcvPc' = "recv"
    /\ gstatus' \in Statuses
    /\ elaps' = 0
    /\ last_sentoff' = 0
    /\ UNCHANGED <<memoryVars, msg, net>>

\* Killed, or exit(1) after a recvfrom error: the queue goes with it.
AntrcvCrash ==
    /\ antrcvPc # "down"
    /\ antrcvPc' = "down"
    /\ msg' = "none"
    /\ net' = <<>>
    /\ UNCHANGED <<memoryVars, gstatus, elaps, last_sentoff>>

\* External: the network queues a broadcast, or loses it.
Queue(b) ==
    /\ antrcvPc # "down"
    /\ Len(net) < QCap
    /\ net' = Append(net, b)
    /\ UNCHANGED <<memoryVars, antrcvPc, antrcvLocals>>

Recv ==
    /\ antrcvPc = "recv"
    /\ net # <<>>
    /\ Head(net) # "foreign"
    /\ antrcvPc' = "pair"
    /\ msg' = Head(net)
    /\ net' = Tail(net)
    /\ UNCHANGED <<memoryVars, gstatus, elaps, last_sentoff>>

RecvForeign ==
    /\ antrcvPc = "recv"
    /\ net # <<>>
    /\ Head(net) = "foreign"
    /\ net' = Tail(net)
    /\ UNCHANGED <<memoryVars, antrcvPc, antrcvLocals>>

---------------------------------------------------------------------------
(* One key:value pair: its terminator is found and the key looked up.     *)

PairOther ==
    /\ antrcvPc = "pair"
    /\ antrcvPc' = "notice"
    /\ UNCHANGED <<memoryVars, antrcvLocals, net>>

\* Slip: the value of an istmess that cannot be read is taken all the same.
PairIstmessUnread ==
    /\ antrcvPc = "pair"
    /\ antrcvPc' = "notice"
    /\ gstatus' = msg
    /\ msg' = "none"
    /\ UNCHANGED <<memoryVars, elaps, last_sentoff, net>>

PairIstmess ==
    /\ antrcvPc = "pair"
    /\ msg # "none"
    /\ antrcvPc' = "notice"
    /\ gstatus' = msg
    /\ msg' = "none"
    /\ UNCHANGED <<memoryVars, elaps, last_sentoff, net>>

---------------------------------------------------------------------------
(* The on-source block, one access to shared memory a step.               *)

\* Slip: the count is not started again.
NoticeKeepsCount ==
    /\ antrcvPc = "notice"
    /\ antrcvPc' = "expire"
    /\ IF last_sentoff = 0 /\ antenna_sentoff = 1
       THEN last_sentoff' = 1
       ELSE UNCHANGED last_sentoff
    /\ UNCHANGED <<memoryVars, msg, gstatus, elaps, net>>

Notice ==
    /\ antrcvPc = "notice"
    /\ antrcvPc' = "expire"
    /\ IF last_sentoff = 0 /\ antenna_sentoff = 1
       THEN elaps' = 0 /\ last_sentoff' = 1
       ELSE UNCHANGED <<elaps, last_sentoff>>
    /\ UNCHANGED <<memoryVars, msg, gstatus, net>>

\* Slip: the request is never given up.
ExpireRequestNever ==
    /\ antrcvPc = "expire"
    /\ antrcvPc' = "decide"
    /\ UNCHANGED <<memoryVars, antrcvLocals, net>>

ExpireRequest ==
    /\ antrcvPc = "expire"
    /\ antrcvPc' = "decide"
    /\ antenna_sentoff' = IF elaps = Expire THEN 0 ELSE antenna_sentoff
    /\ UNCHANGED <<ionsor, antrcvLocals, net>>

\* Slips: the window is one short; it is left out.
DecideEarly ==
    /\ antrcvPc = "decide"
    /\ IF elaps >= Settle /\ gstatus = "measure"
       THEN ionsor' = 1 /\ last_sentoff' = 0 /\ antrcvPc' = "clear"
       ELSE ionsor' = 0 /\ antrcvPc' = "remember" /\ UNCHANGED last_sentoff
    /\ UNCHANGED <<antenna_sentoff, msg, gstatus, elaps, net>>
DecideAtOnce ==
    /\ antrcvPc = "decide"
    /\ IF gstatus = "measure"
       THEN ionsor' = 1 /\ last_sentoff' = 0 /\ antrcvPc' = "clear"
       ELSE ionsor' = 0 /\ antrcvPc' = "remember" /\ UNCHANGED last_sentoff
    /\ UNCHANGED <<antenna_sentoff, msg, gstatus, elaps, net>>

Decide ==
    /\ antrcvPc = "decide"
    /\ IF elaps > Settle /\ gstatus = "measure"
       THEN ionsor' = 1 /\ last_sentoff' = 0 /\ antrcvPc' = "clear"
       ELSE ionsor' = 0 /\ antrcvPc' = "remember" /\ UNCHANGED last_sentoff
    /\ UNCHANGED <<antenna_sentoff, msg, gstatus, elaps, net>>

\* Slip: the wrong constant.
ClearRequestInverted ==
    /\ antrcvPc = "clear"
    /\ antrcvPc' = "remember"
    /\ antenna_sentoff' = 1
    /\ UNCHANGED <<ionsor, antrcvLocals, net>>

ClearRequest ==
    /\ antrcvPc = "clear"
    /\ antrcvPc' = "remember"
    /\ antenna_sentoff' = 0
    /\ UNCHANGED <<ionsor, antrcvLocals, net>>

\* A comma: on to the next pair.
RememberNext ==
    /\ antrcvPc = "remember"
    /\ antrcvPc' = "pair"
    /\ last_sentoff' = antenna_sentoff
    /\ UNCHANGED <<memoryVars, msg, gstatus, elaps, net>>

\* Slip: the broadcasts are counted under a request only.
TickUnderRequest ==
    elaps' = IF antenna_sentoff = 1 /\ elaps < ElapsCap THEN elaps + 1 ELSE elaps

Tick == elaps' = IF elaps < ElapsCap THEN elaps + 1 ELSE ElapsCap

\* The closing brace: the broadcast is done and counted.
RememberLast ==
    /\ antrcvPc = "remember"
    /\ msg = "none"
    /\ antrcvPc' = "recv"
    /\ last_sentoff' = antenna_sentoff
    /\ Tick
    /\ UNCHANGED <<memoryVars, msg, gstatus, net>>

\* The datagram ends without a closing brace: counted all the same.
RunOut ==
    /\ antrcvPc = "pair"
    /\ msg = "none"
    /\ antrcvPc' = "recv"
    /\ Tick
    /\ UNCHANGED <<memoryVars, msg, gstatus, last_sentoff, net>>

AntrcvStep ==
    \/ Recv \/ RecvForeign \/ PairOther \/ PairIstmess
    \/ Notice \/ ExpireRequest \/ Decide \/ ClearRequest
    \/ RememberNext \/ RememberLast \/ RunOut

---------------------------------------------------------------------------
(* antrcv by itself, among the others that share its memory.              *)

\* External: antcn raises and clears the flag and lowers ionsor.
OthersCommand ==
    /\ antenna_sentoff' \in {0, 1}
    /\ ionsor' \in {ionsor, 0}
    /\ UNCHANGED antrcvVars

AnyBroadcast == \E b \in Broadcasts : Queue(b)

AntrcvNext ==
    \/ OthersCommand \/ AnyBroadcast
    \/ AntrcvStart \/ AntrcvCrash \/ AntrcvStep

aloneVars == <<memoryVars, antrcvVars>>

AntrcvSpec ==
    /\ AntrcvInit
    /\ [][AntrcvNext]_aloneVars

AntrcvTyped == MemoryTypeOK /\ AntrcvTypeOK

(* While a request is being counted, no broadcast but one processed with   *)
(* elaps beyond the settle window leaves ionsor at 1, whatever the         *)
(* broadcasts say and however the others write the shared words.           *)
(* antrcv_multi.c:119-129, 151.                                            *)
QuietWhileSettling ==
    antrcvPc = "recv" /\ last_sentoff = 1 /\ elaps <= Settle + 1 => ionsor = 0
===========================================================================

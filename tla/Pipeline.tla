------------------------------ MODULE Pipeline ------------------------------
(***************************************************************************)
(* From a SNAP command to the telescope: stqkr stores a word and has antcn *)
(* send a line, the line crosses the network, the VLBI server forwards     *)
(* what it thinks is new.  Commands are served one after the other (boss   *)
(* waits for each), but the server may lag behind by WireCap datagrams and *)
(* may be stopped and started, and then misses what is sent meanwhile; the *)
(* network may lose any datagram, and nobody sends it again.               *)
(***************************************************************************)
EXTENDS Stqkr, VlbiServer

\* What effrx and efflo store for an LO.
LoValues ==
    {0} \cup (LoFreqs \ {NoFreq, Unreadable})
        \cup {100 * RxLo(name, 0) : name \in RxNames}

\* The server is sent what they store, and a source has a name.
ASSUME PipelineAssumption == LoValues \subseteq Los /\ "" \notin Targets

VARIABLE missed     \* the kinds of datagram whose last one was lost

vars == <<commandVars, serverVars, missed>>

Init == StqkrInit /\ ServerInit /\ missed = {}

\* The commands that change no shared word change nothing here either.
Commands ==
    /\ StqkrServes \/ AntcnAsks \/ AntcnStarts
    /\ UNCHANGED <<serverVars, missed>>

\* One datagram: recvfrom and the branch it takes.
Handles(d) ==
    \/ d.kind = "line" /\ d.source # "" /\ HandleLine(d)
    \/ d.kind = "line" /\ d.source = "" /\ HandleGarbled
    \/ d.kind = "OFFAZM" /\ HandleOffAzm(d.off)
    \/ d.kind = "OFFELV" /\ (HandleOffElv(d.off) \/ OffElvRaises)
    \/ d.kind = "POINTING" /\ HandlePointing
    \/ d.kind = "REPEAT" /\ HandleRepeat

ServerReceives ==
    /\ wire # <<>>
    /\ wire' = Tail(wire)
    /\ Handles(Head(wire))
    /\ missed' = missed \ {Head(wire).kind}
    /\ UNCHANGED <<lo, eff, stqkrVars>>

\* Nobody listens, or the network loses it.
LostAtServer ==
    /\ wire # <<>>
    /\ wire' = Tail(wire)
    /\ missed' = missed \cup ({Head(wire).kind} \cap {"line", "OFFAZM"})
    /\ UNCHANGED <<lo, eff, stqkrVars, serverVars>>

\* With the socket goes what it had queued.
ServerDies ==
    /\ ServerEnds
    /\ wire' = <<>>
    /\ UNCHANGED <<lo, eff, stqkrVars, missed>>

ServerElse ==
    /\ KeyRepeat \/ ServerStart
    /\ UNCHANGED <<commandVars, missed>>

Next == Commands \/ ServerReceives \/ LostAtServer \/ ServerDies \/ ServerElse

Spec == Init /\ [][Next]_vars

Caught == wire = <<>> /\ up /\ owed /\ ~failed /\ "line" \notin missed

(* End to end.  When the server has caught up, be4 observes the source     *)
(* antcn was last given, at the frequency of its line, through every order *)
(* of commands, offsets, repeats, restarts of antcn and the server, and    *)
(* lost datagrams: after a lost line the very next one makes up for all it *)
(* said.  Its cal state is the one stqkr keeps in shared memory, but for an*)
(* antcn started again: that one begins with cal off, does not read the    *)
(* shared word, and so turns cal off with its next source=, until cal=,    *)
(* phasecal=, rx= or lo= tells it.  Left out are POINTING, and the time    *)
(* from a start of antcn or its mode 0 to the next source=, when no line is*)
(* forwarded.                                                              *)
(* antcn.c:156, 202-234, 361-377; VLBIsend.py:292-437.                     *)
Be4Follows ==
    Caught /\ be4 # Pointing /\ eff.source \in Targets =>
        /\ be4.source = eff.source
        /\ be4.lo = Tenth(wanted.lo)
        /\ OnOff(be4.tcal) = IF synced THEN stm.ieffcal ELSE 0

(* be4 is never sent the azimuth of one offset request with the elevation  *)
(* of another, though they travel in two datagrams and the server may be   *)
(* restarted between them; unless the azimuth of the last request was lost,*)
(* for which its elevation is sent with the one before.                    *)
(* antcn.c:251-255, VLBIsend.py:438-451.                                   *)
OffsetsPaired ==
    [][be4'.kind = "offsets" /\ be4' # be4 /\ "OFFAZM" \notin missed
            => be4'.azm = be4'.elv]_vars

(* What effpcal.c:16-18 says of phasecal: "Hardware is controlled by       *)
(* running antcn, sends pcal bit, which is sent to serial interface".  With*)
(* nothing failing and the server caught up, the distributor has the code  *)
(* of the state that was commanded, for the frequency last sent.           *)
PcalFollows ==
    Caught /\ synced =>
        pcalSwitch = IF stm.ieffpcal = 1 THEN PcalOn(wanted.lo) ELSE PcalOff
===========================================================================

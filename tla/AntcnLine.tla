----------------------------- MODULE AntcnLine -----------------------------
(***************************************************************************)
(* The contents of antcn's datagrams (antcn/antcn.c): its static command   *)
(* words, the frequency it derives from the LOs in fscom, and the lines it *)
(* sends to the VLBI server.  Antcn.tla models the same modes statement by *)
(* statement; here a mode is one action, because its callers wait for it   *)
(* and nobody else writes the words it prints.                             *)
(*                                                                         *)
(* Frequencies are in hundredths of a MHz, as effband is ("%5.2f").        *)
(***************************************************************************)
EXTENDS CommandWords, Integers, Sequences, FiniteSetsExt

CONSTANT WireCap    \* bound: datagrams on their way to the server

ASSUME LineAssumption == WireCap \in Nat \ {0}

VARIABLES lo,    \* fscom lo.lo: the four LO frequencies
          eff,   \* antcn's statics that go into a line
          wire   \* datagrams on their way to the server

Ifs == 0..3     \* loa, lob, loc, lod

\* A fresh process has empty strings: its line lacks words.
Blank == [source |-> "", wrap |-> "", tcal |-> 0, pcal |-> 0]

LineInit ==
    /\ lo = [k \in Ifs |-> 0]
    /\ eff = Blank
    /\ wire = <<>>

\* The highest LO, but LO 1 when the third is a geodetic 400 MHz above it.
Geo(f) == f[2] - f[0] \in 40000..40099
Fflo(f) == IF Geo(f) THEN f[0] ELSE Max({f[k] : k \in Ifs})

LineText(e, f) ==
    [kind |-> "line", source |-> e.source, lo |-> Fflo(f), tcal |-> e.tcal,
     pcal |-> e.pcal, wrap |-> e.wrap]

\* What antcn sends; a process that has no source yet lacks words of a line.
Sent ==
    [kind : {"line"}, source : Targets \cup {"NONE", ""}, lo : Int,
     tcal : {0, 1}, pcal : {0, 1}, wrap : Wraps \cup {"1950FSX", ""}]
    \cup [kind : {"OFFAZM", "OFFELV"}, off : Offsets]
    \cup [kind : {"POINTING", "REPEAT"}]

Sends(msgs) ==
    /\ Len(wire) + Len(msgs) <= WireCap
    /\ wire' = wire \o msgs

\* Mutant: the line is printed before the words are taken over.
SendCalLate(f, tcal, pcal) ==
    /\ eff' = [eff EXCEPT !.tcal = tcal, !.pcal = pcal]
    /\ Sends(<<LineText(eff, f)>>)

\* Mode 100, with the cal words of the request.
SendCal(f, tcal, pcal) ==
    /\ eff' = [eff EXCEPT !.tcal = tcal, !.pcal = pcal]
    /\ Sends(<<LineText(eff', f)>>)

\* Mode 0.
Initialize ==
    /\ eff' = [eff EXCEPT !.source = "NONE", !.wrap = "1950FSX"]
    /\ UNCHANGED <<lo, wire>>

\* Mode 1.
Source(s, w) ==
    /\ eff' = [eff EXCEPT !.source = s, !.wrap = w]
    /\ Sends(<<LineText(eff', lo)>>)
    /\ UNCHANGED lo

\* Mutant: the elevation goes first.
SetOffsetsSwapped(off) ==
    /\ Sends(<<[kind |-> "OFFELV", off |-> off],
               [kind |-> "OFFAZM", off |-> off]>>)
    /\ UNCHANGED <<lo, eff>>

\* Mode 2.
SetOffsets(off) ==
    /\ Sends(<<[kind |-> "OFFAZM", off |-> off],
               [kind |-> "OFFELV", off |-> off]>>)
    /\ UNCHANGED <<lo, eff>>

\* Mode 4: the operator's own words, POINTING and REPEAT among them.
Raw(word) ==
    /\ Sends(<<[kind |-> word]>>)
    /\ UNCHANGED <<lo, eff>>

\* The process is started again: its statics are gone.
AntcnRestart ==
    /\ eff' = Blank
    /\ UNCHANGED <<lo, wire>>

LineNext ==
    \/ Initialize
    \/ \E s \in Targets, w \in Wraps : Source(s, w)
    \/ \E off \in Offsets : SetOffsets(off)
    \/ \E word \in {"POINTING", "REPEAT"} : Raw(word)
===========================================================================

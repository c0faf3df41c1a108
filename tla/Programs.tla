------------------------------ MODULE Programs ------------------------------
(***************************************************************************)
(* The programs and parts of programs of the station that are no part of   *)
(* the on-source decision: each against whatever surrounds it, stqkr with  *)
(* antcn serving its commands.  One of them takes the steps of a           *)
(* behaviour, the others stay as they started.                             *)
(***************************************************************************)
EXTENDS Pcald, Cheks, Rad2str, Segment, Stqkr, FilterBank, Mk5logd

VARIABLE part       \* the one that runs; never changes

programVars == <<pcaldVars, cheksVars, rad, segmentVars, commandVars, fibaVars,
                 mk5Vars, part>>

Parts == {"pcald", "cheks", "rad2str", "stm_util", "stqkr", "set_fiba",
          "mk5logd"}

\* What a part that does not run starts with makes no difference.
ProgramsInit ==
    /\ part \in Parts
    /\ PcaldInit /\ (part # "pcald" => ~pcald.polls)
    /\ CheksInit /\ (part # "cheks" => cheks.i = CHOOSE m \in Modules : TRUE)
    /\ RadInit
    /\ part # "rad2str" =>
          /\ rad.pformat = [hours |-> TRUE, zero |-> FALSE, m |-> -1, n |-> 1]
          /\ rad.input = CHOOSE a \in Angles : TRUE
    /\ SegmentInit
    /\ part # "stm_util" => \A u \in Users, b \in Points :
          users[u].chars[b] = CHOOSE n \in Blocks : TRUE
    /\ StqkrInit
    /\ FibaInit
    /\ part # "set_fiba" => bank = [c \in {"08", "16"} |-> "033"]
    /\ Mk5Init /\ (part # "mk5logd" => log = "recent")

PcaldRuns ==
    /\ part = "pcald"
    /\ PcaldNext
    /\ UNCHANGED <<cheksVars, rad, segmentVars, fibaVars, commandVars, mk5Vars,
                   part>>

CheksRuns ==
    /\ part = "cheks"
    /\ CheksNext
    /\ UNCHANGED <<pcaldVars, rad, segmentVars, fibaVars, commandVars, mk5Vars,
                   part>>

Rad2strRuns ==
    /\ part = "rad2str"
    /\ RadNext
    /\ UNCHANGED <<pcaldVars, cheksVars, segmentVars, commandVars, fibaVars,
                   mk5Vars, part>>

SegmentRuns ==
    /\ part = "stm_util"
    /\ SegmentNext
    /\ UNCHANGED <<pcaldVars, cheksVars, rad, fibaVars, commandVars, mk5Vars,
                   part>>

CommandRuns ==
    /\ part = "stqkr"
    /\ CommandNext
    /\ UNCHANGED <<pcaldVars, cheksVars, rad, segmentVars, fibaVars, mk5Vars,
                   part>>

FilterBankRuns ==
    /\ part = "set_fiba"
    /\ FibaNext
    /\ UNCHANGED <<pcaldVars, cheksVars, rad, segmentVars, commandVars, mk5Vars,
                   part>>

Mk5logdRuns ==
    /\ part = "mk5logd"
    /\ Mk5Next
    /\ UNCHANGED <<pcaldVars, cheksVars, rad, segmentVars, commandVars, fibaVars,
                   part>>

ProgramsNext ==
    \/ PcaldRuns \/ CheksRuns \/ Rad2strRuns \/ SegmentRuns
    \/ CommandRuns \/ FilterBankRuns \/ Mk5logdRuns

\* PcaldFairness, of the part that runs.
ProgramsFairness ==
    /\ WF_programVars(PcaldRuns /\ Wake)
    /\ WF_programVars(PcaldRuns /\ PcaldStep)

ProgramsSpec ==
    /\ ProgramsInit
    /\ [][ProgramsNext]_programVars
    /\ ProgramsFairness

(* The types of the parts.  In particular mk5logd never counts more than   *)
(* one failure past the limit.                                             *)
ProgramsTypeOK ==
    /\ PcaldTypeOK /\ CheksTypeOK /\ RadTypeOK /\ SegmentTypeOK
    /\ CommandTypeOK /\ FibaTypeOK /\ Mk5TypeOK
=============================================================================

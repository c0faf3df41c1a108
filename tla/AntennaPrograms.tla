-------------------------- MODULE AntennaPrograms --------------------------
(***************************************************************************)
(* antcn and the receivers of the antrcv directory, of which a station     *)
(* runs one: each against whatever the others, the telescope and the       *)
(* Field System may do.  One of them takes the steps of a behaviour, the   *)
(* others stay as they started.                                            *)
(***************************************************************************)
EXTENDS Antcn, AntrcvMulti, Askvax, VaxState, Clientserv

VARIABLE program    \* the one that runs; never changes

vaxOnly == <<raw_ionsor, ant_state, onoff, vax, departed>>
antennaVars ==
    <<memoryVars, antcnVars, antrcvVars, askvax, vaxOnly, clientVars, program>>

\* What a program that does not run starts with makes no difference.
AntennaInit ==
    /\ program \in {"antcn", "antrcv_multi", "askvax", "real_askvax",
                    "clientserv"}
    /\ AntcnInit
    /\ program # "antcn" => ierr = CHOOSE j \in Junk : TRUE
    /\ AntrcvInit /\ (program # "antrcv_multi" => gstatus = "measure")
    /\ AskvaxInit /\ VaxInit /\ ClientInit

AntcnRuns ==
    /\ program = "antcn"
    /\ AntcnNext
    /\ UNCHANGED <<antrcvVars, askvax, vaxOnly, clientVars, program>>

MultiRuns ==
    /\ program = "antrcv_multi"
    /\ AntrcvNext
    /\ UNCHANGED <<antcnVars, askvax, vaxOnly, clientVars, program>>

AskvaxRuns ==
    /\ program = "askvax"
    /\ AskvaxNext
    /\ UNCHANGED <<antcnVars, antrcvVars, vaxOnly, clientVars, program>>

VaxRuns ==
    /\ program = "real_askvax"
    /\ VaxNext
    /\ UNCHANGED <<antcnVars, antrcvVars, askvax, clientVars, program>>

ClientRuns ==
    /\ program = "clientserv"
    /\ ClientNext
    /\ UNCHANGED <<memoryVars, antcnVars, antrcvVars, askvax, vaxOnly,
                   program>>

AntennaNext ==
    \/ AntcnRuns \/ MultiRuns \/ AskvaxRuns \/ VaxRuns \/ ClientRuns

\* real_askvax is started again when it has died, and its statements execute.
AntennaFairness == WF_antennaVars(VaxRuns /\ (VaxStart \/ VaxStep))

AntennaSpec ==
    /\ AntennaInit
    /\ [][AntennaNext]_antennaVars
    /\ AntennaFairness

(* The types of the receivers that antrcv_multi replaced.  In particular   *)
(* the state of real_askvax, which other programs read, never exceeds 4.   *)
EarlierTypeOK == AskvaxTypeOK /\ VaxTypeOK /\ ClientTypeOK
=============================================================================

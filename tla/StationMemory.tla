-------------------------- MODULE StationMemory --------------------------
(***************************************************************************)
(* The two words of System V shared memory through which antcn, antrcv and *)
(* the Field System agree on whether the antenna is on source:             *)
(*   antenna_sentoff  stcom (include/stcom.h): 1 while a source or offset  *)
(*                    command has been issued and not yet disposed of;     *)
(*   ionsor           fscom: 1 when the antenna is reported on source.     *)
(* The segments are created once (stalloc) and outlive the programs that   *)
(* attach to them, so nothing is assumed of their values at start.         *)
(***************************************************************************)
EXTENDS Naturals

VARIABLES antenna_sentoff, ionsor

memoryVars == <<antenna_sentoff, ionsor>>

MemoryTypeOK == antenna_sentoff \in {0, 1} /\ ionsor \in {0, 1}

MemoryInit == antenna_sentoff \in {0, 1} /\ ionsor \in {0, 1}
==========================================================================

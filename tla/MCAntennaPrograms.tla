------------------------- MODULE MCAntennaPrograms -------------------------
(* Values for TLC: every mode the switch knows, one illegal on either side *)
(* of the range and two that no case handles.                              *)
EXTENDS AntennaPrograms

MCModes == {-1, 111} \cup (0..9) \cup {100, 109, 110}
MCJunk == {-1, 0, 7}
===========================================================================

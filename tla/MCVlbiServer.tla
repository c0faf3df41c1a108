--------------------------- MODULE MCVlbiServer ---------------------------
(* Values for TLC: two sources, two frequencies for different IF inputs,   *)
(* one of them printed with a digit lost.                                  *)
EXTENDS VlbiServer

MCTargets == {"3C84", "W3OH"}
MCLos == {811000, 2204833}
MCWraps == {"1950FSX"}
MCOffsets == {1}
MCFaults == {"S197", "S275", "FiBa"}
===========================================================================

----------------------------- MODULE MCPipeline -----------------------------
(* Values for TLC.                                                         *)
EXTENDS Pipeline

MCTargets == {"3C84", "W3OH"}
MCOneTarget == {"3C84"}
MCWraps == {"1950FSX"}
MCCalArgs == {"on", "off"}
MCLoNames == {"loa"}
MCLoFreqs == {811000}
MCModes == {<<1, 2>>}
MCLos == {0, 811000}
MCOffsets == {1, 2}
MCFaults == {"S197", "S275", "FiBa"}
MCNone == {}
=============================================================================

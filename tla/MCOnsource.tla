---------------------------- MODULE MCOnsource ----------------------------
(* Values for TLC: the modes that touch the shared words or the telescope. *)
EXTENDS Onsource

MCModes == {1, 4, 5}
MCOffsetModes == {2}
MCSourceModes == {1}
MCJunk == {0}
===========================================================================

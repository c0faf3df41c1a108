---------------------------- MODULE MCPrograms ----------------------------
(* Values for TLC: an angle on either side of zero, of every carry of one  *)
(* field into the next and of a full turn; one frequency for each filter   *)
(* and one on either side of the limit between two; blocks that fit behind *)
(* the structure alone, together, and not; for stqkr known and unknown     *)
(* receivers and LO names, a frequency that cannot be read, the one that   *)
(* means none, and a geodetic pair.                                        *)
EXTENDS Programs

MCAngles ==
    {s * (k + j) : s \in {1, -1},
                   k \in {0, 600, 6000, 36000, 360000, 24 * 360000},
                   j \in {-6, -5, 0, 4, 5}}
MCWraps == {"1950FSX"}
MCCalArgs == {"on", "off", "other"}
MCRxNames == {"6cm", "99cm"}
MCLoNames == {"loc", "lox"}
MCLoFreqs == {Unreadable, NoFreq, 811000}
MCModes == {<<0, 0>>}
MCNone == {}
MCModules == {"m1", "m2"}
MCUsers == {"fs", "antcn"}
===========================================================================

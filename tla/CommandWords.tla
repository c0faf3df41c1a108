---------------------------- MODULE CommandWords ----------------------------
(* What a command line carries, abstracted to what the programs compare.   *)

CONSTANTS Targets,  \* sources, each for its name and coordinates, as strings
          Wraps,    \* epoch and cable wrap, the last word of a line
          Offsets   \* one value for a request's azimuth and elevation offsets
=============================================================================

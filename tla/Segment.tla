------------------------------ MODULE Segment ------------------------------
(***************************************************************************)
(* stlib/stm_util.c, stalloc/stalloc.c and stlib/setup_st.c: the segment   *)
(* that outlives the programs.  stalloc makes it, a program attaches it,   *)
(* and may map two common blocks behind the structure Stcom and copy them  *)
(* in and out.  Sizes count cells of an integer.                           *)
(***************************************************************************)
EXTENDS Integers

CONSTANTS Users,        \* programs using the segment
          StcomCells,   \* sizeof(Stcom), the same for every program
          StmCells,     \* STM_SIZE
          Blocks        \* lengths a common block may have

ASSUME SegmentAssumption ==
    StcomCells \in Nat /\ StmCells \in Nat /\ Blocks \subseteq Nat

VARIABLES made,     \* the segment exists
          users,    \* per program: pc, and chars: the lengths of its blocks
          written   \* history: the cells stm_write has filled, per block

segmentVars == <<made, users, written>>

Points == {"b1", "b2"}
Lengths == [Points -> Blocks]

SegmentTypeOK ==
    /\ made \in BOOLEAN
    /\ users \in [Users -> [pc : {"new", "attached", "mapped", "exited"},
                            chars : Lengths]]
    /\ written \in [Points -> SUBSET Nat]

\* The lengths are compiled into a program, its blocks being FORTRAN's.
SegmentInit ==
    /\ made = FALSE
    /\ \E l \in [Users -> Lengths] :
          users = [u \in Users |-> [pc |-> "new", chars |-> l[u]]]
    /\ written = [b \in Points |-> {}]

Goto(u, here, next) ==
    /\ users[u].pc = here
    /\ users' = [users EXCEPT ![u].pc = next]

\* stalloc.  An existing segment is found and kept.
StmGet == made' = TRUE /\ UNCHANGED <<users, written>>

\* setup_st.  Without a segment the program exits.
StmAtt ==
    /\ \E u \in Users : Goto(u, "new", IF made THEN "attached" ELSE "exited")
    /\ UNCHANGED <<made, written>>

Start(u, b) ==
    IF b = "b1" THEN StcomCells ELSE StcomCells + users[u].chars["b1"]
Section(u, b) == Start(u, b)..(Start(u, b) + users[u].chars[b] - 1)

\* Slip: the structure itself is not counted.
TotalOfBlocks(u) == users[u].chars["b1"] + users[u].chars["b2"]
Total(u) == StcomCells + users[u].chars["b1"] + users[u].chars["b2"]

StmMap ==
    /\ \E u \in Users :
          Goto(u, "attached",
               IF Total(u) > StmCells THEN "exited" ELSE "mapped")
    /\ UNCHANGED <<made, written>>

\* stm_write; stm_read copies the same cells the other way.
StmWrite ==
    /\ \E u \in Users, b \in Points :
          /\ users[u].pc = "mapped"
          /\ written' = [written EXCEPT ![b] = @ \cup Section(u, b)]
    /\ UNCHANGED <<made, users>>

\* A block that stm_map has not been given is not found.
StmWriteUnmapped ==
    /\ \E u \in Users : Goto(u, "attached", "exited")
    /\ UNCHANGED <<made, written>>

\* stm_det, exit or death; the program may be started again.
StmDet ==
    /\ \E u \in Users :
          /\ users[u].pc # "new"
          /\ users' = [users EXCEPT ![u].pc = "new"]
    /\ UNCHANGED <<made, written>>

\* stm_rel: new programs find no segment.
StmRel == made' = FALSE /\ UNCHANGED <<users, written>>

SegmentNext ==
    \/ StmGet \/ StmAtt \/ StmMap \/ StmWrite \/ StmWriteUnmapped \/ StmDet
    \/ StmRel

SegmentSpec == SegmentInit /\ [][SegmentNext]_segmentVars

SameLayout == \A u, v \in Users : users[u].chars = users[v].chars

(* No copy of a common block reaches the words of Stcom, the flags of the  *)
(* on-source decision among them, or leaves the segment, whatever lengths  *)
(* the programs were compiled with; and when they were compiled with the   *)
(* same, no two blocks share a cell.  stm_util.c:104-123, 157.             *)
BlocksApart ==
    /\ \A b \in Points : written[b] \subseteq StcomCells..(StmCells - 1)
    /\ SameLayout => written["b1"] \cap written["b2"] = {}
=============================================================================

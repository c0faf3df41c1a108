--------------------------- MODULE ProgramProofs ---------------------------
(* Theorems about the parts of the station that share no state with the    *)
(* antenna control.                                                        *)
EXTENDS Programs, CommandProofs, AngleProofs

---------------------------------------------------------------------------
(* pcald.                                                                  *)

(* What the copy says is current, the part not yet copied apart, unless a  *)
(* wake is due or there; and a wake that arrives while a record is being   *)
(* logged has seen none before.                                            *)
CopyCurrent ==
    \/ writer = "wrote" \/ wake
    \/ pcald.pc \in {"loop", "copy"}
    \/ pcald.pc = "copydv" /\ [orders EXCEPT !.dv = pcald.copy.dv] = pcald.copy
    \/ pcald.copy = orders

PcaldInv ==
    /\ PcaldTypeOK
    /\ late <= 1 /\ (wake /\ pcald.pc = "log" => late = 0)
    /\ CopyCurrent

LEMMA PcaldTypedStep ==
    ASSUME PcaldTypeOK, [PcaldNext]_pcaldVars
    PROVE  PcaldTypeOK'
<1> USE PcaldAssumption DEF PcaldTypeOK, OrdersKept, Jump
<1>1. CASE Order
  <2>1. orders' \in Orders /\ given' \in 0..MaxOrders
    BY <1>1 DEF Order, Orders, OrdersOf
  <2> QED
    BY <1>1, <2>1 DEF Order
<1>2. CASE Wake
  BY <1>2 DEF Wake
<1>3. CASE Woken
  BY <1>3 DEF Woken
<1>4. CASE CopyOrders
  <2>1. [orders EXCEPT !.dv = pcald.copy.dv] \in Orders
    BY DEF Orders, OrdersOf
  <2> QED
    BY <1>4, <2>1 DEF CopyOrders
<1>5. CASE CopyDataValid
  <2>1. [pcald.copy EXCEPT !.dv = orders.dv] \in Orders
    BY DEF Orders, OrdersOf
  <2>2. pcald' = [pcald EXCEPT !.pc = "test",
                               !.copy = [pcald.copy EXCEPT !.dv = orders.dv]]
    BY <1>5 DEF CopyDataValid
  <2> QED
    BY <1>5, <2>1, <2>2 DEF CopyDataValid
<1>6. CASE TestOrders
  BY <1>6 DEF TestOrders
<1>7. CASE WaitWoken
  BY <1>7 DEF WaitWoken
<1>8. CASE WaitTimesOut
  BY <1>8 DEF WaitTimesOut
<1>9. CASE PollWoken
  BY <1>9 DEF PollWoken
<1>10. CASE PollEnds
  BY <1>10 DEF PollEnds
<1>11. CASE Log
  BY <1>11 DEF Log
<1>12. CASE UNCHANGED pcaldVars
  BY <1>12 DEF pcaldVars
<1> QED
  BY <1>1, <1>2, <1>3, <1>4, <1>5, <1>6, <1>7, <1>8, <1>9, <1>10, <1>11,
     <1>12 DEF PcaldNext, PcaldStep

LEMMA PcaldInvStep == PcaldInv /\ [PcaldNext]_pcaldVars => PcaldInv'
<1> SUFFICES ASSUME PcaldInv, [PcaldNext]_pcaldVars
             PROVE  (late <= 1 /\ (wake /\ pcald.pc = "log" => late = 0)
                       /\ CopyCurrent)'
  BY PcaldTypedStep DEF PcaldInv
<1> USE DEF PcaldInv, PcaldTypeOK, OrdersKept, Jump, CopyCurrent
<1>1. CASE Order
  BY <1>1 DEF Order
<1>2. CASE Wake
  BY <1>2 DEF Wake
<1>3. CASE Woken
  BY <1>3 DEF Woken
<1>4. CASE CopyOrders
  <2>1. pcald'.copy = [orders EXCEPT !.dv = pcald.copy.dv]
          /\ pcald'.pc = "copydv"
    BY <1>4 DEF CopyOrders
  <2>2. pcald'.copy.dv = pcald.copy.dv
    BY <2>1 DEF Orders, OrdersOf
  <2> QED
    BY <1>4, <2>1, <2>2 DEF CopyOrders
<1>5. CASE CopyDataValid
  <2>1. /\ pcald'.copy = [pcald.copy EXCEPT !.dv = orders.dv]
        /\ pcald.pc = "copydv" /\ pcald'.pc = "test"
    BY <1>5 DEF CopyDataValid
  <2>2. [[orders EXCEPT !.dv = pcald.copy.dv] EXCEPT !.dv = orders.dv] = orders
    BY DEF Orders, OrdersOf
  <2> QED
    BY <1>5, <2>1, <2>2 DEF CopyDataValid
<1>6. CASE TestOrders
  BY <1>6 DEF TestOrders
<1>7. CASE WaitWoken
  BY <1>7 DEF WaitWoken
<1>8. CASE WaitTimesOut
  BY <1>8 DEF WaitTimesOut
<1>9. CASE PollWoken
  BY <1>9 DEF PollWoken
<1>10. CASE PollEnds
  BY <1>10 DEF PollEnds
<1>11. CASE Log
  BY <1>11 DEF Log
<1>12. CASE UNCHANGED pcaldVars
  BY <1>12 DEF pcaldVars
<1> QED
  BY <1>1, <1>2, <1>3, <1>4, <1>5, <1>6, <1>7, <1>8, <1>9, <1>10, <1>11,
     <1>12 DEF PcaldNext, PcaldStep

LEMMA PcaldInvInit == PcaldInit => PcaldInv
<1>1. Standing \in Orders /\ 0 \in 0..MaxOrders
  BY PcaldAssumption DEF Standing, Orders, OrdersOf
<1>2. ASSUME PcaldInit
      PROVE  /\ pcald.pc = "loop"
             /\ pcald \in [pc : {"loop", "copy", "copydv", "test", "wait",
                                "poll", "log"},
                           copy : Orders, polls : BOOLEAN]
  BY <1>1, <1>2 DEF PcaldInit
<1>3. PcaldInit => /\ orders \in Orders /\ given \in 0..MaxOrders
                   /\ writer = "idle" /\ wake \in BOOLEAN /\ late = 0
  BY <1>1 DEF PcaldInit
<1> QED
  BY <1>2, <1>3 DEF PcaldInv, PcaldTypeOK, CopyCurrent

(* pcald logs at most one record after a wake has arrived, and works with  *)
(* orders that have been replaced only until it takes the wake.            *)
THEOREM PcaldLateByOne == PcaldSpec => []LateByOneRecord
<1>1. PcaldInv => LateByOneRecord
  BY DEF PcaldInv, PcaldTypeOK, CopyCurrent, LateByOneRecord
<1> QED
  BY <1>1, PcaldInvInit, PcaldInvStep, PTL DEF PcaldSpec

---------------------------------------------------------------------------
(* cheks.                                                                  *)

CheksInv == CheksTypeOK /\ ReportsChecked

LEMMA CheksInvStep == CheksInv /\ [CheksNext]_cheksVars => CheksInv'
<1> SUFFICES ASSUME CheksInv, [CheksNext]_cheksVars
             PROVE  CheksInv'
  OBVIOUS
<1> USE DEF CheksInv, CheksTypeOK, CheksPcs, ReportsChecked, Skip, Shared
<1>1. CASE SetCheck
  BY <1>1 DEF SetCheck
<1>2. CASE FsTakes \/ FsPuts
  BY <1>2 DEF FsTakes, FsPuts
<1>3. CASE Called
  BY <1>3 DEF Called
<1>4. CASE NextModule
  BY <1>4 DEF NextModule
<1>5. CASE AllDone
  BY <1>5 DEF AllDone
<1>6. CASE Checking
  BY <1>6 DEF Checking
<1>7. CASE RememberChecks
  BY <1>7 DEF RememberChecks
<1>8. CASE Take
  BY <1>8 DEF Take
<1>9. CASE Put
  BY <1>9 DEF Put
<1>10. CASE Retest
  <2>1. StillChecking => cheks.checks \in Settings
    BY CheksAssumption DEF StillChecking
  <2> QED
    BY <1>10, <2>1 DEF Retest
<1>11. CASE ReportErrors
  BY <1>11 DEF ReportErrors
<1>12. CASE UNCHANGED cheksVars
  BY <1>12 DEF cheksVars
<1> QED
  BY <1>1, <1>2, <1>3, <1>4, <1>5, <1>6, <1>7, <1>8, <1>9, <1>10, <1>11,
     <1>12 DEF CheksNext

LEMMA CheksInvInit == CheksInit => CheksInv
  BY DEF CheksInit, CheksInv, CheksTypeOK, CheksPcs, ReportsChecked

(* cheks reports only what it took with checking on, and never keeps the   *)
(* semaphore.                                                              *)
THEOREM CheksReportsChecked == CheksSpec => []ReportsChecked
<1>1. CheksInv => ReportsChecked
  BY DEF CheksInv
<1> QED
  BY <1>1, CheksInvInit, CheksInvStep, PTL DEF CheksSpec

---------------------------------------------------------------------------
(* stm_util.                                                               *)

(* Who has mapped its blocks fits; programs of one layout write to the     *)
(* same cells.                                                             *)
SegmentInv ==
    /\ SegmentTypeOK /\ BlocksApart
    /\ \A u \in Users : users[u].pc = "mapped" => Total(u) <= StmCells
    /\ SameLayout => \A u \in Users, b \in Points : written[b] \subseteq Section(u, b)

LEMMA LengthsNatural ==
    ASSUME SegmentTypeOK, NEW u \in Users
    PROVE  /\ users[u].chars["b1"] \in Nat /\ users[u].chars["b2"] \in Nat
           /\ StcomCells \in Nat /\ StmCells \in Nat /\ Total(u) \in Nat
<1>1. users[u].chars \in Lengths
  BY DEF SegmentTypeOK
<1>2. users[u].chars["b1"] \in Nat /\ users[u].chars["b2"] \in Nat
  BY <1>1, SegmentAssumption DEF Lengths, Points
<1> QED
  BY <1>2, SegmentAssumption DEF Total

(* The sections of a program's blocks lie behind the structure and apart.  *)
LEMMA SectionsApart ==
    ASSUME SegmentTypeOK, NEW u \in Users
    PROVE  /\ Section(u, "b1") \cap Section(u, "b2") = {}
           /\ \A b \in Points : Section(u, b) \subseteq StcomCells..(Total(u) - 1)
  BY LengthsNatural DEF Section, Start, Total, Points

LEMMA SegmentInvStep == SegmentInv /\ [SegmentNext]_segmentVars => SegmentInv'
<1> SUFFICES ASSUME SegmentInv, [SegmentNext]_segmentVars
             PROVE  SegmentInv'
  OBVIOUS
<1>1. ASSUME NEW u \in Users, NEW next \in {"attached", "mapped", "exited", "new"},
             users' = [users EXCEPT ![u].pc = next],
             next = "mapped" => Total(u) <= StmCells,
             made' \in BOOLEAN, written' = written
      PROVE  SegmentInv'
  <2>1. users' \in [Users -> [pc : {"new", "attached", "mapped", "exited"},
                              chars : Lengths]]
    BY <1>1 DEF SegmentInv, SegmentTypeOK
  <2>2. \A v \in Users : users'[v].chars = users[v].chars
    BY <1>1 DEF SegmentInv, SegmentTypeOK
  <2>3. \A v \in Users : Total(v)' = Total(v)
    BY <2>2 DEF Total
  <2>4. \A v \in Users, b \in Points : Section(v, b)' = Section(v, b)
    BY <2>2 DEF Section, Start
  <2>5. SameLayout' = SameLayout
    BY <2>2 DEF SameLayout
  <2>6. \A v \in Users : v # u => users'[v].pc = users[v].pc
    BY <1>1 DEF SegmentInv, SegmentTypeOK
  <2>7. users'[u].pc = next
    BY <1>1 DEF SegmentInv, SegmentTypeOK
  <2>8. (\A v \in Users : users[v].pc = "mapped" => Total(v) <= StmCells)'
    BY <1>1, <2>3, <2>6, <2>7 DEF SegmentInv
  <2>9. (SameLayout => \A v \in Users, b \in Points :
                          written[b] \subseteq Section(v, b))'
    BY <1>1, <2>4, <2>5 DEF SegmentInv
  <2>10. SegmentTypeOK'
    BY <1>1, <2>1 DEF SegmentInv, SegmentTypeOK
  <2>11. BlocksApart'
    BY <1>1, <2>5 DEF SegmentInv, BlocksApart
  <2> QED
    BY <2>8, <2>9, <2>10, <2>11 DEF SegmentInv
<1>2. CASE StmGet \/ StmRel \/ UNCHANGED segmentVars
  <2>1. made' \in BOOLEAN /\ UNCHANGED <<users, written>>
    BY <1>2 DEF StmGet, StmRel, segmentVars, SegmentInv, SegmentTypeOK
  <2>2. SegmentTypeOK'
    BY <2>1 DEF SegmentInv, SegmentTypeOK
  <2>3. BlocksApart' /\ SameLayout' = SameLayout
    BY <2>1 DEF SegmentInv, BlocksApart, SameLayout
  <2>4. \A u \in Users :
           /\ Total(u)' = Total(u)
           /\ \A b \in Points : Section(u, b)' = Section(u, b)
    BY <2>1 DEF Total, Section, Start
  <2> QED
    BY <2>1, <2>2, <2>3, <2>4 DEF SegmentInv
<1>3. CASE StmAtt
  BY <1>1, <1>3 DEF StmAtt, Goto, SegmentInv, SegmentTypeOK
<1>4. CASE StmMap
  <2>1. PICK u \in Users :
           Goto(u, "attached", IF Total(u) > StmCells THEN "exited" ELSE "mapped")
    BY <1>4 DEF StmMap
  <2>2. Total(u) \in Nat /\ StmCells \in Nat
    BY LengthsNatural DEF SegmentInv
  <2>3. CASE Total(u) > StmCells
    BY <1>1, <1>4, <2>1, <2>3 DEF StmMap, Goto, SegmentInv, SegmentTypeOK
  <2>4. CASE Total(u) <= StmCells
    BY <1>1, <1>4, <2>1, <2>2, <2>4 DEF StmMap, Goto, SegmentInv, SegmentTypeOK
  <2> QED
    BY <2>2, <2>3, <2>4
<1>5. CASE StmWrite
  <2>1. PICK u \in Users, b \in Points :
           /\ users[u].pc = "mapped"
           /\ written' = [written EXCEPT ![b] = @ \cup Section(u, b)]
    BY <1>5 DEF StmWrite
  <2>2. UNCHANGED <<made, users>>
    BY <1>5 DEF StmWrite
  <2>3. Total(u) <= StmCells /\ Total(u) \in Nat /\ StmCells \in Nat
          /\ StcomCells \in Nat
    BY <2>1, LengthsNatural DEF SegmentInv
  <2>4. Section(u, b) \subseteq StcomCells..(StmCells - 1)
    BY <2>3, SectionsApart DEF SegmentInv
  <2>5. \A c \in Points : written'[c] \subseteq written[c] \cup Section(u, c)
    BY <2>1 DEF SegmentInv, SegmentTypeOK
  <2>6. written' \in [Points -> SUBSET Nat]
    BY <2>1, <2>3, <2>4 DEF SegmentInv, SegmentTypeOK
  <2>7. \A c \in Points : written'[c] \subseteq StcomCells..(StmCells - 1)
    BY <2>1, <2>4 DEF SegmentInv, SegmentTypeOK, BlocksApart
  <2>8. ASSUME SameLayout
        PROVE  \A v \in Users, c \in Points : written'[c] \subseteq Section(v, c)
    <3>1. \A v \in Users, c \in Points : Section(v, c) = Section(u, c)
      BY <2>8 DEF SameLayout, Section, Start
    <3>2. \A v \in Users, c \in Points : written[c] \subseteq Section(v, c)
      BY <2>8 DEF SegmentInv
    <3> QED
      BY <2>5, <3>1, <3>2
  <2>9. SameLayout => written'["b1"] \cap written'["b2"] = {}
    <3>1. SameLayout => written'["b1"] \subseteq Section(u, "b1")
                          /\ written'["b2"] \subseteq Section(u, "b2")
      BY <2>8 DEF Points
    <3> QED
      BY <3>1, SectionsApart DEF SegmentInv
  <2>10. BlocksApart' /\ SegmentTypeOK'
    BY <2>2, <2>6, <2>7, <2>9
       DEF SegmentInv, SegmentTypeOK, BlocksApart, SameLayout
  <2>11. (\A v \in Users : users[v].pc = "mapped" => Total(v) <= StmCells)'
    BY <2>2 DEF SegmentInv, Total
  <2>12. (SameLayout => \A v \in Users, c \in Points :
                           written[c] \subseteq Section(v, c))'
    <3>1. SameLayout' = SameLayout
            /\ \A v \in Users, c \in Points : Section(v, c)' = Section(v, c)
      BY <2>2 DEF SameLayout, Section, Start
    <3> QED
      BY <2>8, <3>1
  <2> QED
    BY <2>10, <2>11, <2>12 DEF SegmentInv
<1>6. CASE StmWriteUnmapped
  BY <1>1, <1>6 DEF StmWriteUnmapped, Goto, SegmentInv, SegmentTypeOK
<1>7. CASE StmDet
  BY <1>1, <1>7 DEF StmDet, SegmentInv, SegmentTypeOK
<1> QED
  BY <1>2, <1>3, <1>4, <1>5, <1>6, <1>7 DEF SegmentNext

LEMMA SegmentInvInit == SegmentInit => SegmentInv
<1> SUFFICES ASSUME SegmentInit PROVE SegmentInv
  OBVIOUS
<1>1. /\ \A u \in Users : users[u].pc = "new"
      /\ users \in [Users -> [pc : {"new", "attached", "mapped", "exited"},
                              chars : Lengths]]
  BY DEF SegmentInit
<1>2. written = [b \in Points |-> {}] /\ made \in BOOLEAN
  BY DEF SegmentInit
<1>3. SegmentTypeOK
  BY <1>1, <1>2 DEF SegmentTypeOK
<1>4. BlocksApart
  BY <1>2 DEF BlocksApart, Points
<1> QED
  BY <1>1, <1>2, <1>3, <1>4 DEF SegmentInv

(* The common blocks stay behind the structure and within the segment for  *)
(* programs of any layouts, and apart for programs of one.                 *)
THEOREM SegmentBlocksApart == SegmentSpec => []BlocksApart
<1>1. SegmentInv => BlocksApart
  BY DEF SegmentInv
<1> QED
  BY <1>1, SegmentInvInit, SegmentInvStep, PTL DEF SegmentSpec
---------------------------------------------------------------------------
(* set_fiba.                                                               *)

(* The channels agree unless something went astray, but for the moment     *)
(* between the two settings.                                               *)
Filtered ==
    /\ fiba.pc # "set16" => astray \/ bank["08"] = bank["16"]
    /\ fiba.pc \in {"set16", "second", "returned"}
          => astray \/ bank["08"] = fiba.filter_req
    /\ fiba.pc \in {"compare", "returned"} => fiba.modes = bank

FibaInv == FibaTypeOK /\ Filtered

LEMMA FilterReqIsFilter == \A sumlo : FilterReq(sumlo) \in Filters
  BY DEF FilterReq, Filters

LEMMA FibaInvStep == FibaInv /\ [FibaNext]_fibaVars => FibaInv'
<1> SUFFICES ASSUME FibaInv, [FibaNext]_fibaVars
             PROVE  FibaInv'
  OBVIOUS
<1> USE DEF FibaInv, FibaTypeOK, FibaPcs, Filtered, FibaAt
<1>1. CASE SetFiba
  <2>1. PICK f \in Filters :
           fiba' = [fiba EXCEPT !.pc = "first", !.filter_req = f]
    BY <1>1, FilterReqIsFilter DEF SetFiba
  <2> QED
    BY <1>1, <2>1 DEF SetFiba
<1>2. CASE AskFirst
  BY <1>2 DEF AskFirst, Ask
<1>3. CASE NoFirstAnswer \/ FirstUnreadable
  BY <1>3 DEF NoFirstAnswer, FirstUnreadable
<1>4. CASE Compare
  BY <1>4 DEF Compare
<1>5. CASE Set08
  BY <1>5 DEF Set08, SetChannel
<1>6. CASE Set08Lost
  BY <1>6 DEF Set08Lost, SettingLost
<1>7. CASE Set16
  BY <1>7 DEF Set16, SetChannel
<1>8. CASE Set16Lost
  BY <1>8 DEF Set16Lost, SettingLost
<1>9. CASE AskSecond
  BY <1>9 DEF AskSecond, Ask
<1>10. CASE NoSecondAnswer
  BY <1>10 DEF NoSecondAnswer
<1>11. CASE FibaEnds
  BY <1>11 DEF FibaEnds
<1>12. CASE UNCHANGED fibaVars
  BY <1>12 DEF fibaVars
<1> QED
  BY <1>1, <1>2, <1>3, <1>4, <1>5, <1>6, <1>7, <1>8, <1>9, <1>10, <1>11,
     <1>12 DEF FibaNext

LEMMA FibaInvInit == FibaInit => FibaInv
<1> SUFFICES ASSUME FibaInit PROVE FibaInv
  OBVIOUS
<1>1. /\ bank \in [{"08", "16"} -> Filters]
      /\ astray = (bank["08"] # bank["16"]) /\ astray \in BOOLEAN
  BY DEF FibaInit
<1>2. fiba = [pc |-> "idle", filter_req |-> bank["08"], modes |-> bank]
  BY DEF FibaInit
<1>3. FibaTypeOK
  BY <1>1, <1>2 DEF FibaTypeOK, FibaPcs
<1>4. Filtered
  BY <1>1, <1>2 DEF Filtered
<1> QED
  BY <1>3, <1>4 DEF FibaInv

(* Comparing one channel is enough as long as no setting goes astray, for  *)
(* every set of frequencies.                                               *)
THEOREM FiltersAreFollowed == FibaSpec => []FiltersFollow
<1>1. FibaInv => FiltersFollow
  BY DEF FibaInv, FibaTypeOK, Filtered, FiltersFollow
<1> QED
  BY <1>1, FibaInvInit, FibaInvStep, PTL DEF FibaSpec

---------------------------------------------------------------------------
(* mk5logd.                                                                *)

(* logp names the copy in hand whenever the daemon looks at it, and the    *)
(* number of a copy not yet started is free.                               *)
CopyKnown ==
    /\ signalled \subseteq alive
    /\ mk5.pc \in {"check", "stale"} => mk5.logp = mk5.copy
    /\ mk5.pc \in {"ssh", "logp", "check", "stale"} => mk5.copy > 0
    /\ mk5.pc = "tail" => mk5.copy < MaxCopies

Mk5Inv == Mk5TypeOK /\ CopyKnown /\ CopiersTold

(* Stopping the copy in hand leaves nobody untold.                         *)
LEMMA StopTellsAll ==
    ASSUME Mk5Inv, Stop(mk5.copy)
    PROVE  /\ alive \subseteq signalled' /\ signalled' \subseteq alive
           /\ signalled' \subseteq Processes
  BY DEF Mk5Inv, Mk5TypeOK, CopyKnown, CopiersTold, Stop, Pair, Processes

LEMMA Mk5InvStep == Mk5Inv /\ [Mk5Next]_mk5Vars => Mk5Inv'
<1> SUFFICES ASSUME Mk5Inv, [Mk5Next]_mk5Vars
             PROVE  Mk5Inv'
  OBVIOUS
<1> USE Mk5logdAssumption
    DEF Mk5Inv, Mk5TypeOK, CopyKnown, CopiersTold, World, Mk5Pcs
<1>1. CASE LogChanges
  BY <1>1 DEF LogChanges
<1>2. CASE ProcessEnds
  BY <1>2 DEF ProcessEnds
<1>3. CASE ProcessComplains
  BY <1>3 DEF ProcessComplains
<1>4. CASE ChooseLog
  BY <1>4 DEF ChooseLog
<1>5. CASE StartTail
  <2>1. mk5' = [mk5 EXCEPT !.pc = "ssh", !.copy = mk5.copy + 1]
          /\ mk5.copy + 1 \in Copies
    BY <1>5 DEF StartTail, Copies
  <2>2. mk5'.copy = mk5.copy + 1 /\ <<mk5.copy + 1, "tail">> \in Processes
    BY <2>1 DEF Processes
  <2>3. alive' = alive \cup {<<mk5.copy + 1, "tail">>}
    BY <1>5, <2>2 DEF StartTail
  <2>4. alive \subseteq signalled /\ signalled' = signalled /\ mk5.logp = mk5'.logp
          /\ mk5'.pc = "ssh" /\ errs' \in BOOLEAN /\ log' = log
    BY <1>5, <2>1 DEF StartTail
  <2>5. CopiersTold'
    BY <2>2, <2>3, <2>4 DEF CopiersTold
  <2>6. CopyKnown'
    BY <2>1, <2>2, <2>3, <2>4 DEF CopyKnown, Copies
  <2>7. mk5' \in [pc : Mk5Pcs, copy : 0..MaxCopies, logp : 0..MaxCopies,
                 failures : 0..(MaxFailures + 1)]
    <3>1. mk5.copy + 1 \in 0..MaxCopies
      BY <2>1 DEF Copies
    <3> QED
      BY <2>1, <3>1
  <2> QED
    BY <2>2, <2>3, <2>4, <2>5, <2>6, <2>7
<1>6. CASE StartSsh
  <2>1. <<mk5.copy, "ssh">> \in Processes
    BY <1>6 DEF StartSsh, Processes, Copies
  <2> QED
    BY <1>6, <2>1 DEF StartSsh
<1>7. CASE SetLogp
  BY <1>7 DEF SetLogp
<1>8. CASE TooManyFailures
  BY <1>8, StopTellsAll DEF TooManyFailures
<1>9. CASE TailEnded
  BY <1>9, StopTellsAll DEF TailEnded
<1>10. CASE Errors
  <2>1. mk5.failures + 1 \in 0..(MaxFailures + 1)
    BY <1>10 DEF Errors, MaxFailures
  <2> QED
    BY <1>10, <2>1, StopTellsAll DEF Errors
<1>11. CASE AllWell
  <2>1. 0 \in 0..(MaxFailures + 1)
    BY DEF MaxFailures
  <2> QED
    BY <1>11, <2>1 DEF AllWell
<1>12. CASE GiveUpStale
  <2>1. 0 \in 0..MaxCopies
    OBVIOUS
  <2> QED
    BY <1>12, <2>1, StopTellsAll DEF GiveUpStale
<1>13. CASE NotStale
  BY <1>13 DEF NotStale
<1>14. CASE Finish
  <2>1. signalled' \subseteq alive /\ signalled \subseteq signalled' /\ signalled' \subseteq Processes
    BY <1>14 DEF Finish, Stop
  <2>2. mk5'.pc = "exited" /\ mk5'.copy = mk5.copy /\ mk5'.logp = mk5.logp
    BY <1>14 DEF Finish
  <2>3. mk5.logp = mk5.copy => alive \subseteq signalled'
    <3>1. CASE mk5.logp = 0
      BY <1>14, <3>1 DEF Finish, Processes, Copies
    <3>2. CASE mk5.logp # 0
      BY <1>14, <3>2, StopTellsAll DEF Finish
    <3> QED
      BY <3>1, <3>2
  <2> QED
    BY <1>14, <2>1, <2>2, <2>3 DEF Finish
<1>15. CASE UNCHANGED mk5Vars
  BY <1>15 DEF mk5Vars
<1> QED
  BY <1>1, <1>2, <1>3, <1>4, <1>5, <1>6, <1>7, <1>8, <1>9, <1>10, <1>11,
     <1>12, <1>13, <1>14, <1>15 DEF Mk5Next, Mk5Step

LEMMA Mk5InvInit == Mk5Init => Mk5Inv
<1>1. 0 \in 0..MaxCopies /\ 0 \in 0..(MaxFailures + 1)
  BY Mk5logdAssumption DEF MaxFailures
<1> SUFFICES ASSUME Mk5Init PROVE Mk5Inv
  OBVIOUS
<1>2. /\ mk5.pc = "choose" /\ mk5.logp = 0
      /\ mk5 \in [pc : Mk5Pcs, copy : 0..MaxCopies, logp : 0..MaxCopies,
                  failures : 0..(MaxFailures + 1)]
  BY <1>1 DEF Mk5Init, Mk5Pcs
<1>3. alive = {} /\ signalled = {} /\ errs \in BOOLEAN /\ log \in {"recent", "stale"}
  BY DEF Mk5Init
<1> QED
  BY <1>2, <1>3 DEF Mk5Inv, Mk5TypeOK, CopyKnown, CopiersTold

(* mk5logd leaves no copier untold but those of the copy in hand, however  *)
(* many copies it starts.                                                  *)
THEOREM Mk5CopiersTold == Mk5Spec => []CopiersTold
<1>1. Mk5Inv => CopiersTold
  BY DEF Mk5Inv
<1> QED
  BY <1>1, Mk5InvInit, Mk5InvStep, PTL DEF Mk5Spec

---------------------------------------------------------------------------
(* The parts together.  Each keeps its invariant by its own steps, and the *)
(* steps of the others leave its variables alone.                          *)

ProgramsInv ==
    /\ PcaldInv /\ CheksInv /\ AngleInv /\ Aligned /\ SegmentInv
    /\ CommandInv /\ CommandTypeOK /\ FibaInv /\ Mk5Inv

LEMMA ProgramsInvInit == ProgramsInit => ProgramsInv
<1>1. ProgramsInit => /\ PcaldInit /\ CheksInit /\ RadInit /\ SegmentInit
                      /\ StqkrInit /\ FibaInit /\ Mk5Init
  BY DEF ProgramsInit
<1> QED
  BY <1>1, PcaldInvInit, CheksInvInit, AngleInvInit, AlignedInit,
     SegmentInvInit, CommandInitHolds, CommandStartsTyped, FibaInvInit,
     Mk5InvInit DEF ProgramsInv

\* A step of the whole, seen by each part.
LEMMA EveryPartStepsOrRests ==
  [ProgramsNext]_programVars =>
      /\ [PcaldNext]_pcaldVars /\ [CheksNext]_cheksVars /\ [RadNext]_rad
      /\ [SegmentNext]_segmentVars /\ [CommandNext]_commandVars
      /\ [FibaNext]_fibaVars /\ [Mk5Next]_mk5Vars
<1> SUFFICES ASSUME [ProgramsNext]_programVars
             PROVE  /\ [PcaldNext]_pcaldVars /\ [CheksNext]_cheksVars
                    /\ [RadNext]_rad /\ [SegmentNext]_segmentVars
                    /\ [CommandNext]_commandVars /\ [FibaNext]_fibaVars
                    /\ [Mk5Next]_mk5Vars
  OBVIOUS
<1>1. CASE PcaldRuns
  BY <1>1 DEF PcaldRuns
<1>2. CASE CheksRuns
  BY <1>2 DEF CheksRuns
<1>3. CASE Rad2strRuns
  BY <1>3 DEF Rad2strRuns
<1>4. CASE SegmentRuns
  BY <1>4 DEF SegmentRuns
<1>5. CASE CommandRuns
  BY <1>5 DEF CommandRuns
<1>6. CASE FilterBankRuns
  BY <1>6 DEF FilterBankRuns
<1>7. CASE Mk5logdRuns
  BY <1>7 DEF Mk5logdRuns
<1>8. CASE UNCHANGED programVars
  BY <1>8 DEF programVars
<1> QED
  BY <1>1, <1>2, <1>3, <1>4, <1>5, <1>6, <1>7, <1>8 DEF ProgramsNext

LEMMA ProgramsInvStep ==
  ProgramsInv /\ [ProgramsNext]_programVars => ProgramsInv'
<1> SUFFICES ASSUME ProgramsInv, [ProgramsNext]_programVars
             PROVE  ProgramsInv'
  OBVIOUS
<1>1. PcaldInv' /\ CheksInv' /\ AngleInv' /\ Aligned'
  BY EveryPartStepsOrRests, PcaldInvStep, CheksInvStep, AngleInvStep,
     AlignedStep DEF ProgramsInv
<1>2. SegmentInv' /\ CommandInv' /\ CommandTypeOK' /\ FibaInv' /\ Mk5Inv'
  BY EveryPartStepsOrRests, SegmentInvStep, CommandInvStep, CommandTypedStep,
     FibaInvStep, Mk5InvStep DEF ProgramsInv
<1> QED
  BY <1>1, <1>2 DEF ProgramsInv

(* The inductive invariant of the parts: pcald.c, cheks.c, rad2str.c,      *)
(* stm_util.c, stqkr.c with antcn.c, set_fiba and mk5logd.py.              *)
THEOREM ProgramsInvariant == ProgramsSpec => []ProgramsInv
  BY ProgramsInvInit, ProgramsInvStep, PTL DEF ProgramsSpec

(* The types of the parts, whichever runs: for every number of orders,     *)
(* programs, cells and copies, and every set of arguments and angles.      *)
THEOREM ProgramTypesHold == ProgramsSpec => []ProgramsTypeOK
<1>1. ProgramsInv => ProgramsTypeOK
  BY DEF ProgramsInv, PcaldInv, CheksInv, AngleInv, SegmentInv, FibaInv,
         Mk5Inv, ProgramsTypeOK
<1> QED
  BY <1>1, ProgramsInvariant, PTL

(* What each part promises alone it promises among the others.             *)
THEOREM ProgramsKeepPromises ==
  ProgramsSpec => /\ [](LateByOneRecord /\ ReportsChecked)
                  /\ [](NearestText /\ TextAligned)
                  /\ [](BlocksApart /\ CalWordsAgree)
                  /\ [](FiltersFollow /\ CopiersTold)
<1>1. ProgramsInv => LateByOneRecord /\ ReportsChecked
  BY DEF ProgramsInv, PcaldInv, PcaldTypeOK, CopyCurrent, LateByOneRecord,
         CheksInv
<1>2. ProgramsInv => NearestText /\ TextAligned
  BY DEF ProgramsInv, AngleInv, Aligned
<1>3. ProgramsInv => BlocksApart /\ CalWordsAgree
  BY DEF ProgramsInv, SegmentInv, CommandInv
<1>4. ProgramsInv => FiltersFollow /\ CopiersTold
  BY DEF ProgramsInv, FibaInv, FibaTypeOK, Filtered, FiltersFollow, Mk5Inv
<1> QED
  BY <1>1, <1>2, <1>3, <1>4, ProgramsInvariant, PTL
=============================================================================

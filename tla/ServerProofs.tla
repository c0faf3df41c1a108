--------------------------- MODULE ServerProofs ---------------------------
(***************************************************************************)
(* Proofs about VlbiServer: its types, and that be4 and the IF box have    *)
(* what was last asked for.                                                *)
(*                                                                         *)
(* The argument: whatever the server remembers as a real line is what be4  *)
(* was last told (or POINTING came since) and what the IF box was switched *)
(* for, and the last real line handled is the one it remembers.  A line    *)
(* equal to the remembered one, or to its fields, may therefore be kept    *)
(* from be4.  Offsets, sourceless lines and restarts make the server       *)
(* remember no real line at all.                                           *)
(***************************************************************************)
EXTENDS VlbiServer, TLAPS

\* The server remembers a real line.
RealText == oldstring \in Texts /\ Real(oldstring)

\* Its fields are those of the text; a source is remembered with a text only.
FieldsFit ==
    /\ RealText =>
        /\ osource = oldstring.source
        /\ osumlo = oldstring.lo
        /\ OnOff(otcal) = OnOff(oldstring.tcal)
    /\ osource \in Targets /\ osumlo # NoLo => RealText

\* be4 was told it.
Be4Fits ==
    RealText /\ ~failed /\ be4 # Pointing =>
        /\ be4 \in Texts
        /\ be4.source = oldstring.source
        /\ be4.lo = oldstring.lo
        /\ OnOff(be4.tcal) = OnOff(oldstring.tcal)

\* The IF box was switched for it.
IfBoxFits ==
    RealText /\ ~failed /\ ~ifFault =>
        \A f \in Los : Tenth(f) = oldstring.lo => ifBox = IfInput(f)

\* The last real line handled is the one remembered.
WantedIsRemembered ==
    owed =>
        /\ wanted \in Lines
        /\ ~failed =>
            /\ RealText
            /\ oldstring.source = wanted.source
            /\ oldstring.lo = Tenth(wanted.lo)
            /\ OnOff(oldstring.tcal) = wanted.tcal

ServerInv ==
    ServerTypeOK /\ FieldsFit /\ Be4Fits /\ IfBoxFits /\ WantedIsRemembered

---------------------------------------------------------------------------
(* Texts.                                                                 *)

LEMMA TenthTwice == \A f \in Int : Tenth(f) \in Int /\ Tenth(Tenth(f)) = Tenth(f)
  BY DEF Tenth

LEMMA TenthOfNone == Tenth(NoLo) = NoLo
  <1>1. \A x \in Int : x + 95 = 0 => (x \div 10) * 10 = -100
    <2>1. \A x \in Int : /\ x \div 10 \in Int
                         /\ 10 * (x \div 10) <= x /\ x < 10 * (x \div 10) + 10
      OBVIOUS
    <2> QED
      BY <2>1
  <1> DEFINE y == NoLo + 5
  <1>2. y \in Int /\ y + 95 = 0
    BY DEF NoLo
  <1> HIDE DEF y
  <1>3. (y \div 10) * 10 = -100
    BY <1>1, <1>2
  <1> QED
    BY <1>3 DEF y, Tenth, NoLo

LEMMA StartTextTyped == StartText \in Texts /\ ~Real(StartText)
  BY TenthOfNone DEF StartText, Texts, Real

\* A line's text has its source, its rounded frequency and the cal word given.
LEMMA TextOfLine ==
  ASSUME NEW l \in Lines, NEW c \in {0, 1, 10, 11}
  PROVE  /\ Text(l, c) \in Texts
         /\ Text(l, c).source = l.source
         /\ Text(l, c).lo = Tenth(l.lo)
         /\ Text(l, c).tcal = c
         /\ Text(l, c).pcal = l.pcal
         /\ Real(l) => Real(Text(l, c))
  <1>1. l.source \in Targets \cup {NoTarget} /\ l.lo \in Los
        /\ l.pcal \in {0, 1} /\ l.wrap \in Wraps \cup {"1950FSX"}
    BY DEF Lines
  <1>2. l.lo # NoLo => Tenth(l.lo) # NoLo
    BY <1>1, TenthOfNone, ServerAssumption
  <1> QED
    BY <1>1, <1>2 DEF Text, Texts, Real

LEMMA OffsetTextIsNoText == OffsetText \notin Texts
  <1>1. \A t \in Texts : t.kind = "line"
    BY DEF Texts
  <1>2. OffsetText.kind = "offset text"
    BY DEF OffsetText
  <1> QED
    BY <1>1, <1>2

---------------------------------------------------------------------------
(* The initial state.                                                     *)

LEMMA InitHolds == ServerInit => ServerInv
  <1> SUFFICES ASSUME ServerInit PROVE ServerInv
    OBVIOUS
  <1>1. oldstring \in Texts /\ ~RealText
    BY StartTextTyped DEF ServerInit, RealText
  <1>2. ServerTypeOK
    <2>1. osumlo \in Rounded /\ be4 \in Told
      BY DEF ServerInit, Rounded, Told
    <2> QED
      BY <1>1, <2>1 DEF ServerInit, ServerTypeOK
  <1>3. osource \notin Targets /\ owed = FALSE
    BY ServerAssumption DEF ServerInit
  <1> QED
    BY <1>1, <1>2, <1>3 DEF ServerInv, FieldsFit, Be4Fits, IfBoxFits,
                            WantedIsRemembered

---------------------------------------------------------------------------
(* What the branches of a command line have in common.                    *)

\* A real line that is remembered, whatever its text says of cal on and off.
LEMMA RealLineKept ==
  ASSUME NEW l \in Lines, Real(l),
         NEW c \in {0, 1, 10, 11}, OnOff(c) = l.tcal,
         NEW t \in {0, 1, 11}, OnOff(t) = l.tcal,
         TakesLine(l), Remember(Text(l, c), t)
  PROVE  /\ RealText' /\ FieldsFit' /\ WantedIsRemembered'
         /\ oldstring' = Text(l, c)
         /\ oldstring' \in Texts
         /\ oldstring'.source = l.source
         /\ oldstring'.lo = Tenth(l.lo)
         /\ OnOff(oldstring'.tcal) = l.tcal
  <1>1. /\ oldstring' = Text(l, c) /\ osource' = Text(l, c).source
        /\ osumlo' = Text(l, c).lo /\ otcal' = t
    BY DEF Remember
  <1>2. /\ Text(l, c) \in Texts /\ Text(l, c).source = l.source
        /\ Text(l, c).lo = Tenth(l.lo) /\ Text(l, c).tcal = c
        /\ Real(Text(l, c))
    BY TextOfLine
  <1>3. RealText'
    BY <1>1, <1>2 DEF RealText, Real
  <1>4. FieldsFit'
    BY <1>1, <1>2, <1>3 DEF FieldsFit
  <1>5. WantedIsRemembered'
    BY <1>1, <1>2, <1>3 DEF WantedIsRemembered, TakesLine
  <1> QED
    BY <1>1, <1>2, <1>3, <1>4, <1>5

\* Any line that is remembered leaves the fields well typed.
LEMMA LineTyped ==
  ASSUME ServerTypeOK, NEW l \in Lines, TakesLine(l),
         NEW c \in {0, 1, 10, 11}, NEW t \in {0, 1, 11},
         Remember(Text(l, c), t),
         be4' \in Texts \cup {be4}, ifFault' \in BOOLEAN, failed' \in BOOLEAN
  PROVE  ServerTypeOK'
  <1>1. /\ Text(l, c) \in Texts /\ Text(l, c).source = l.source
        /\ Text(l, c).lo = Tenth(l.lo) /\ Text(l, c).pcal = l.pcal
    BY TextOfLine
  <1>2. /\ oldstring' = Text(l, c) /\ osource' = l.source
        /\ osumlo' = Tenth(l.lo) /\ otcal' = t /\ ophascal' = l.pcal
    BY <1>1 DEF Remember
  <1>3. /\ l.source \in Targets \cup {NoTarget} /\ l.lo \in Los
        /\ l.pcal \in {0, 1}
    BY DEF Lines
  <1>4. osumlo' \in Rounded
    BY <1>2, <1>3 DEF Rounded
  <1>5. be4' \in Told
    BY DEF Told, ServerTypeOK
  <1>6. /\ up' = up /\ be4Sock' = TRUE /\ azm' = azm
        /\ owed' = Real(l)
    BY DEF TakesLine
  <1>7. Real(l) \in BOOLEAN
    BY DEF Real
  <1> QED
    BY <1>1, <1>2, <1>3, <1>4, <1>5, <1>6, <1>7 DEF ServerTypeOK

\* After SwitchIf the IF box has the input of the line, or its fault is known.
LEMMA SwitchedFits ==
  ASSUME NEW l \in Lines, SwitchIf(l), oldstring'.lo = Tenth(l.lo)
  PROVE  IfBoxFits' /\ ifFault' \in BOOLEAN
  <1>1. l.lo \in Los
    BY DEF Lines
  <1>2. \A f \in Los : Tenth(f) = Tenth(l.lo) => IfInput(f) = IfInput(l.lo)
    BY <1>1, ServerAssumption
  <1> QED
    BY <1>2 DEF SwitchIf, IfBoxFits

\* A line with the remembered source and frequency was printed like this one.
LEMMA SameText ==
  ASSUME ServerInv, NEW l \in Lines, Same(l)
  PROVE  /\ RealText
         /\ oldstring.source = l.source
         /\ oldstring.lo = Tenth(l.lo)
         /\ OnOff(otcal) = OnOff(oldstring.tcal)
  <1>1. l.source \in Targets /\ l.lo \in Los /\ l.lo # NoLo
    BY DEF Same, Real, Lines
  <1>2. RealText /\ oldstring.source = l.source /\ oldstring.lo = l.lo
        /\ OnOff(otcal) = OnOff(oldstring.tcal)
    BY <1>1 DEF ServerInv, FieldsFit, Same
  <1>3. PICK f \in Los \cup {NoLo} : oldstring.lo = Tenth(f)
    BY <1>2 DEF RealText, Texts
  <1>4. Tenth(oldstring.lo) = oldstring.lo
    <2>1. f \in Int
      BY <1>3, ServerAssumption DEF NoLo
    <2> QED
      BY <1>3, <2>1, TenthTwice
  <1> QED
    BY <1>2, <1>4

---------------------------------------------------------------------------
(* Every step preserves the invariant.                                    *)

LEMMA LinePreserves ==
  ASSUME ServerInv, NEW l \in Lines, HandleLine(l)
  PROVE  ServerInv'
  <1> USE DEF ServerInv
  <1>0. l.tcal \in {0, 1} /\ OnOff(l.tcal) = l.tcal
    BY DEF Lines, OnOff
  <1>1. CASE LineNewLo(l)
    <2>1. /\ TakesLine(l) /\ Real(l) /\ SwitchIf(l) /\ failed' = FALSE
          /\ be4' = Text(l, l.tcal) /\ Remember(Text(l, l.tcal), l.tcal)
      BY <1>1 DEF LineNewLo
    <2>2. /\ RealText' /\ FieldsFit' /\ WantedIsRemembered'
          /\ oldstring' = Text(l, l.tcal) /\ oldstring' \in Texts
          /\ oldstring'.lo = Tenth(l.lo)
      BY <1>0, <2>1, RealLineKept
    <2>3. IfBoxFits' /\ ifFault' \in BOOLEAN
      BY <2>1, <2>2, SwitchedFits
    <2>4. ServerTypeOK'
      BY <1>0, <2>1, <2>2, <2>3, LineTyped
    <2> QED
      BY <2>1, <2>2, <2>3, <2>4 DEF Be4Fits
  <1>2. CASE LineFilterFails(l)
    <2>1. /\ TakesLine(l) /\ SwitchIf(l) /\ failed' = TRUE
          /\ be4' = Text(l, l.tcal) /\ UNCHANGED remembered
      BY <1>2 DEF LineFilterFails
    <2>2. be4' \in Told
      BY <1>0, <2>1, TextOfLine DEF Told
    <2>3. ServerTypeOK'
      BY <2>1, <2>2
         DEF ServerTypeOK, TakesLine, SwitchIf, remembered, Real
    <2>4. RealText' = RealText
      BY <2>1 DEF RealText, remembered, Real
    <2> QED
      BY <2>1, <2>3, <2>4 DEF FieldsFit, Be4Fits, IfBoxFits,
         WantedIsRemembered, TakesLine, remembered
  <1>3. CASE LineNewSource(l)
    <2>1. /\ TakesLine(l) /\ Real(l) /\ SwitchIf(l) /\ failed' = FALSE
          /\ be4' = Text(l, l.tcal) /\ Remember(Text(l, l.tcal), l.tcal)
      BY <1>3 DEF LineNewSource
    <2>2. /\ RealText' /\ FieldsFit' /\ WantedIsRemembered'
          /\ oldstring' = Text(l, l.tcal) /\ oldstring' \in Texts
          /\ oldstring'.lo = Tenth(l.lo)
      BY <1>0, <2>1, RealLineKept
    <2>3. IfBoxFits' /\ ifFault' \in BOOLEAN
      BY <2>1, <2>2, SwitchedFits
    <2>4. ServerTypeOK'
      BY <1>0, <2>1, <2>2, <2>3, LineTyped
    <2> QED
      BY <2>1, <2>2, <2>3, <2>4 DEF Be4Fits
  <1>4. CASE LineNewTcal(l)
    <2> DEFINE c == 10 + l.tcal
               t == IF l.tcal = 1 THEN 11 ELSE 0
    <2>1. /\ c \in {0, 1, 10, 11} /\ OnOff(c) = l.tcal
          /\ t \in {0, 1, 11} /\ OnOff(t) = l.tcal
      BY <1>0 DEF OnOff
    <2>2. /\ TakesLine(l) /\ Same(l) /\ be4' = Text(l, c)
          /\ Remember(Text(l, c), t)
          /\ UNCHANGED <<ifBox, ifFault, failed>>
      BY <1>4 DEF LineNewTcal
    <2>3. Real(l)
      BY <2>2 DEF Same
    <2> HIDE DEF c, t
    <2>4. /\ RealText' /\ FieldsFit' /\ WantedIsRemembered'
          /\ oldstring' = Text(l, c) /\ oldstring' \in Texts
          /\ oldstring'.lo = Tenth(l.lo)
      BY <2>1, <2>2, <2>3, RealLineKept
    <2>5. ServerTypeOK'
      BY <2>1, <2>2, <2>4, LineTyped DEF ServerTypeOK
    <2>6. IfBoxFits'
      BY <2>2, <2>4, SameText DEF IfBoxFits
    <2> QED
      BY <2>2, <2>4, <2>5, <2>6 DEF Be4Fits
  <1>5. CASE LineNewPcal(l) \/ LineNoAction(l)
    <2>1. /\ TakesLine(l) /\ Same(l) /\ l.tcal = otcal
          /\ Remember(Text(l, l.tcal), l.tcal)
          /\ UNCHANGED <<be4, ifBox, ifFault, failed>>
      BY <1>5 DEF LineNewPcal, LineNoAction, devices
    <2>2. Real(l)
      BY <2>1 DEF Same
    <2>3. /\ RealText' /\ FieldsFit' /\ WantedIsRemembered'
          /\ oldstring' = Text(l, l.tcal) /\ oldstring' \in Texts
          /\ oldstring'.source = l.source
          /\ oldstring'.lo = Tenth(l.lo)
          /\ OnOff(oldstring'.tcal) = l.tcal
      BY <1>0, <2>1, <2>2, RealLineKept
    <2>4. ServerTypeOK'
      BY <1>0, <2>1, <2>3, LineTyped DEF ServerTypeOK
    <2>5. IfBoxFits' /\ Be4Fits'
      BY <1>0, <2>1, <2>3, SameText DEF IfBoxFits, Be4Fits
    <2> QED
      BY <2>3, <2>4, <2>5
  <1>6. CASE LineNothingNew(l) /\ Real(l)
    <2>1. /\ TakesLine(l) /\ oldstring = Text(l, l.tcal)
          /\ Remember(Text(l, l.tcal), l.tcal)
          /\ UNCHANGED <<be4, ifBox, ifFault, failed>>
      BY <1>6 DEF LineNothingNew, Changed, devices
    <2>2. /\ RealText' /\ FieldsFit' /\ WantedIsRemembered'
          /\ oldstring' = oldstring
      BY <1>0, <1>6, <2>1, RealLineKept
    <2>3. ServerTypeOK'
      BY <1>0, <2>1, LineTyped DEF ServerTypeOK
    <2>4. RealText
      BY <2>2 DEF RealText, Real
    <2> QED
      BY <2>1, <2>2, <2>3, <2>4 DEF IfBoxFits, Be4Fits
  <1>7. CASE LineNothingNew(l) /\ ~Real(l)
    <2>1. /\ TakesLine(l) /\ Remember(Text(l, l.tcal), 0)
          /\ UNCHANGED <<be4, ifBox, ifFault, failed>>
      BY <1>7 DEF LineNothingNew, devices
    <2>2. /\ oldstring' = Text(l, l.tcal) /\ oldstring'.source = l.source
          /\ oldstring'.lo = Tenth(l.lo) /\ osource' = l.source
          /\ osumlo' = Tenth(l.lo) /\ owed' = FALSE
      BY <1>0, <1>7, <2>1, TextOfLine DEF Remember, TakesLine
    <2>3. l.source = NoTarget \/ Tenth(l.lo) = NoLo
      BY <1>7, TenthOfNone DEF Real
    <2>4. ~RealText'
      BY <2>2, <2>3 DEF RealText, Real
    <2>5. FieldsFit'
      BY <2>2, <2>3, <2>4, ServerAssumption DEF FieldsFit
    <2>6. ServerTypeOK'
      BY <1>0, <2>1, LineTyped DEF ServerTypeOK
    <2> QED
      BY <2>2, <2>4, <2>5, <2>6 DEF IfBoxFits, Be4Fits, WantedIsRemembered
  <1> QED
    BY <1>1, <1>2, <1>3, <1>4, <1>5, <1>6, <1>7 DEF HandleLine

\* Offsets: nothing real is remembered, so nothing is claimed of be4.
LEMMA DistractPreserves ==
  ASSUME ServerInv, Distract, be4' \in Told, azm' \in Offsets \cup {Unset},
         UNCHANGED <<up, be4Sock, ifFault, failed>>
  PROVE  ServerInv'
  <1>1. /\ oldstring' = OffsetText /\ osource' = "onoff" /\ owed' = FALSE
        /\ UNCHANGED <<osumlo, otcal, ophascal>>
    BY DEF Distract
  <1>2. ~RealText'
    BY <1>1, OffsetTextIsNoText DEF RealText
  <1>3. osource' \notin Targets
    BY <1>1, ServerAssumption
  <1>4. ServerTypeOK'
    BY <1>1 DEF ServerInv, ServerTypeOK
  <1> QED
    BY <1>1, <1>2, <1>3, <1>4 DEF ServerInv, FieldsFit, Be4Fits, IfBoxFits,
                                   WantedIsRemembered

\* The remembered line is sent again, or POINTING is.
LEMMA ResendPreserves ==
  ASSUME ServerInv, be4' \in {be4, oldstring, Pointing},
         UNCHANGED <<up, be4Sock, remembered, azm, ifBox, history>>
  PROVE  ServerInv'
  <1>1. ServerTypeOK'
    BY DEF ServerInv, ServerTypeOK, Told, remembered, history
  <1>2. FieldsFit' /\ IfBoxFits' /\ WantedIsRemembered'
    BY DEF ServerInv, FieldsFit, IfBoxFits, WantedIsRemembered, RealText,
           Real, remembered, history
  <1>3. Be4Fits'
    BY DEF ServerInv, Be4Fits, RealText, Real, remembered, history
  <1> QED
    BY <1>1, <1>2, <1>3 DEF ServerInv

LEMMA StartPreserves ==
  ASSUME ServerInv, ServerStart
  PROVE  ServerInv'
  <1>1. /\ oldstring' = StartText /\ osource' = NoTarget /\ osumlo' = 0
        /\ otcal' = 0 /\ ophascal' = Unset /\ up' = TRUE
        /\ be4Sock' = FALSE /\ azm' = Unset /\ owed' = FALSE
        /\ UNCHANGED <<be4, ifFault, failed>>
    BY DEF ServerStart, Forget, devices
  <1>2. oldstring' \in Texts /\ ~RealText'
    BY <1>1, StartTextTyped DEF RealText, Real
  <1>3. osource' \notin Targets
    BY <1>1, ServerAssumption
  <1>4. ServerTypeOK'
    BY <1>1, <1>2 DEF ServerInv, ServerTypeOK, Rounded
  <1> QED
    BY <1>1, <1>2, <1>3, <1>4 DEF ServerInv, FieldsFit, Be4Fits, IfBoxFits,
                                   WantedIsRemembered

LEMMA StepPreserves ==
  ASSUME ServerInv, [ServerNext]_serverVars
  PROVE  ServerInv'
  <1>1. CASE \E l \in Lines : HandleLine(l)
    BY <1>1, LinePreserves
  <1>2. CASE \E off \in Offsets : HandleOffAzm(off)
    <2>1. PICK off \in Offsets : HandleOffAzm(off)
      BY <1>2
    <2>2. be4' \in Told
      BY <2>1 DEF HandleOffAzm, devices, ServerInv, ServerTypeOK
    <2> QED
      BY <2>1, <2>2, DistractPreserves DEF HandleOffAzm
  <1>3. CASE \E off \in Offsets : HandleOffElv(off)
    <2>1. PICK off \in Offsets : HandleOffElv(off)
      BY <1>3
    <2>2. azm \in Offsets
      BY <2>1 DEF HandleOffElv, ServerInv, ServerTypeOK
    <2>3. be4' \in Told
      BY <2>1, <2>2 DEF HandleOffElv, Told
    <2> QED
      BY <2>1, <2>2, <2>3, DistractPreserves DEF HandleOffElv
  <1>4. CASE HandlePointing \/ HandleRepeat \/ KeyRepeat
    BY <1>4, ResendPreserves DEF HandlePointing, HandleRepeat, KeyRepeat
  <1>5. CASE HandleGarbled \/ ServerEnds \/ UNCHANGED serverVars
    <2>1. /\ up' \in BOOLEAN /\ be4Sock' \in BOOLEAN
          /\ UNCHANGED <<remembered, azm, devices, history>>
      BY <1>5 DEF HandleGarbled, ServerEnds, serverVars, ServerInv,
                  ServerTypeOK
    <2>2. RealText' = RealText
      BY <2>1 DEF RealText, Real, remembered
    <2> QED
      BY <2>1, <2>2 DEF ServerInv, ServerTypeOK, FieldsFit, Be4Fits,
         IfBoxFits, WantedIsRemembered, remembered, devices, history
  <1>6. CASE ServerStart
    BY <1>6, StartPreserves
  <1> QED
    BY <1>1, <1>2, <1>3, <1>4, <1>5, <1>6 DEF ServerNext

(* The inductive invariant of the server.                                  *)
THEOREM ServerInvariant == ServerSpec => []ServerInv
  BY InitHolds, StepPreserves, PTL DEF ServerSpec

(* Type correctness, for every set of sources, frequencies, wraps, offsets *)
(* and faults.  VLBIsend.py:253-487.                                       *)
THEOREM ServerTypeCorrect == ServerSpec => []ServerTypeOK
  <1>1. ServerInv => ServerTypeOK
    BY DEF ServerInv
  <1> QED
    BY <1>1, ServerInvariant, PTL

LEMMA Be4FromInv == ServerInv => Be4Current
  <1> SUFFICES ASSUME ServerInv, owed, ~failed, be4 # Pointing
               PROVE  /\ be4.kind = "line"
                      /\ be4.source = wanted.source
                      /\ be4.lo = Tenth(wanted.lo)
                      /\ OnOff(be4.tcal) = wanted.tcal
    BY DEF Be4Current
  <1>1. /\ RealText /\ oldstring.source = wanted.source
        /\ oldstring.lo = Tenth(wanted.lo)
        /\ OnOff(oldstring.tcal) = wanted.tcal
    BY DEF ServerInv, WantedIsRemembered
  <1>2. /\ be4 \in Texts /\ be4.source = oldstring.source
        /\ be4.lo = oldstring.lo
        /\ OnOff(be4.tcal) = OnOff(oldstring.tcal)
    BY <1>1 DEF ServerInv, Be4Fits
  <1> QED
    BY <1>1, <1>2 DEF Texts

(* be4 has the source, frequency and cal state of the last real line       *)
(* handled, however little of what came was forwarded.                     *)
(* VLBIsend.py:292-437.                                                    *)
THEOREM Be4IsCurrent == ServerSpec => []Be4Current
  BY Be4FromInv, ServerInvariant, PTL

(* The IF box has the input of the receiver last asked for, unless its     *)
(* last switch failed.  VLBIsend.py:319-345, 353-379.                      *)
THEOREM IfBoxIsCurrent == ServerSpec => []IfBoxCurrent
  <1>1. ServerInv => IfBoxCurrent
    <2> SUFFICES ASSUME ServerInv, owed, ~failed, ~ifFault
                 PROVE  ifBox = IfInput(wanted.lo)
      BY DEF IfBoxCurrent
    <2>1. RealText /\ wanted \in Lines /\ oldstring.lo = Tenth(wanted.lo)
      BY DEF ServerInv, WantedIsRemembered
    <2> QED
      BY <2>1 DEF ServerInv, IfBoxFits, Lines
  <1> QED
    BY <1>1, ServerInvariant, PTL
===========================================================================

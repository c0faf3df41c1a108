---------------------------- MODULE AngleProofs ----------------------------
(* Theorems about the text of angles.  A multiplication by a unit is never *)
(* computed: the provers need only that a unit is sixty of the next.       *)
EXTENDS Rad2str, TLAPS

(* The fields without their sign, the whole part in minutes and so on.     *)
Cut(r) == r.whole.number * Whole(r.pformat)
            + r.minutes.number * Minute(r.pformat)
            + r.seconds.number * Second(r.pformat)

(* The fields cut off so far and what is left of the angle, which has been *)
(* rounded, are within k of the size of the input.                         *)
Near(r, k) ==
    LET size == IF r.sign = 1 THEN r.input ELSE -r.input
    IN  /\ size - k <= Cut(r) + r.angle - Half
        /\ Cut(r) + r.angle - Half <= size + k

LEMMA Units ==
    ASSUME NEW f \in Formats
    PROVE  /\ Second(f) \in Nat \ {0} /\ Minute(f) \in Nat \ {0}
           /\ Whole(f) \in Nat \ {0}
           /\ Minute(f) = 60 * Second(f) /\ Whole(f) = 60 * Minute(f)
           /\ Decimals(f) \in {0, 1, 2} /\ Width(f) \in Int
           /\ Decimals(f) = 0 => Second(f) = 10
  BY SMT DEF Formats, Whole, Minute, Second, Decimals, Width

LEMMA Divided ==
    ASSUME NEW angle \in Nat, NEW unit \in Nat \ {0},
           NEW left \in Product(angle % unit, unit)
    PROVE  /\ angle \div unit \in Nat /\ left \in 0..(unit - 1)
           /\ \E p \in Nat : /\ p = (angle \div unit) * unit
                            /\ angle - 1 <= p + left /\ p + left <= angle + 1
<1> DEFINE q == angle \div unit
           m == angle % unit
<1>1. q \in Nat /\ m \in 0..(unit - 1) /\ angle = unit * q + m
  BY SMT
<1>2. left \in {m - 1, m, m + 1} /\ left >= 0 /\ left < unit
  BY <1>1, SMT DEF Product
<1> HIDE DEF q, m
<1>3. PICK p \in Nat : p = q * unit
  BY <1>1, SMT
<1>4. angle = p + m
  BY <1>1, <1>3, SMT
<1>5. angle - 1 <= p + left /\ p + left <= angle + 1 /\ left \in 0..(unit - 1)
  BY <1>1, <1>2, <1>3, <1>4, SMT
<1> QED
  BY <1>1, <1>3, <1>5 DEF q

LEMMA BelowSixty ==
    ASSUME NEW angle \in Nat, NEW unit \in Nat \ {0}, angle < 60 * unit
    PROVE  angle \div unit < 60
<1> DEFINE q == angle \div unit
<1>1. q \in Nat /\ unit * q <= angle
  BY SMT
<1> HIDE DEF q
<1>2. ASSUME q >= 60
      PROVE  FALSE
  <2>1. PICK d \in Nat : q = 60 + d
    BY <1>1, <1>2, SMT
  <2>2. PICK e \in Nat : e = unit * d
    BY SMT
  <2>3. unit * q = 60 * unit + e
    BY <2>1, <2>2, SMT
  <2> QED
    BY <1>1, <2>2, <2>3, SMT
<1> QED
  BY <1>1, <1>2, SMT DEF q

LEMMA TextOfNumber ==
    ASSUME NEW number \in Nat, NEW width \in Int, NEW sign \in {-1, 0, 1}
    PROVE  /\ Ltostr(number, width, sign) \in Field
           /\ Ltostr(number, width, sign).number = number
           /\ Ltostr(number, width, sign).minus = (sign < 0)
<1> DEFINE minus == number < 0 \/ sign < 0
           chars == Larger(Abs(width),
                           DigitsOf(Abs(number)) + IF minus THEN 1 ELSE 0)
<1>1. Abs(number) = number /\ minus = (sign < 0) /\ minus \in BOOLEAN
  BY SMT DEF Abs
<1>2. chars \in Nat
  BY SMT DEF Abs, Larger, DigitsOf
<1>3. Ltostr(number, width, sign)
        = [number |-> Abs(number), minus |-> minus, nochar |-> chars]
  BY DEF Ltostr
<1> HIDE DEF minus, chars
<1>4. [number |-> Abs(number), minus |-> minus, nochar |-> chars] \in Field
  BY <1>1, <1>2, SMT DEF Field
<1>5. Ltostr(number, width, sign).number = Abs(number)
        /\ Ltostr(number, width, sign).minus = minus
  BY <1>3
<1> QED
  BY <1>1, <1>3, <1>4, <1>5
LEMMA CutNatural ==
    ASSUME rad.pformat \in Formats, rad.whole.number \in Nat,
           rad.minutes.number \in Nat, rad.seconds.number \in Nat
    PROVE  Cut(rad) \in Nat
<1>1. /\ rad.whole.number * Whole(rad.pformat) \in Nat
      /\ rad.minutes.number * Minute(rad.pformat) \in Nat
      /\ rad.seconds.number * Second(rad.pformat) \in Nat
  BY Units, SMT
<1> QED
  BY <1>1, SMT DEF Cut

(* Cutting off a field loses at most a grain, and leaves less than a unit. *)
AngleInv ==
    /\ RadTypeOK
    /\ rad.fraction.number = 0 \/ rad.pc = "done"
    /\ rad.minutes.number < 60 /\ rad.seconds.number < 60
    /\ rad.pc \in {"enter", "sign", "round", "whole", "minutes", "seconds"}
          => rad.seconds.number = 0
    /\ rad.pc \in {"enter", "sign", "round", "whole", "minutes"}
          => rad.minutes.number = 0
    /\ rad.pc \in {"enter", "sign", "round", "whole"} => rad.whole.number = 0
    /\ rad.pc = "sign" =>
          rad.input - 1 <= rad.angle /\ rad.angle <= rad.input + 1
    /\ rad.pc = "round" =>
          /\ rad.angle >= 0
          /\ IF rad.sign = 1
             THEN rad.input - 1 <= rad.angle /\ rad.angle <= rad.input + 1
             ELSE -rad.input - 1 <= rad.angle /\ rad.angle <= -rad.input + 1
    /\ rad.pc = "whole" => rad.angle >= 0 /\ Near(rad, 1)
    /\ rad.pc = "minutes" =>
          rad.angle \in 0..(Whole(rad.pformat) - 1) /\ Near(rad, 2)
    /\ rad.pc = "seconds" =>
          rad.angle \in 0..(Minute(rad.pformat) - 1) /\ Near(rad, 3)
    /\ rad.pc = "fraction" =>
          rad.angle \in 0..(Second(rad.pformat) - 1) /\ Near(rad, 4)
    /\ rad.pc \in {"minutes", "seconds", "fraction", "done"}
          => rad.whole.minus = (rad.sign = -1)
    /\ NearestText

LEMMA AngleInvStep == AngleInv /\ [RadNext]_rad => AngleInv'
<1> SUFFICES ASSUME AngleInv, [RadNext]_rad
             PROVE  AngleInv'
  OBVIOUS
<1> DEFINE f == rad.pformat
<1>0. /\ f \in Formats /\ rad.angle \in Int /\ rad.input \in Int
      /\ rad.sign \in {1, -1}
      /\ rad.whole \in Field /\ rad.minutes \in Field /\ rad.seconds \in Field
      /\ rad.fraction \in Field
      /\ rad.whole.number \in Nat /\ rad.minutes.number \in Nat
      /\ rad.seconds.number \in Nat /\ rad.fraction.number \in Nat
  <2>1. /\ f \in Formats /\ rad.angle \in Int /\ rad.input \in Angles
        /\ rad.sign \in {1, -1}
        /\ rad.whole \in Field /\ rad.minutes \in Field
        /\ rad.seconds \in Field /\ rad.fraction \in Field
    BY DEF AngleInv, RadTypeOK
  <2>2. \A d \in Field : d.number \in Nat
    BY DEF Field
  <2> QED
    BY <2>1, <2>2, Rad2strAssumption
<1>1. CASE Enter
  <2>1. PICK a \in Int :
           /\ rad' = [rad EXCEPT !.pc = "sign", !.angle = a]
           /\ rad.input - 1 <= a /\ a <= rad.input + 1
    <3>1. PICK e \in {-1, 0, 1} :
             rad' = [rad EXCEPT !.pc = "sign",
                                !.angle = IF rad.input = 0 THEN 0
                                          ELSE rad.input + e]
      BY <1>1 DEF Enter
    <3>2. PICK a \in Int : a = IF rad.input = 0 THEN 0 ELSE rad.input + e
      BY <1>0
    <3>3. rad.input - 1 <= a /\ a <= rad.input + 1
      BY <1>0, <3>2, SMT
    <3> QED
      BY <3>1, <3>2, <3>3
  <2>2. rad.pc = "enter"
    BY <1>1 DEF Enter
  <2>3. RadTypeOK'
    BY <2>1 DEF AngleInv, RadTypeOK, RadPcs
  <2> QED
    BY <1>0, <2>1, <2>2, <2>3, SMT DEF AngleInv, RadTypeOK, NearestText
<1>2. CASE Sign
  <2>1. PICK s \in {1, -1}, a \in Nat :
           /\ rad' = [rad EXCEPT !.pc = "round", !.angle = a, !.sign = s]
           /\ IF s = 1 THEN rad.input - 1 <= a /\ a <= rad.input + 1
              ELSE -rad.input - 1 <= a /\ a <= -rad.input + 1
    <3>1. rad.input - 1 <= rad.angle /\ rad.angle <= rad.input + 1
      BY <1>2 DEF Sign, AngleInv
    <3> DEFINE s == IF rad.angle < 0 THEN -1 ELSE 1
               a == Abs(rad.angle)
    <3>2. rad' = [rad EXCEPT !.pc = "round", !.angle = a, !.sign = s]
      BY <1>2 DEF Sign
    <3>3. /\ s \in {1, -1} /\ a \in Nat
          /\ IF s = 1 THEN rad.input - 1 <= a /\ a <= rad.input + 1
             ELSE -rad.input - 1 <= a /\ a <= -rad.input + 1
      BY <1>0, <3>1, SMT DEF Abs
    <3> HIDE DEF s, a
    <3> QED
      BY <3>2, <3>3
  <2>2. rad.pc = "sign"
    BY <1>2 DEF Sign
  <2>3. a \in Int /\ "round" \in RadPcs
    BY DEF RadPcs
  <2>4. RadTypeOK'
    BY <2>1, <2>3 DEF AngleInv, RadTypeOK
  <2> QED
    BY <1>0, <2>1, <2>2, <2>4, SMT DEF AngleInv, RadTypeOK, NearestText
<1>3. CASE Round
  <2>1. rad' = [rad EXCEPT !.pc = "whole", !.angle = rad.angle + Half]
          /\ rad.pc = "round"
    BY <1>3 DEF Round
  <2>2. RadTypeOK'
    <3>1. rad.angle + Half \in Int /\ "whole" \in RadPcs
      BY <1>0 DEF RadPcs, Half
    <3> QED
      BY <2>1, <3>1 DEF AngleInv, RadTypeOK
  <2>3. Cut(rad') = 0
    <3>1. /\ rad'.whole.number = 0 /\ rad'.minutes.number = 0
          /\ rad'.seconds.number = 0 /\ rad'.pformat = f
      BY <2>1, SMT DEF AngleInv, RadTypeOK
    <3> QED
      BY <1>0, <3>1, Units, SMT DEF Cut
  <2>4. rad'.angle >= 0 /\ Near(rad', 1)
    BY <1>0, <2>1, <2>3, SMT DEF AngleInv, RadTypeOK, Near, Half
  <2> QED
    BY <1>0, <2>1, <2>2, <2>4, SMT DEF AngleInv, RadTypeOK, NearestText
<1>4. CASE PlaceWhole
  <2>1. PICK left \in Product(rad.angle % Whole(f), Whole(f)) :
           rad' = [rad EXCEPT
                     !.pc = "minutes",
                     !.whole = Ltostr(rad.angle \div Whole(f), Width(f),
                                      rad.sign),
                     !.angle = left]
    BY <1>4 DEF PlaceWhole
  <2>2. rad.pc = "whole" /\ rad.angle \in Nat
    BY <1>0, <1>4, SMT DEF PlaceWhole, AngleInv
  <2>3. /\ rad.angle \div Whole(f) \in Nat /\ left \in 0..(Whole(f) - 1)
        /\ \E p \in Nat : /\ p = (rad.angle \div Whole(f)) * Whole(f)
                         /\ rad.angle - 1 <= p + left
                         /\ p + left <= rad.angle + 1
    BY <1>0, <2>2, Units, Divided
  <2> DEFINE text == Ltostr(rad.angle \div Whole(f), Width(f), rad.sign)
  <2>4. /\ text \in Field /\ text.number = rad.angle \div Whole(f)
        /\ text.minus = (rad.sign = -1)
    <3>1. rad.sign \in {-1, 0, 1} /\ (rad.sign < 0 <=> rad.sign = -1)
      BY <1>0, SMT
    <3>2. Width(f) \in Int
      BY <1>0, Units
    <3>3. /\ text \in Field /\ text.number = rad.angle \div Whole(f)
          /\ text.minus = (rad.sign < 0)
      BY <2>3, <3>1, <3>2, TextOfNumber
    <3> QED
      BY <3>1, <3>3
  <2>5. rad' = [rad EXCEPT !.pc = "minutes", !.whole = text, !.angle = left]
    BY <2>1
  <2> HIDE DEF text
  <2>6. RadTypeOK'
    <3>1. left \in Int /\ "minutes" \in RadPcs
      BY <1>0, <2>3, Units, SMT DEF RadPcs
    <3> QED
      BY <2>4, <2>5, <3>1 DEF AngleInv, RadTypeOK
  <2>7. /\ rad'.pc = "minutes" /\ rad'.whole = text /\ rad'.angle = left
        /\ UNCHANGED <<rad.pformat, rad.input, rad.sign, rad.minutes,
                      rad.seconds, rad.fraction>>
    BY <2>5 DEF AngleInv, RadTypeOK
  <2>8. /\ rad.whole.number = 0 /\ rad.minutes.number = 0
        /\ rad.seconds.number = 0
    BY <2>2 DEF AngleInv
  <2>9. /\ Cut(rad) = 0
        /\ Cut(rad') = (rad.angle \div Whole(f)) * Whole(f)
    <3>1. 0 * Whole(f) = 0 /\ 0 * Minute(f) = 0 /\ 0 * Second(f) = 0
      BY <1>0, Units, SMT
    <3>2. PICK p \in Nat : p = (rad.angle \div Whole(f)) * Whole(f)
      BY <2>3
    <3> QED
      BY <2>4, <2>7, <2>8, <3>1, <3>2, SMT DEF Cut
  <2>10. Near(rad', 2)
    BY <1>0, <2>2, <2>3, <2>7, <2>9, SMT DEF AngleInv, Near, Half
  <2> QED
    BY <2>2, <2>3, <2>4, <2>6, <2>7, <2>8, <2>10
       DEF AngleInv, NearestText
<1>5. CASE PlaceMinutes
  <2>1. PICK left \in Product(rad.angle % Minute(f), Minute(f)) :
           rad' = [rad EXCEPT
                     !.pc = "seconds",
                     !.minutes = Ltostr(rad.angle \div Minute(f), -2, 0),
                     !.angle = left]
    BY <1>5 DEF PlaceMinutes
  <2>2. rad.pc = "minutes" /\ rad.angle \in 0..(Whole(f) - 1)
    BY <1>5 DEF PlaceMinutes, AngleInv
  <2>3. rad.angle \in Nat /\ rad.angle < 60 * Minute(f)
    BY <1>0, <2>2, Units, SMT
  <2>4. /\ rad.angle \div Minute(f) \in Nat /\ left \in 0..(Minute(f) - 1)
        /\ rad.angle \div Minute(f) < 60
        /\ \E p \in Nat : /\ p = (rad.angle \div Minute(f)) * Minute(f)
                         /\ rad.angle - 1 <= p + left
                         /\ p + left <= rad.angle + 1
    BY <1>0, <2>3, Units, Divided, BelowSixty
  <2> DEFINE text == Ltostr(rad.angle \div Minute(f), -2, 0)
             next == "seconds"
  <2>5. text \in Field /\ text.number = rad.angle \div Minute(f)
    <3>1. -2 \in Int /\ 0 \in {-1, 0, 1}
      BY SMT
    <3> QED
      BY <2>4, <3>1, TextOfNumber
  <2>6. rad' = [rad EXCEPT !.pc = next, !.minutes = text, !.angle = left]
    BY <2>1
  <2>7. next \in RadPcs /\ left \in Int
    BY <1>0, <2>4, Units, SMT DEF RadPcs
  <2> HIDE DEF text, next
  <2>8. RadTypeOK'
    BY <2>5, <2>6, <2>7 DEF AngleInv, RadTypeOK
  <2>9. /\ rad'.pc = next /\ rad'.minutes = text /\ rad'.angle = left
        /\ UNCHANGED <<rad.pformat, rad.input, rad.sign, rad.whole,
                      rad.seconds, rad.fraction>>
    BY <2>6, <2>8 DEF AngleInv, RadTypeOK
  <2>10. Cut(rad') = Cut(rad) + (rad.angle \div Minute(f)) * Minute(f)
    <3>1. rad.minutes.number = 0 /\ 0 * Minute(f) = 0
      BY <1>0, <2>2, Units, SMT DEF AngleInv
    <3>2. PICK p \in Nat : p = (rad.angle \div Minute(f)) * Minute(f)
      BY <2>4
    <3>3. /\ rad.whole.number * Whole(f) \in Nat
          /\ rad.minutes.number * Minute(f) \in Nat
          /\ rad.seconds.number * Second(f) \in Nat
      BY <1>0, Units, SMT
    <3> HIDE DEF f
    <3> QED
      BY <2>5, <2>9, <3>1, <3>2, <3>3, SMT DEF Cut, f
  <2>11. Near(rad', 3)
    <3>1. Near(rad, 2)
      BY <2>2 DEF AngleInv
    <3>2. Cut(rad) \in Nat
      BY <1>0, CutNatural
    <3> QED
      BY <1>0, <2>3, <2>4, <2>9, <2>10, <3>1, <3>2, SMT DEF Near, Half
  <2> QED
    BY <2>2, <2>4, <2>5, <2>7, <2>8, <2>9, <2>11 DEF AngleInv, NearestText, next
<1>6. CASE PlaceSeconds
  <2>1. PICK left \in Product(rad.angle % Second(f), Second(f)) :
           rad' = [rad EXCEPT
                     !.pc = IF Decimals(f) = 0 THEN "done" ELSE "fraction",
                     !.seconds = Ltostr(rad.angle \div Second(f), -2, 0),
                     !.angle = left]
    BY <1>6 DEF PlaceSeconds
  <2>2. rad.pc = "seconds" /\ rad.angle \in 0..(Minute(f) - 1)
    BY <1>6 DEF PlaceSeconds, AngleInv
  <2>3. rad.angle \in Nat /\ rad.angle < 60 * Second(f)
    BY <1>0, <2>2, Units, SMT
  <2>4. /\ rad.angle \div Second(f) \in Nat /\ left \in 0..(Second(f) - 1)
        /\ rad.angle \div Second(f) < 60
        /\ \E p \in Nat : /\ p = (rad.angle \div Second(f)) * Second(f)
                         /\ rad.angle - 1 <= p + left
                         /\ p + left <= rad.angle + 1
    BY <1>0, <2>3, Units, Divided, BelowSixty
  <2> DEFINE text == Ltostr(rad.angle \div Second(f), -2, 0)
             next == IF Decimals(f) = 0 THEN "done" ELSE "fraction"
  <2>5. text \in Field /\ text.number = rad.angle \div Second(f)
    <3>1. -2 \in Int /\ 0 \in {-1, 0, 1}
      BY SMT
    <3> QED
      BY <2>4, <3>1, TextOfNumber
  <2>6. rad' = [rad EXCEPT !.pc = next, !.seconds = text, !.angle = left]
    BY <2>1
  <2>7. next \in RadPcs /\ left \in Int
    BY <1>0, <2>4, Units, SMT DEF RadPcs
  <2> HIDE DEF text, next
  <2>8. RadTypeOK'
    BY <2>5, <2>6, <2>7 DEF AngleInv, RadTypeOK
  <2>9. /\ rad'.pc = next /\ rad'.seconds = text /\ rad'.angle = left
        /\ UNCHANGED <<rad.pformat, rad.input, rad.sign, rad.whole,
                      rad.minutes, rad.fraction>>
    BY <2>6, <2>8 DEF AngleInv, RadTypeOK
  <2>10. Cut(rad') = Cut(rad) + (rad.angle \div Second(f)) * Second(f)
    <3>1. rad.seconds.number = 0 /\ 0 * Second(f) = 0
      BY <1>0, <2>2, Units, SMT DEF AngleInv
    <3>2. PICK p \in Nat : p = (rad.angle \div Second(f)) * Second(f)
      BY <2>4
    <3>3. /\ rad.whole.number * Whole(f) \in Nat
          /\ rad.minutes.number * Minute(f) \in Nat
          /\ rad.seconds.number * Second(f) \in Nat
      BY <1>0, Units, SMT
    <3> HIDE DEF f
    <3> QED
      BY <2>5, <2>9, <3>1, <3>2, <3>3, SMT DEF Cut, f
  <2>11. Near(rad', 4)
    <3>1. Near(rad, 3)
      BY <2>2 DEF AngleInv
    <3>2. Cut(rad) \in Nat
      BY <1>0, CutNatural
    <3> QED
      BY <1>0, <2>3, <2>4, <2>9, <2>10, <3>1, <3>2, SMT DEF Near, Half
  <2>12. CASE Decimals(f) = 0
    <3>1. next = "done" /\ Second(f) = 10
      BY <1>0, <2>12, Units DEF next
    <3>2. rad'.fraction.number = 0 /\ rad.whole.minus = (rad.sign = -1)
      BY <2>2, <2>9 DEF AngleInv
    <3>3. Cut(rad') \in Nat
      <4>1. PICK p \in Nat : p = (rad.angle \div Second(f)) * Second(f)
        BY <2>4
      <4> QED
        BY <1>0, <2>10, <4>1, CutNatural
    <3>4. Read' = LET k == Cut(rad') + 0 * 10
                  IN  IF rad.sign = -1 THEN -k ELSE k
      BY <2>9, <3>2 DEF Read, Cut
    <3>5. left \in 0..9
      BY <2>4, <3>1, SMT
    <3>6. Abs(Read' - rad.input) <= Half + 4
      BY <1>0, <2>9, <2>11, <3>3, <3>4, <3>5, SMT DEF Near, Half, Abs
    <3>7. rad'.minutes.number < 60 /\ rad'.seconds.number < 60
      BY <2>4, <2>5, <2>9 DEF AngleInv
    <3>8. NearestText'
      BY <2>9, <3>6, <3>7 DEF NearestText
    <3> QED
      BY <2>2, <2>4, <2>5, <2>7, <2>8, <2>9, <3>1, <3>2, <3>8 DEF AngleInv
  <2>13. CASE Decimals(f) # 0
    <3>1. next = "fraction"
      BY <2>13 DEF next
    <3> QED
      BY <2>2, <2>4, <2>5, <2>7, <2>8, <2>9, <2>11, <3>1
         DEF AngleInv, NearestText
  <2> QED
    BY <2>12, <2>13
<1>7. CASE PlaceFraction
  <2>1. /\ rad.pc = "fraction" /\ rad.angle \in 0..(Second(f) - 1)
        /\ Near(rad, 4) /\ rad.whole.minus = (rad.sign = -1)
    BY <1>7 DEF PlaceFraction, AngleInv
  <2>2. rad.angle \in Nat
    BY <1>0, <2>1, Units, SMT
  <2>3. PICK d \in Nat : d = rad.angle \div 10 /\ rad.angle - 9 <= d * 10
                         /\ d * 10 <= rad.angle
    BY <2>2, SMT
  <2> DEFINE text == Ltostr(d, -Decimals(f), 0)
  <2>4. text \in Field /\ text.number = d
    <3>1. -Decimals(f) \in Int /\ 0 \in {-1, 0, 1}
      BY <1>0, Units, SMT
    <3> QED
      BY <3>1, TextOfNumber
  <2>5. rad' = [rad EXCEPT !.pc = "done", !.fraction = text]
    BY <1>7, <2>3 DEF PlaceFraction
  <2> HIDE DEF text
  <2>6. RadTypeOK'
    <3>1. "done" \in RadPcs
      BY DEF RadPcs
    <3> QED
      BY <2>4, <2>5, <3>1 DEF AngleInv, RadTypeOK
  <2>7. /\ rad'.pc = "done" /\ rad'.fraction.number = d
        /\ UNCHANGED <<rad.pformat, rad.input, rad.sign, rad.angle, rad.whole,
                      rad.minutes, rad.seconds>>
    BY <2>4, <2>5, <2>6 DEF AngleInv, RadTypeOK
  <2>8. Read' = LET k == Cut(rad) + d * 10
                IN  IF rad.sign = -1 THEN -k ELSE k
    BY <2>1, <2>7 DEF Read, Cut
  <2>9. Cut(rad) \in Nat
    BY <1>0, CutNatural
  <2>10. Abs(Read' - rad.input) <= Half + 4
    BY <1>0, <2>1, <2>2, <2>3, <2>8, <2>9, SMT DEF Near, Half, Abs
  <2>11. NearestText'
    BY <2>7, <2>10 DEF AngleInv, NearestText
  <2> QED
    BY <2>1, <2>6, <2>7, <2>11 DEF AngleInv
<1>8. CASE UNCHANGED rad
  BY <1>8 DEF AngleInv, RadTypeOK, Near, Cut, NearestText, Read
<1> QED
  BY <1>1, <1>2, <1>3, <1>4, <1>5, <1>6, <1>7, <1>8 DEF RadNext

LEMMA AngleInvInit == RadInit => AngleInv
<1> SUFFICES ASSUME NEW f \in Formats, NEW a \in Angles,
                    rad = [pc |-> "enter", pformat |-> f, input |-> a,
                           angle |-> 0, sign |-> 1, whole |-> NoField,
                           minutes |-> NoField, seconds |-> NoField,
                           fraction |-> NoField]
             PROVE  AngleInv
  BY DEF RadInit
<1>1. NoField \in Field /\ NoField.number = 0 /\ "enter" \in RadPcs
  BY DEF NoField, Field, RadPcs
<1>2. RadTypeOK
  BY <1>1 DEF RadTypeOK
<1> QED
  BY <1>1, <1>2 DEF AngleInv, NearestText

(* The text of any angle is the nearest one but for the errors of the four *)
(* products, in every format.                                              *)
THEOREM RadTextIsNearest == RadSpec => []NearestText
<1>1. AngleInv => NearestText
  BY DEF AngleInv
<1> QED
  BY <1>1, AngleInvInit, AngleInvStep, PTL DEF RadSpec

(* Every field placed so far has its length.                               *)
Aligned ==
    /\ rad.pc \in {"seconds", "fraction", "done"} => rad.minutes.nochar = 2
    /\ rad.pc \in {"fraction", "done"} => rad.seconds.nochar = 2
    /\ rad.pc # "done" => rad.fraction.nochar = 0
    /\ rad.pc = "fraction" => Decimals(rad.pformat) # 0
    /\ TextAligned

LEMMA TwoDigits ==
    ASSUME NEW number \in Nat, number < 60
    PROVE  Ltostr(number, -2, 0).nochar = 2
<1>1. Abs(number) = number /\ Abs(-2) = 2
  <2>1. \A k \in Nat : Abs(k) = k /\ Abs(-k) = k
    BY SMT DEF Abs
  <2> QED
    BY <2>1
<1>2. DigitsOf(number) \in {1, 2} /\ ~(number < 0 \/ 0 < 0)
  BY SMT DEF DigitsOf
<1>3. Larger(2, DigitsOf(number) + 0) = 2
  BY <1>2, SMT DEF Larger
<1> QED
  BY <1>1, <1>2, <1>3 DEF Ltostr

LEMMA FractionDigits ==
    ASSUME NEW f \in Formats, Decimals(f) # 0,
           NEW angle \in 0..(Second(f) - 1)
    PROVE  Ltostr(angle \div 10, -Decimals(f), 0).nochar = Decimals(f)
<1> DEFINE d == angle \div 10
<1>1. \/ Decimals(f) = 1 /\ d \in 0..9
      \/ Decimals(f) = 2 /\ d \in 0..99
  BY SMT DEF Formats, Decimals, Second
<1> HIDE DEF d
<1>2. /\ Abs(d) = d /\ Abs(-Decimals(f)) = Decimals(f)
      /\ DigitsOf(d) \in 1..Decimals(f) /\ ~(d < 0 \/ 0 < 0)
  BY <1>1, SMT DEF Abs, DigitsOf
<1>3. Larger(Decimals(f), DigitsOf(d) + 0) = Decimals(f)
  BY <1>1, <1>2, SMT DEF Larger
<1>4. Ltostr(d, -Decimals(f), 0).nochar = Decimals(f)
  BY <1>2, <1>3 DEF Ltostr
<1> QED
  BY <1>4 DEF d

LEMMA AlignedStep == AngleInv /\ Aligned /\ [RadNext]_rad => Aligned'
<1> SUFFICES ASSUME AngleInv, Aligned, [RadNext]_rad
             PROVE  Aligned'
  OBVIOUS
<1> DEFINE f == rad.pformat
<1>0. RadTypeOK /\ f \in Formats
  BY DEF AngleInv, RadTypeOK
<1>1. CASE Enter \/ Sign \/ Round \/ PlaceWhole
  BY <1>0, <1>1 DEF Enter, Sign, Round, PlaceWhole, RadTypeOK, Aligned,
                    TextAligned
<1>2. CASE PlaceMinutes
  <2>1. rad.pc = "minutes" /\ rad.angle \in 0..(Whole(f) - 1)
    BY <1>2 DEF PlaceMinutes, AngleInv
  <2>2. rad.angle \in Nat /\ rad.angle < 60 * Minute(f)
    BY <1>0, <2>1, Units, SMT
  <2>3. rad.angle \div Minute(f) \in Nat /\ rad.angle \div Minute(f) < 60
    BY <1>0, <2>2, Units, BelowSixty, SMT
  <2>4. Ltostr(rad.angle \div Minute(f), -2, 0).nochar = 2
    BY <2>3, TwoDigits
  <2>5. /\ rad'.pc = "seconds" /\ rad'.minutes.nochar = 2
        /\ rad'.fraction = rad.fraction
    BY <1>0, <1>2, <2>4 DEF PlaceMinutes, RadTypeOK
  <2> QED
    BY <2>1, <2>5 DEF Aligned, TextAligned
<1>3. CASE PlaceSeconds
  <2>1. rad.pc = "seconds" /\ rad.angle \in 0..(Minute(f) - 1)
    BY <1>3 DEF PlaceSeconds, AngleInv
  <2>2. rad.angle \in Nat /\ rad.angle < 60 * Second(f)
    BY <1>0, <2>1, Units, SMT
  <2>3. rad.angle \div Second(f) \in Nat /\ rad.angle \div Second(f) < 60
    BY <1>0, <2>2, Units, BelowSixty, SMT
  <2>4. Ltostr(rad.angle \div Second(f), -2, 0).nochar = 2
    BY <2>3, TwoDigits
  <2>5. /\ rad'.pc = IF Decimals(f) = 0 THEN "done" ELSE "fraction"
        /\ rad'.seconds.nochar = 2 /\ rad'.minutes = rad.minutes
        /\ rad'.fraction = rad.fraction /\ rad'.pformat = f
    BY <1>0, <1>3, <2>4 DEF PlaceSeconds, RadTypeOK
  <2> QED
    BY <2>1, <2>5 DEF Aligned, TextAligned
<1>4. CASE PlaceFraction
  <2>1. rad.pc = "fraction" /\ rad.angle \in 0..(Second(f) - 1)
          /\ Decimals(f) # 0
    BY <1>4 DEF PlaceFraction, AngleInv, Aligned
  <2>2. Ltostr(rad.angle \div 10, -Decimals(f), 0).nochar = Decimals(f)
    BY <1>0, <2>1, FractionDigits
  <2>3. /\ rad'.pc = "done" /\ rad'.fraction.nochar = Decimals(f)
        /\ rad'.minutes = rad.minutes /\ rad'.seconds = rad.seconds
        /\ rad'.pformat = f
    BY <1>0, <1>4, <2>2 DEF PlaceFraction, RadTypeOK
  <2> QED
    BY <2>1, <2>3 DEF Aligned, TextAligned
<1>5. CASE UNCHANGED rad
  BY <1>5 DEF Aligned, TextAligned
<1> QED
  BY <1>1, <1>2, <1>3, <1>4, <1>5 DEF RadNext

LEMMA AlignedInit == RadInit => Aligned
<1>1. RadInit => rad.pc = "enter" /\ rad.fraction.nochar = 0
  BY DEF RadInit, NoField
<1> QED
  BY <1>1 DEF Aligned, TextAligned

(* Minutes, seconds and fraction have their fixed width, for every angle.  *)
(* rad2str.c:161-176, 256-261.                                             *)
THEOREM RadTextIsAligned == RadSpec => []TextAligned
<1>1. Aligned => TextAligned
  BY DEF Aligned
<1> QED
  BY <1>1, AngleInvInit, AlignedInit, AngleInvStep, AlignedStep, PTL DEF RadSpec
=============================================================================

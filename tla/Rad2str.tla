------------------------------ MODULE Rad2str ------------------------------
(***************************************************************************)
(* antcn/rad2str.c: an angle as the text antcn sends to the telescope, the *)
(* right ascension with "h.1" and the declination with "d.0".  The fields  *)
(* are cut off one after the other, each from what the one before left, in *)
(* floating point.                                                         *)
(*                                                                         *)
(* Angles count grains, tenths of the last decimal place printed.  A       *)
(* multiplication may be wrong by a grain, far more than a double is.      *)
(***************************************************************************)
EXTENDS Integers

CONSTANT Angles     \* angles to print, in grains

ASSUME Rad2strAssumption == Angles \subseteq Int

VARIABLE rad        \* one conversion: see RadTypeOK

\* A format "dm.n" or "hm.n"; m and n are -1 when no digits are given.
Formats == [hours : BOOLEAN, zero : BOOLEAN, m : {-1, 3}, n : {-1, 0, 1}]

Width(f) ==
    LET m == IF f.m >= 0 THEN f.m ELSE IF f.hours THEN 2 ELSE 3
    IN  IF f.zero THEN -m ELSE m
Decimals(f) == IF f.n >= 0 THEN f.n ELSE IF f.hours THEN 2 ELSE 1

Half == 5
Second(f) == CASE Decimals(f) = 0 -> 10
               [] Decimals(f) = 1 -> 100
               [] OTHER -> 1000
Minute(f) == 60 * Second(f)
Whole(f) == 60 * Minute(f)

Abs(k) == IF k < 0 THEN -k ELSE k
Larger(a, b) == IF a < b THEN b ELSE a

\* The digits of a number of at most four, which every field here is.
DigitsOf(k) == IF k < 10 THEN 1 ELSE IF k < 100 THEN 2
               ELSE IF k < 1000 THEN 3 ELSE 4

\* The text of a number: whether it has a minus, and its length.  A zero
\* has a minus when the sign that is passed along with it is negative.
Ltostr(number, width, sign) ==
    LET minus == number < 0 \/ sign < 0
    IN  [number |-> Abs(number), minus |-> minus,
         nochar |-> Larger(Abs(width),
                           DigitsOf(Abs(number)) + IF minus THEN 1 ELSE 0)]

Field == [number : Nat, minus : BOOLEAN, nochar : Nat]
NoField == [number |-> 0, minus |-> FALSE, nochar |-> 0]

RadPcs == {"enter", "sign", "round", "whole", "minutes", "seconds",
           "fraction", "done"}

RadTypeOK ==
    rad \in [pc : RadPcs, pformat : Formats, input : Angles, angle : Int,
             sign : {1, -1}, whole : Field, minutes : Field,
             seconds : Field, fraction : Field]

RadInit ==
    \E f \in Formats, a \in Angles :
       rad = [pc |-> "enter", pformat |-> f, input |-> a, angle |-> 0,
              sign |-> 1, whole |-> NoField, minutes |-> NoField,
              seconds |-> NoField, fraction |-> NoField]

\* What a product with an error may be: a double below the bound stays so.
Product(k, bound) ==
    {p \in {k - 1, k, k + 1} : k >= 0 => p >= 0 /\ p < bound}

\* Radians to hours or degrees; the format is read.
Enter ==
    /\ rad.pc = "enter"
    /\ \E e \in {-1, 0, 1} :
          rad' = [rad EXCEPT !.pc = "sign",
                             !.angle = IF rad.input = 0 THEN 0
                                       ELSE rad.input + e]

Sign ==
    /\ rad.pc = "sign"
    /\ rad' = [rad EXCEPT !.pc = "round", !.angle = Abs(@),
                          !.sign = IF rad.angle < 0 THEN -1 ELSE 1]

\* Slip: the text is truncated.
RoundNot == rad.pc = "round" /\ rad' = [rad EXCEPT !.pc = "whole"]
Round ==
    /\ rad.pc = "round"
    /\ rad' = [rad EXCEPT !.pc = "whole", !.angle = @ + Half]

\* Slip: the sign is put into the number, where a zero loses it.
PlaceWholeSigned ==
    /\ rad.pc = "whole"
    /\ LET unit == Whole(rad.pformat)
       IN  \E left \in Product(rad.angle % unit, unit) :
              rad' = [rad EXCEPT
                        !.pc = "minutes",
                        !.whole = Ltostr(rad.sign * (rad.angle \div unit),
                                         Width(rad.pformat), 0),
                        !.angle = left]
PlaceWhole ==
    /\ rad.pc = "whole"
    /\ LET unit == Whole(rad.pformat)
       IN  \E left \in Product(rad.angle % unit, unit) :
              rad' = [rad EXCEPT
                        !.pc = "minutes",
                        !.whole = Ltostr(rad.angle \div unit,
                                         Width(rad.pformat), rad.sign),
                        !.angle = left]

PlaceMinutes ==
    /\ rad.pc = "minutes"
    /\ LET unit == Minute(rad.pformat)
       IN  \E left \in Product(rad.angle % unit, unit) :
              rad' = [rad EXCEPT !.pc = "seconds",
                                 !.minutes = Ltostr(rad.angle \div unit,
                                                    -2, 0),
                                 !.angle = left]

PlaceSeconds ==
    /\ rad.pc = "seconds"
    /\ LET unit == Second(rad.pformat)
       IN  \E left \in Product(rad.angle % unit, unit) :
              rad' = [rad EXCEPT !.pc = IF Decimals(rad.pformat) = 0
                                        THEN "done" ELSE "fraction",
                                 !.seconds = Ltostr(rad.angle \div unit,
                                                    -2, 0),
                                 !.angle = left]

\* Slip: rounded where it is cut off, without the carry.
PlaceFractionRounded ==
    /\ rad.pc = "fraction"
    /\ rad' = [rad EXCEPT !.pc = "done",
                          !.fraction = Ltostr((rad.angle + Half) \div 10,
                                              -Decimals(rad.pformat), 0)]
PlaceFraction ==
    /\ rad.pc = "fraction"
    /\ rad' = [rad EXCEPT !.pc = "done",
                          !.fraction = Ltostr(rad.angle \div 10,
                                              -Decimals(rad.pformat), 0)]

RadNext ==
    \/ Enter \/ Sign \/ Round \/ PlaceWhole \/ PlaceMinutes \/ PlaceSeconds
    \/ PlaceFraction

RadSpec == RadInit /\ [][RadNext]_rad

---------------------------------------------------------------------------

\* What the text says, in grains.
Read ==
    LET f == rad.pformat
        k == rad.whole.number * Whole(f) + rad.minutes.number * Minute(f)
               + rad.seconds.number * Second(f) + rad.fraction.number * 10
    IN  IF rad.whole.minus THEN -k ELSE k

(* The text is nearest to the angle, half of the last place off and the     *)
(* errors of four products more: an angle with no more places than are     *)
(* printed prints as itself and no field reaches 60, although each is cut  *)
(* off rather than rounded; and the sign survives degrees that are zero.   *)
(* rad2str.c:135-177, 250-254.                                             *)
NearestText ==
    rad.pc = "done" =>
        /\ Abs(Read - rad.input) <= Half + 4
        /\ rad.minutes.number < 60 /\ rad.seconds.number < 60

(* Minutes and seconds always print two characters and the fraction the    *)
(* places of its format, also where a carry fills or empties them, so these*)
(* columns line up.  The whole part has the format's width and may outgrow *)
(* it; of it, and of the separators, nothing is said here.                 *)
(* rad2str.c:161-176, 256-261.                                             *)
TextAligned ==
    LET n == Decimals(rad.pformat) IN
    rad.pc = "done" =>
        /\ rad.minutes.nochar = 2 /\ rad.seconds.nochar = 2
        /\ rad.fraction.nochar = n
=============================================================================

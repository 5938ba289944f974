-------------------------------- MODULE Cells --------------------------------
(***************************************************************************)
(* The cells of a result, from the binary format of PostgreSQL to what the *)
(* client reads (core/se_pqbin.c, core/se_numeric.c). A number is a list   *)
(* of decimal digits. A date or a time is the number the fields are made   *)
(* of by gmtime, or the fields. PostgreSQL counts from the year 2000, and  *)
(* gmtime from 1970.                                                       *)
(***************************************************************************)
EXTENDS Integers, Sequences, SequencesExt, FiniteSets

CONSTANTS DecDigits,    \* DEC_DIGITS: decimal digits in a digit of NUMERIC
          UsecsPerSec,  \* USECS_PER_SEC
          DayDiff,      \* days from 1970 to 2000
          SecDiff,      \* seconds from 1970 to 2000
          DaySeconds,   \* the seconds of a day, in the conversion of a date
          IntMax,       \* the largest int32_t
          Infinity      \* the largest int64_t

ASSUME CellsAssumption ==
    /\ DecDigits \in Nat \ {0} /\ UsecsPerSec \in Nat \ {0} /\ DayDiff \in Nat
    /\ SecDiff \in Nat /\ DaySeconds \in Nat \ {0} /\ IntMax \in Nat /\ IntMax >= 60
    /\ Infinity \in Nat

\* Division in C rounds towards zero, and int32_t wraps.
Quot(a, b) == IF a >= 0 THEN a \div b ELSE -((-a) \div b)
Rem(a, b)  == a - b * Quot(a, b)
Abs(a)     == IF a >= 0 THEN a ELSE -a
Wrap(n)    == ((n + IntMax + 1) % (2 * (IntMax + 1))) - (IntMax + 1)

-----------------------------------------------------------------------------
(* NUMERIC: digits of DecDigits decimals each, the first of which counts    *)
(* with the power weight; the text shows dscale decimals behind the point.  *)
(* (Zeros stand for the digits that are not there.)                         *)

Point == 10     \* the signs that are no digit
Minus == 11

Group(num, d) == IF d \in 0 .. Len(num.digits) - 1 THEN num.digits[d + 1]
                 ELSE [i \in 1 .. DecDigits |-> 0]

Groups(num, first, n) == FlattenSeq([k \in 1 .. n |-> Group(num, first + k - 1)])

\* The first digit loses the zeros it begins with, but never its last decimal.
Trimmed(decimals) ==
    LET zeros == {n \in 0 .. DecDigits - 1 : \A i \in 1 .. n : decimals[i] = 0}
    IN  SubSeq(decimals, Cardinality(zeros), Len(decimals))

\* get_str_from_var: the decimals behind the point are written digit by digit, and
\* cut off afterwards.
Sign(num)     == IF num.sign = "neg" THEN <<Minus>> ELSE <<>>
Whole(num)    == IF num.weight < 0 THEN <<0>> ELSE Trimmed(Groups(num, 0, num.weight + 1))
Fraction(num) == Groups(num, num.weight + 1, (num.dscale + DecDigits - 1) \div DecDigits)

NumericText(num) ==
    Sign(num) \o Whole(num)
        \o (IF num.dscale > 0 THEN <<Point>> \o SubSeq(Fraction(num), 1, num.dscale) ELSE <<>>)

AllocatedForText(num) ==   \* mutant: room for the digits, the point and the NUL
    (IF num.weight < 0 THEN 1 ELSE (num.weight + 1) * DecDigits) + num.dscale + 2

Allocated(num) ==
    (IF num.weight < 0 THEN 1 ELSE (num.weight + 1) * DecDigits) + num.dscale + DecDigits + 2

\* How far the block is written: the decimals that are cut off, or the NUL.
Written(num) ==
    LET behind == Len(Sign(num)) + Len(Whole(num)) + 1 + Len(Fraction(num))
    IN  IF num.dscale > 0 /\ behind > Len(NumericText(num)) THEN behind
        ELSE Len(NumericText(num)) + 1

-----------------------------------------------------------------------------
(* Dates and times. zone is the time zone of the session, in seconds east   *)
(* of Greenwich; the one TIMETZ carries counts to the west.                 *)

DateSeconds(n) == (n + DayDiff) * DaySeconds

\* SE_parse_date multiplies in int32_t: undefined when that overflows, and the build
\* may wrap or compute with more bits. The day is what gmtime makes of it.
DaysShown(n) == {s \div DaySeconds : s \in {Wrap(DateSeconds(n)), DateSeconds(n)}}

\* SE_parse_timestamp, in seconds since 1970, infinity like any other number; a zone
\* of zero has a minus.
SecondShown(usecs, shift) == Quot(usecs, UsecsPerSec) + SecDiff + shift
ZoneShown(zone) == [sign |-> IF zone > 0 THEN 1 ELSE -1, hour |-> Abs(Quot(zone, 3600)),
                    minute |-> Abs(Quot(Rem(zone, 3600), 60))]

FieldsUnsplit(t) ==   \* mutant: the minutes are not subtracted from the seconds
    {[hour |-> Wrap(Quot(t, 3600)), minute |-> Quot(Rem(t, 3600), 60),
      second |-> Wrap(t - Wrap(Quot(t, 3600)) * 3600)]}

\* SE_parse_time and SE_parse_interval: the hours are cut to an int32_t, and their
\* seconds are an int32_t product, undefined when it overflows, as for a date.
Fields(t) ==
    LET hour   == Wrap(Quot(t, 3600))
        minute == Quot(Rem(t, 3600), 60)
    IN  {[hour |-> hour, minute |-> minute, second |-> Wrap(t - s - minute * 60)]
            : s \in {Wrap(hour * 3600), hour * 3600}}

TimeShown(usecs, shift) == Fields(Quot(usecs, UsecsPerSec) + shift)

-----------------------------------------------------------------------------
(* One cell: what SE_reader shows of it, and what it should show.           *)

\* cell has the fields kind, num (NUMERIC), n (a day, or microseconds) and west.
Shown(cell, zone) ==
    CASE cell.kind = "numeric"     -> {NumericText(cell.num)}
      [] cell.kind = "date"        -> DaysShown(cell.n)
      [] cell.kind = "timestamp"   -> {SecondShown(cell.n, 0)}
      [] cell.kind = "timestamptz" -> {<<SecondShown(cell.n, zone), ZoneShown(zone)>>}
      [] cell.kind = "timetz"      ->
            TimeShown(cell.n, cell.west + zone) \X {ZoneShown(zone)}
      [] OTHER                     -> TimeShown(cell.n, 0)        \* time, interval

\* The decimal of a NUMERIC at the place p: units are at 0, tenths at -1.
Decimal(num, p) ==
    LET d == num.weight - (p \div DecDigits)
    IN  Group(num, d)[DecDigits - (p % DecDigits)]

\* The text has a sign when the number is negative, a point when the scale asks for
\* decimals behind it, the decimal of every place, none of those lost that come before
\* the first, and no zero there that is not the only one.
ReadsAs(text, num) ==
    LET negative == text[1] = Minus
        sign     == IF negative THEN 1 ELSE 0
        whole    == Len(text) - sign - (IF num.dscale > 0 THEN num.dscale + 1 ELSE 0)
        units    == sign + whole
        shown(p) == text[IF p >= 0 THEN units - p ELSE units + 1 - p]
    IN  /\ negative <=> num.sign = "neg"
        /\ num.dscale > 0 => text[units + 1] = Point
        /\ whole > 0 /\ (text[sign + 1] = 0 => whole = 1)
        /\ \A p \in -num.dscale .. whole - 1 : shown(p) = Decimal(num, p)
        /\ \A p \in whole .. (num.weight + 1) * DecDigits : Decimal(num, p) = 0

InZone(z) == z.sign * (z.hour * 3600 + z.minute * 60)
InDay(f)  == f.hour * 3600 + f.minute * 60 + f.second
IsClock(f) == f.minute \in 0 .. 59 /\ f.second \in 0 .. 59

\* A timestamp that is infinity or -infinity is no moment.
IsMoment(n) == n \notin {Infinity, -Infinity - 1}

RightlyShown(cell, zone, shown) ==
    CASE cell.kind = "numeric"   -> ReadsAs(shown, cell.num)
      [] cell.kind = "date"      -> shown = cell.n + DayDiff
      [] cell.kind = "timestamp" ->
            IsMoment(cell.n) /\ shown - SecDiff = cell.n \div UsecsPerSec
      [] cell.kind = "timestamptz" ->
            /\ IsMoment(cell.n)
            /\ shown[1] - InZone(shown[2]) - SecDiff = cell.n \div UsecsPerSec
            /\ InZone(shown[2]) = zone
      [] cell.kind = "timetz"    ->
            /\ InDay(shown[1]) - InZone(shown[2]) - cell.west = cell.n \div UsecsPerSec
            /\ InZone(shown[2]) = zone /\ IsClock(shown[1])
      [] OTHER -> IsClock(shown) /\ InDay(shown) = cell.n \div UsecsPerSec

\* Where that holds: NaN is no number to this code, and infinity a date like others; a
\* date fits when its seconds fit an int32_t, and a clock when those of its hours do;
\* before 2000 fractions of a second round up, a clock before midnight (of an interval,
\* or in another zone) has negative fields. The seconds of a zone that has any are not
\* shown.
WholeMinutes(zone) == zone % 60 = 0
Exact(n)      == IsMoment(n) /\ (n >= 0 \/ n % UsecsPerSec = 0)
FitsClock(t)  == t >= 0 /\ (t \div 3600) * 3600 <= IntMax

Representable(cell, zone) ==
    CASE cell.kind = "numeric"     -> cell.num.sign # "nan"
      [] cell.kind = "date"        -> DateSeconds(cell.n) \in -IntMax .. IntMax
      [] cell.kind = "timestamp"   -> Exact(cell.n)
      [] cell.kind = "timestamptz" -> WholeMinutes(zone) /\ Exact(cell.n)
      [] cell.kind = "timetz"      ->
            WholeMinutes(zone) /\ FitsClock((cell.n \div UsecsPerSec) + cell.west + zone)
      [] OTHER                     -> cell.n >= 0 /\ FitsClock(cell.n \div UsecsPerSec)
=============================================================================

------------------------------ MODULE Periods ------------------------------
(***************************************************************************)
(* The periods that the chart of the asset history offers, what the page   *)
(* makes of them day by day, and whether the API answers for them.         *)
(***************************************************************************)
EXTENDS Integers

CONSTANTS Years,        \* bound: the years of today
          MAX_POINTS    \* the API's limit

ASSUME YearsAssumption == Years \subseteq Int

VARIABLES today, preset

periodVars == <<today, preset>>

PeriodPreset == {"1m", "3m", "6m", "1y", "all"}
Months == [p \in PeriodPreset \ {"all"} |->
    CASE p = "1m" -> 1 [] p = "3m" -> 3 [] p = "6m" -> 6 [] OTHER -> 12]

-----------------------------------------------------------------------------
(* The calendar.                                                           *)

Leap(y) == y % 4 = 0 /\ (y % 100 # 0 \/ y % 400 = 0)
DaysIn(y, m) == IF m = 2 THEN (IF Leap(y) THEN 29 ELSE 28) ELSE IF m \in {4, 6, 9, 11} THEN 30 ELSE 31
Dates(years) == {d \in [y : years, m : 1 .. 12, d : 1 .. 31] : d.d <= DaysIn(d.y, d.m)}

\* Months since the year 0, and the month that is n months before d's.
MonthNumber(d) == 12 * d.y + d.m - 1
MonthBefore(d, n) ==
    LET k == MonthNumber(d) - n IN [y |-> k \div 12, m |-> (k % 12) + 1]

\* Days since 1 March of the year 0.
DayNumber(d) ==
    LET y == IF d.m > 2 THEN d.y ELSE d.y - 1
        m == (d.m + 9) % 12
    IN  365 * y + y \div 4 - y \div 100 + y \div 400 + (153 * m + 2) \div 5 + d.d - 1

Tomorrow(d) ==
    IF d.d < DaysIn(d.y, d.m) THEN [d EXCEPT !.d = @ + 1]
    ELSE IF d.m < 12 THEN [d EXCEPT !.m = @ + 1, !.d = 1]
    ELSE [y |-> d.y + 1, m |-> 1, d |-> 1]

\* Date.setMonth: a day that the month does not have runs into the next one.
SetMonthBack(d, n) ==
    LET k == MonthBefore(d, n)
        over == d.d - DaysIn(k.y, k.m)
        next == MonthBefore([y |-> k.y, m |-> k.m], 0 - 1)
    IN  IF over <= 0 THEN [y |-> k.y, m |-> k.m, d |-> d.d]
        ELSE [y |-> next.y, m |-> next.m, d |-> over]

\* Date.setDate(0)
LastOfMonthBefore(d) ==
    LET k == MonthBefore(d, 1) IN [y |-> k.y, m |-> k.m, d |-> DaysIn(k.y, k.m)]

-----------------------------------------------------------------------------
ALL_PERIOD_START == [y |-> 2000, m |-> 1, d |-> 1]

\* Mutant: the day is not put right.
ResolveFromAsSet(p) == IF p = "all" THEN ALL_PERIOD_START ELSE SetMonthBack(today, Months[p])

ResolveFrom(p) ==
    IF p = "all" THEN ALL_PERIOD_START
    ELSE LET from == SetMonthBack(today, Months[p])
         IN  IF from.d # today.d THEN LastOfMonthBefore(from) ELSE from

\* The API counts the days of the period, whatever the granularity.
Accepted(p) == DayNumber(today) - DayNumber(ResolveFrom(p)) + 1 \in 1 .. MAX_POINTS

-----------------------------------------------------------------------------
PeriodInit == today \in Dates(Years) /\ today.m = 1 /\ today.d = 1 /\ preset = "6m"

ChoosePreset == preset' \in PeriodPreset \ {preset} /\ UNCHANGED today

Midnight == today' = Tomorrow(today) /\ today' \in Dates(Years) /\ UNCHANGED preset

PeriodNext == ChoosePreset \/ Midnight

PeriodSpec == PeriodInit /\ [][PeriodNext]_periodVars

-----------------------------------------------------------------------------
\* A period of n months begins on the same day n months before, or on the last
\* day of that month if it is shorter, and never in the month after it
\* (resolveRange).
PeriodIsMonths ==
    preset # "all" =>
        LET from == ResolveFrom(preset)
        IN  /\ MonthNumber(from) = MonthNumber(today) - Months[preset]
            /\ from.d = today.d \/ (from.d < today.d /\ from.d = DaysIn(from.y, from.m))

\* Every period that the page offers is answered (format.ts: a year and more is
\* asked for by month, to keep the points few; analytics.rs: month is used when
\* the period has more than 2000 points).
EveryPresetIsAnswered == Accepted(preset)
=============================================================================

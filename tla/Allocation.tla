----------------------------- MODULE Allocation -----------------------------
(***************************************************************************)
(* The shares of the classes in the value of a day: `allocation` takes the *)
(* points of the one-day history and `assign_ratios` gives each class a    *)
(* number of units, 0.01% each, by the largest-remainder method.           *)
(*                                                                         *)
(* A class is a number, in the order of the keys.  The loops of the code   *)
(* are loops here, one item a step, so that the additions can be followed. *)
(***************************************************************************)
EXTENDS Integers, Sequences, FiniteSets, Functions

CONSTANTS Class,        \* the classes a history may have
          Value,        \* what a class may be worth, in yen
          TOTAL_UNITS   \* 100.00% in steps of 0.01

ASSUME ClassAssumption == Class \subseteq Nat /\ IsFiniteSet(Class)
ASSUME ValueAssumption == Value \subseteq Nat
ASSUME UnitsAssumption == TOTAL_UNITS \in Nat

VARIABLES
    points,     \* the value of each class that has a point on the day
    phase,
    slices,     \* the classes to be shown, in the order of the answer
    sums,       \* what `sum` has added up after each slice
    floors,     \* the units of each slice
    remainders, \* what the division of each slice has left
    given,      \* the sum of `floors`
    ranking,    \* the slices by their remainders
    deficit,    \* the units that rounding down has left over
    handed      \* how many of them are given back

allocationVars == <<points, phase, slices, sums, floors, remainders, given, ranking, deficit, handed>>

Phase == {"collect", "sum", "divide", "rank", "hand", "done"}

Worth(n) == points[slices[n]]
total == sums[Len(slices)]

AllocationInit ==
    /\ points \in UNION {[K -> Value] : K \in SUBSET Class}
    /\ phase = "collect"
    /\ slices = << >> /\ sums = << >>
    /\ floors = << >> /\ remainders = << >> /\ given = 0
    /\ ranking = << >> /\ deficit = 0 /\ handed = 0

-----------------------------------------------------------------------------
\* The classes that get a share.
Positive == {c \in DOMAIN points : points[c] > 0}

\* All arrangements of a finite set.
Arrangements(S) == Bijection(1 .. Cardinality(S), S)

\* The larger value first, then the smaller key.
Precedes(c, d) ==
    \/ points[c] > points[d]
    \/ points[c] = points[d] /\ c < d

\* Keep the classes worth something and sort them; without any the answer is empty.
Collect ==
    /\ phase = "collect"
    /\ \E s \in Arrangements(Positive) :
        /\ \A m, n \in DOMAIN s : m < n => Precedes(s[m], s[n])
        /\ slices' = s
    /\ phase' = IF Positive = {} THEN "done" ELSE "sum"
    /\ UNCHANGED <<points, sums, floors, remainders, given, ranking, deficit, handed>>

\* One more value is added to the total.
Sum ==
    /\ phase = "sum"
    /\ LET n == Len(sums) + 1
       IN  /\ sums' = Append(sums, Worth(n) + (IF n = 1 THEN 0 ELSE sums[n - 1]))
           /\ phase' = IF n = Len(slices) THEN "divide" ELSE "sum"
    /\ UNCHANGED <<points, slices, floors, remainders, given, ranking, deficit, handed>>

\* The units of one more slice, rounded down.
Divide ==
    /\ phase = "divide"
    /\ LET n == Len(floors) + 1
           raw == Worth(n) * TOTAL_UNITS
       IN  /\ floors' = Append(floors, raw \div total)
           /\ remainders' = Append(remainders, raw % total)
           /\ given' = given + raw \div total
           /\ phase' = IF n = Len(slices) THEN "rank" ELSE "divide"
    /\ UNCHANGED <<points, slices, sums, ranking, deficit, handed>>

\* Mutant: a sort that turns equal remainders round.
RanksBeforeUnstable(m, n) ==
    \/ remainders[m] > remainders[n]
    \/ remainders[m] = remainders[n] /\ m > n

\* A stable sort: equal remainders stay in the order of the slices.
RanksBefore(m, n) ==
    \/ remainders[m] > remainders[n]
    \/ remainders[m] = remainders[n] /\ m < n

\* What rounding down has left over is computed once, and never below zero.
Rank ==
    /\ phase = "rank"
    /\ \E r \in Arrangements(DOMAIN slices) :
        /\ \A m, n \in DOMAIN r : m < n => RanksBefore(r[m], r[n])
        /\ ranking' = r
    /\ deficit' = IF TOTAL_UNITS > given THEN TOTAL_UNITS - given ELSE 0
    /\ phase' = "hand"
    /\ UNCHANGED <<points, slices, sums, floors, remainders, given, handed>>

\* One more of the first `deficit` slices gets one unit more.
Hand ==
    /\ phase = "hand"
    /\ handed < deficit /\ handed < Len(ranking)
    /\ floors' = [floors EXCEPT ![ranking[handed + 1]] = @ + 1]
    /\ given' = given + 1
    /\ handed' = handed + 1
    /\ UNCHANGED <<points, phase, slices, sums, remainders, ranking, deficit>>

\* Mutant: one unit is kept back.
FinishEarly ==
    /\ phase = "hand"
    /\ handed >= deficit - 1 \/ handed = Len(ranking)
    /\ phase' = "done"
    /\ UNCHANGED <<points, slices, sums, floors, remainders, given, ranking, deficit, handed>>

Finish ==
    /\ phase = "hand"
    /\ handed = deficit \/ handed = Len(ranking)
    /\ phase' = "done"
    /\ UNCHANGED <<points, slices, sums, floors, remainders, given, ranking, deficit, handed>>

AllocationNext == Collect \/ Sum \/ Divide \/ Rank \/ Hand \/ Finish

AllocationSpec == AllocationInit /\ [][AllocationNext]_allocationVars

-----------------------------------------------------------------------------
Answered == phase = "done" /\ slices # << >>

\* The ratios of an answer add up to 100.00: the unit test of the code tries
\* four lists, and the loops rely on fewer units being left over than there are
\* slices.
RatiosSumTo100 == Answered => given = TOTAL_UNITS

\* A class that is worth more never has the smaller ratio, although what is left
\* over goes to other slices than the largest ones: the list stays sorted.
RatiosStaySorted ==
    Answered =>
        \A m, n \in DOMAIN slices : m < n => floors[m] >= floors[n]
=============================================================================

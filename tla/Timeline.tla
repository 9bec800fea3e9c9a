------------------------------ MODULE Timeline ------------------------------
(***************************************************************************)
(* How asset-history and the snapshot batch look back in time: the trades  *)
(* of one position are folded in the order in which the database returns   *)
(* them, and the holding at the end of each trading day is kept; a day is  *)
(* then looked up by binary search and valued if its exchange rate and its *)
(* price are known.  The position is in a foreign currency when FirstRate  *)
(* leaves days without a rate.  Amounts are module PositionFold's subject; *)
(* here a holding is its quantity.                                         *)
(***************************************************************************)
EXTENDS Naturals, SequencesExt

CONSTANTS LastDay,     \* the days are 1 .. LastDay
          MaxQty,      \* bound on the quantity of a trade
          MaxFolded    \* bound on the number of trades

ASSUME TimelineAssumption == LastDay \in Nat /\ MaxQty \in Nat

Day == 1 .. LastDay
DayTrade == [kind: {"buy", "sell"}, qty: 1 .. MaxQty, day: Day]

VARIABLES
    trades,         \* the trades folded so far
    timeline,       \* [day, quantity], one entry per trading day
    unconvertible,  \* a trade could not be converted to yen
    firstRate,      \* the first day with a rate on or before it
    firstPrice      \* the first day with a price on or before it

timelineVars == <<trades, timeline, unconvertible, firstRate, firstPrice>>

TimelineInit ==
    /\ trades = << >>
    /\ timeline = << >>
    /\ unconvertible = FALSE
    /\ firstRate \in 1 .. LastDay + 1
    /\ firstPrice \in 1 .. LastDay + 1

-----------------------------------------------------------------------------
\* What a sequence of trades holds at the end of a day.
Net(s, d) ==
    FoldLeft(LAMBDA q, t : IF t.day > d THEN q
                           ELSE IF t.kind = "buy" THEN q + t.qty ELSE q - t.qty, 0, s)

\* The committed trades of a position, by day: no sale exceeds what is held.
Follows(t) ==
    /\ Len(trades) < MaxFolded
    /\ trades # << >> => Last(trades).day <= t.day
    /\ t.kind = "sell" => t.qty <= Net(trades, t.day)
    /\ trades' = Append(trades, t)

RateKnown(d) == firstRate <= d
LastQuantity == IF timeline = << >> THEN 0 ELSE Last(timeline).quantity

Refuses(t) == t.kind = "sell" /\ LastQuantity < t.qty
After(t) == IF t.kind = "buy" THEN LastQuantity + t.qty ELSE LastQuantity - t.qty

\* No rate for the day of the trade: the trade is left out.
SkipUnrated(t) ==
    /\ ~RateKnown(t.day)
    /\ Follows(t)
    /\ unconvertible' = TRUE
    /\ UNCHANGED <<timeline, firstRate, firstPrice>>

\* Without the trades left out, a sale may exceed the rest: it is left out, too.
SkipRefused(t) ==
    /\ RateKnown(t.day) /\ Refuses(t)
    /\ Follows(t)
    /\ unconvertible' = TRUE
    /\ UNCHANGED <<timeline, firstRate, firstPrice>>

\* A further trade of the last day replaces what that day had been left with.
Overwrite(t) ==
    /\ RateKnown(t.day) /\ ~Refuses(t)
    /\ timeline # << >> /\ Last(timeline).day = t.day
    /\ Follows(t)
    /\ timeline' = Append(Front(timeline), [day |-> t.day, quantity |-> After(t)])
    /\ UNCHANGED <<unconvertible, firstRate, firstPrice>>

Push(t) ==
    /\ RateKnown(t.day) /\ ~Refuses(t)
    /\ timeline # << >> => Last(timeline).day # t.day
    /\ Follows(t)
    /\ timeline' = Append(timeline, [day |-> t.day, quantity |-> After(t)])
    /\ UNCHANGED <<unconvertible, firstRate, firstPrice>>

TimelineNext == \E t \in DayTrade : SkipUnrated(t) \/ SkipRefused(t) \/ Overwrite(t) \/ Push(t)

TimelineSpec == TimelineInit /\ [][TimelineNext]_timelineVars

-----------------------------------------------------------------------------
(* Looking up and valuing a day.                                           *)

\* Mutant: the entry of the day itself is not found.
PartitionPointBefore(d) == Cardinality({i \in DOMAIN timeline : timeline[i].day < d})

\* partition_point: how many entries are on or before the day.
PartitionPoint(d) == Cardinality({i \in DOMAIN timeline : timeline[i].day <= d})

QuantityAt(d) ==
    IF PartitionPoint(d) = 0 THEN 0 ELSE timeline[PartitionPoint(d)].quantity

\* evaluate_day: nothing is said of a position that holds nothing; one that
\* cannot be valued is counted as unpriced.
Evaluate(d) ==
    IF QuantityAt(d) = 0 THEN "absent"
    ELSE IF unconvertible \/ ~RateKnown(d) \/ d < firstPrice THEN "unpriced"
    ELSE "valued"

-----------------------------------------------------------------------------
(* Properties.                                                             *)

\* A day that is valued shows what folding all trades up to that day would give,
\* and so does every day when each trade could be converted: a value is never
\* computed from a part of the trades.
TimelineIsFold ==
    \A d \in Day :
        Evaluate(d) = "valued" \/ ~unconvertible => QuantityAt(d) = Net(trades, d)
=============================================================================

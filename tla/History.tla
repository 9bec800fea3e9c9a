------------------------------ MODULE History ------------------------------
(***************************************************************************)
(* How the values of single positions become the chart of the asset        *)
(* history: the API adds them up by group and day and rounds the sums, the *)
(* page turns the series into one row a day.                               *)
(*                                                                         *)
(* The positions of a day come in the order of a hash map, that is, in any *)
(* order.  Amounts are counts of 1/Unit yen.                               *)
(***************************************************************************)
EXTENDS Integers, FiniteSets, FiniteSetsExt

CONSTANTS Position,     \* the positions: <<account, asset>>
          Values,        \* what a position may be worth
          Unit,         \* a yen
          LastDate      \* the days are 1 .. LastDate

ASSUME ChartAssumption == IsFiniteSet(Position) /\ Values \subseteq Nat /\ Unit \in Nat \ {0}

ChartDays == 1 .. LastDate

\* A position that holds nothing on a day, and one without price or rate.
Absent == -1
NoValue == -2
Worths == Values \cup {Absent, NoValue}

VARIABLES
    by,         \* the axis of the groups
    known,      \* the positions that the groups are made from
    perDay,     \* what each position is worth on each day
    todo,       \* the values that have not been added yet
    acc,        \* by group and day: the sum, and the assets without a value
    series,     \* the answer: the points of each group
    merged,     \* the groups whose points are in the rows
    rows        \* the rows of the chart

historyVars == <<by, known, perDay, todo, acc, series, merged, rows>>

Held(p) == \E d \in ChartDays : perDay[d][p] # Absent

GroupOf(p) ==
    CASE by = "none" -> "total" [] by = "account" -> p[1] [] by = "asset" -> p[2]

Keys == {GroupOf(p) : p \in known}
NoSum == [market |-> 0, unpriced |-> {}]

\* Recomputed, the groups are those of all positions that were ever traded; from
\* snapshots, those of the positions that the snapshots have.
HistoryInit ==
    /\ by \in {"none", "account", "asset"}
    /\ perDay \in [ChartDays -> [Position -> Worths]]
    /\ known \in SUBSET Position /\ {p \in Position : Held(p)} \subseteq known
    /\ todo = {x \in ChartDays \X Position : perDay[x[1]][x[2]] # Absent}
    /\ acc = [x \in Keys \X ChartDays |-> NoSum]
    /\ series = << >> /\ merged = {} /\ rows = << >>

\* Mutant: every position counts.
WithUnpricedPosition(a, p) == [a EXCEPT !.unpriced = @ \cup {p}]

WithUnpriced(a, p) == [a EXCEPT !.unpriced = @ \cup {p[2]}]
WithMarket(a, v) == [a EXCEPT !.market = @ + v]

Add(d, p) ==
    /\ <<d, p>> \in todo
    /\ todo' = todo \ {<<d, p>>}
    /\ acc' = [acc EXCEPT ![<<GroupOf(p), d>>] =
            IF perDay[d][p] = NoValue THEN WithUnpriced(@, p)
            ELSE WithMarket(@, perDay[d][p])]
    /\ UNCHANGED <<by, known, perDay, series, merged, rows>>

\* round_dp(0): to the nearest yen, a half to the even one.
Round(v) ==
    LET q == v \div Unit
        r == 2 * (v % Unit)
    IN  IF r < Unit \/ (r = Unit /\ q % 2 = 0) THEN q ELSE q + 1

Point(k, d) == [market |-> Round(acc[<<k, d>>].market), unpriced |-> Cardinality(acc[<<k, d>>].unpriced)]

\* Each group gets a point a day, on days on which it holds nothing as well.
Answer ==
    /\ todo = {} /\ series = << >> /\ known # {}
    /\ series' = [k \in Keys |-> [d \in ChartDays |-> Point(k, d)]]
    /\ rows' = [d \in ChartDays |-> [unpricedCount |-> 0, values |-> << >>]]
    /\ UNCHANGED <<by, known, perDay, todo, acc, merged>>

\* One more series of the answer goes into the rows.
Merge(k) ==
    /\ k \in DOMAIN series \ merged
    /\ merged' = merged \cup {k}
    /\ rows' = [d \in DOMAIN rows |->
            [unpricedCount |-> rows[d].unpricedCount + series[k][d].unpriced,
             values |-> [j \in DOMAIN rows[d].values \cup {k} |->
                            IF j = k THEN series[k][d].market ELSE rows[d].values[j]]]]
    /\ UNCHANGED <<by, known, perDay, todo, acc, series>>

HistoryNext ==
    \/ \E d \in ChartDays, p \in Position : Add(d, p)
    \/ Answer
    \/ \E k \in DOMAIN series : Merge(k)

HistorySpec == HistoryInit /\ [][HistoryNext]_historyVars

-----------------------------------------------------------------------------
Charted == series # << >> /\ merged = DOMAIN series

Exact(d) == MapThenSumSet(LAMBDA p : IF perDay[d][p] \in Values THEN perDay[d][p] ELSE 0, Position)
Unpriced(d) == {p \in Position : perDay[d][p] = NoValue}

\* The stacked chart shows what the positions are worth: each row has a value for
\* each series, and the stack is off by half a yen a series at most.  The assets
\* without a value are all counted, and counted once if no two groups share one.
ChartAddsUp ==
    Charted => \A d \in ChartDays :
        LET stack == MapThenSumSet(LAMBDA k : rows[d].values[k], DOMAIN series)
            off == stack * Unit - Exact(d)
            assets == Cardinality({p[2] : p \in Unpriced(d)})
        IN  /\ DOMAIN rows[d].values = DOMAIN series
            /\ 2 * off \in -(Unit * Cardinality(DOMAIN series)) .. Unit * Cardinality(DOMAIN series)
            /\ rows[d].unpricedCount >= assets
            /\ by # "account" => rows[d].unpricedCount = assets
=============================================================================

---------------------------- MODULE SnapshotCache ----------------------------
(***************************************************************************)
(* The cached daily snapshots of one user: the transactions that change    *)
(* trades and cut the cache from a day on, the batch that recomputes days, *)
(* and GET /analytics/asset-history, which answers from the cache when     *)
(* every day it shows is marked as computed.                               *)
(*                                                                         *)
(* Statements are the atomic steps, except that a DELETE takes the rows it *)
(* saw when it started one by one and waits for each that another database *)
(* transaction has already deleted or updated: READ COMMITTED as           *)
(* PostgreSQL implements it.  A trade buys one unit; what the write path   *)
(* checks before it cuts the cache is the subject of module Ledger.        *)
(***************************************************************************)
EXTENDS Naturals, FiniteSets

CONSTANTS Position,      \* (account, asset) pairs
          LastDay,       \* the days are 1 .. LastDay
          Writer,        \* calls that change a trade
          Runner,        \* batch runs over this user
          Overlap,       \* whether a run may start while another is under way
          NoRun,         \* the run that wrote what is there at the start
          Reader,        \* asset-history requests over all days
          Changes,       \* what writers do: subset of {"create", "delete"}
          InitialTrades, \* trades committed at the start
          MaxQuote       \* bound on price posts per asset

Day == 1 .. LastDay
Trade == [pos: Position, day: Day]
Quote == 0 .. MaxQuote

(***************************************************************************)
(* by is the run that inserted the row: a DELETE that waited for a row and *)
(* finds it gone leaves alone the row that took its place.  made is the    *)
(* run that last computed the day (computed_at): an update keeps the row.  *)
(***************************************************************************)
Row == [day: Day, pos: Position, qty: Nat, quote: Quote, by: Runner \union {NoRun}]
Mark == [day: Day, count: Nat, by: Runner \union {NoRun}, made: Runner \union {NoRun}]
Tag == [day: Day, by: Runner \union {NoRun}]

Change == [op: {"create", "delete"}, trade: Trade]
Proc == Writer \union Runner \union Reader
NoChange == [op |-> "create", trade |-> [pos |-> 0, day |-> 0]]

ASSUME DayAssumption == LastDay \in Nat \ {0}
ASSUME TradesAssumption == InitialTrades \subseteq Trade
ASSUME NoRunAssumption == NoRun \notin Runner
ASSUME OverlapAssumption == Overlap \in BOOLEAN
ASSUME ProcAssumption ==
    /\ Writer \intersect Runner = {}
    /\ Writer \intersect Reader = {}
    /\ Runner \intersect Reader = {}

VARIABLES
    trades,    \* committed trades
    quote,     \* latest price of each position's asset
    daily,     \* committed rows of daily_snapshots
    marks,     \* committed rows of snapshot_days
    pc,        \* where each process is
    change,    \* a writer's change
    got,       \* trades a run or a reader has read
    priced,    \* prices it has read
    at,        \* the day a run is at
    until,     \* the last day of its range
    seen,      \* daily rows a DELETE statement still has to take
    gone,      \* daily rows deleted, not committed
    put,       \* daily rows inserted, not committed
    seenMarks, \* markers a DELETE statement still has to take
    unmark,    \* markers deleted, not committed
    mark,      \* markers inserted or updated, not committed
    answer     \* what a reader returned from the cache, once it has

tables == <<trades, quote, daily, marks>>
reads == <<got, priced>>
range == <<at, until>>
writes == <<seen, gone, put, seenMarks, unmark, mark>>
vars == <<tables, pc, change, reads, range, writes, answer>>

-----------------------------------------------------------------------------
\* Units held at the end of a day.
Held(S, p, d) == Cardinality({t \in S : t.pos = p /\ t.day <= d})

\* The rows of a day: one per position that is not empty then.
EvaluateDay(S, q, d, run) ==
    {[day |-> d, pos |-> p, qty |-> Held(S, p, d), quote |-> q[p], by |-> run] :
        p \in {p \in Position : Held(S, p, d) > 0}}

RowsOn(R, d) == {row \in R : row.day = d}
Days(M) == {m.day : m \in M}
TagOf(m) == [day |-> m.day, by |-> m.by]
Tags(M) == {TagOf(m) : m \in M}

NoQuotes == [p \in Position |-> 0]

\* The cache starts complete and right, as a run leaves it.
Init ==
    /\ trades = InitialTrades
    /\ quote = NoQuotes
    /\ daily = UNION {EvaluateDay(InitialTrades, NoQuotes, d, NoRun) : d \in Day}
    /\ marks = {[day |-> d, count |-> Cardinality(RowsOn(daily, d)),
                 by |-> NoRun, made |-> NoRun] : d \in Day}
    /\ pc = [x \in Proc |-> "idle"]
    /\ change = [w \in Writer |-> NoChange]
    /\ got = [x \in Runner \union Reader |-> {}]
    /\ priced = [x \in Runner \union Reader |-> NoQuotes]
    /\ at = [r \in Runner |-> 1]
    /\ until = [r \in Runner |-> 1]
    /\ seen = [x \in Proc |-> {}]
    /\ gone = [x \in Proc |-> {}]
    /\ put = [x \in Proc |-> {}]
    /\ seenMarks = [x \in Proc |-> {}]
    /\ unmark = [x \in Proc |-> {}]
    /\ mark = [x \in Proc |-> {}]
    /\ answer = [q \in Reader |-> {}]

Goto(x, phase) == pc' = [pc EXCEPT ![x] = phase]
Ended == {"cached", "done", "failed"}

\* The database transaction of x ends; its locks go with it.
Release(x) ==
    /\ seen' = [seen EXCEPT ![x] = {}]
    /\ gone' = [gone EXCEPT ![x] = {}]
    /\ put' = [put EXCEPT ![x] = {}]
    /\ seenMarks' = [seenMarks EXCEPT ![x] = {}]
    /\ unmark' = [unmark EXCEPT ![x] = {}]
    /\ mark' = [mark EXCEPT ![x] = {}]

\* A DELETE that x has started takes one more row, unless another transaction
\* has taken it first: then x waits, and finds the row gone if that one commits.
DeleteRow(x) ==
    \E row \in seen[x] :
        /\ \A y \in Proc \ {x} : row \notin gone[y]
        /\ seen' = [seen EXCEPT ![x] = @ \ {row}]
        /\ gone' = [gone EXCEPT ![x] = IF row \in daily THEN @ \union {row} ELSE @]
        /\ UNCHANGED <<tables, pc, change, reads, range, put, seenMarks, unmark, mark, answer>>

-----------------------------------------------------------------------------
(* A call that creates or deletes a trade.                                 *)

Apply(c) == IF c.op = "create" THEN trades \union {c.trade} ELSE trades \ {c.trade}

\* Under the advisory lock of its position.
WriteTrade(w) ==
    /\ pc[w] = "idle"
    /\ \E c \in Change :
        /\ c.op \in Changes
        /\ c.trade \in trades <=> c.op = "delete"
        /\ \A v \in Writer : pc[v] \notin {"idle"} \union Ended =>
               change[v].trade.pos # c.trade.pos
        /\ change' = [change EXCEPT ![w] = c]
    /\ Goto(w, "wrote")
    /\ UNCHANGED <<tables, reads, range, writes, answer>>

\* invalidate_from, first statement: the daily rows from the trade's day on.
StartCut(w) ==
    /\ pc[w] = "wrote"
    /\ seen' = [seen EXCEPT ![w] = {row \in daily : change[w].trade.day <= row.day}]
    /\ Goto(w, "cutDaily")
    /\ UNCHANGED <<tables, change, reads, range, gone, put, seenMarks, unmark, mark, answer>>

CutRow(w) == pc[w] = "cutDaily" /\ DeleteRow(w)

\* Mutant: only the marker of the trade's day is deleted.
StartUnmarkDay(w) ==
    /\ pc[w] = "cutDaily" /\ seen[w] = {}
    /\ seenMarks' = [seenMarks EXCEPT ![w] =
                        Tags({m \in marks : change[w].trade.day = m.day})]
    /\ Goto(w, "cutDays")
    /\ UNCHANGED <<tables, change, reads, range, seen, gone, put, unmark, mark, answer>>

\* invalidate_from, second statement: the markers from that day on.
StartUnmark(w) ==
    /\ pc[w] = "cutDaily" /\ seen[w] = {}
    /\ seenMarks' = [seenMarks EXCEPT ![w] =
                        Tags({m \in marks : change[w].trade.day <= m.day})]
    /\ Goto(w, "cutDays")
    /\ UNCHANGED <<tables, change, reads, range, seen, gone, put, unmark, mark, answer>>

\* A marker that a run has updated meanwhile is waited for, then deleted too.
UnmarkDay(w) ==
    /\ pc[w] = "cutDays"
    /\ \E tag \in seenMarks[w] :
        /\ \A y \in Proc \ {w} : tag \notin unmark[y] \union Tags(mark[y])
        /\ seenMarks' = [seenMarks EXCEPT ![w] = @ \ {tag}]
        /\ unmark' = [unmark EXCEPT ![w] = IF tag \in Tags(marks) THEN @ \union {tag} ELSE @]
    /\ UNCHANGED <<tables, pc, change, reads, range, seen, gone, put, mark, answer>>

CommitChange(w) ==
    /\ pc[w] = "cutDays" /\ seenMarks[w] = {}
    /\ trades' = Apply(change[w])
    /\ daily' = daily \ gone[w]
    /\ marks' = {m \in marks : TagOf(m) \notin unmark[w]}
    /\ Goto(w, "done")
    /\ Release(w)
    /\ UNCHANGED <<quote, change, reads, range, answer>>

\* PUT /assets/{id}/prices is a statement of its own and cuts nothing.
PostPrice(p) ==
    /\ quote[p] < MaxQuote
    /\ quote' = [quote EXCEPT ![p] = @ + 1]
    /\ UNCHANGED <<trades, daily, marks, pc, change, reads, range, writes, answer>>

-----------------------------------------------------------------------------
(* POST /snapshots/run for this user: the days from one to another, by     *)
(* default the last seven.                                                 *)

\* prepare: trades and prices are read on the pool, outside the transaction.
StartRun(r) ==
    /\ pc[r] = "idle"
    /\ Overlap \/ \A n \in Runner : pc[n] \in {"idle"} \union Ended
    /\ \E from, to \in Day :
        /\ from <= to
        /\ at' = [at EXCEPT ![r] = from]
        /\ until' = [until EXCEPT ![r] = to]
    /\ got' = [got EXCEPT ![r] = trades]
    /\ Goto(r, "quotes")
    /\ UNCHANGED <<tables, change, priced, writes, answer>>

ReadQuotes(r) ==
    /\ pc[r] = "quotes"
    /\ priced' = [priced EXCEPT ![r] = quote]
    /\ Goto(r, IF r \in Runner THEN "open" ELSE "done")
    /\ UNCHANGED <<tables, change, got, range, writes, answer>>

\* Mutant: a day is evaluated as it began.
NewRowsAtDawn(r) ==
    {[row EXCEPT !.day = at[r]] : row \in EvaluateDay(got[r], priced[r], at[r] - 1, r)}
NewRows(r) == EvaluateDay(got[r], priced[r], at[r], r)
SameKey(row, other) == row.day = other.day /\ row.pos = other.pos

\* Mutant: only the rows that are to be replaced are deleted, not those of positions
\* that have gone.
StartDayHeld(r) ==
    /\ pc[r] = "open"
    /\ seen' = [seen EXCEPT ![r] = {row \in RowsOn(daily, at[r]) :
                                        \E new \in NewRows(r) : SameKey(row, new)}]
    /\ Goto(r, "clear")
    /\ UNCHANGED <<tables, change, reads, range, gone, put, seenMarks, unmark, mark, answer>>

\* upsert_day: the day's rows are deleted, ...
StartDay(r) ==
    /\ pc[r] = "open"
    /\ seen' = [seen EXCEPT ![r] = RowsOn(daily, at[r])]
    /\ Goto(r, "clear")
    /\ UNCHANGED <<tables, change, reads, range, gone, put, seenMarks, unmark, mark, answer>>

ClearRow(r) == pc[r] = "clear" /\ DeleteRow(r)

\* A row with the key of one that another transaction is inserting or deleting
\* waits for that transaction; one with the key of a committed row fails.
MustWait(r, row) ==
    \E y \in Proc \ {r} : \E other \in put[y] \union gone[y] : SameKey(row, other)
Taken(r, row) == \E other \in daily \ gone[r] : SameKey(row, other)

\* Mutant: the rows of a day are written on the pool, outside the transaction.
InsertDayAtOnce(r) ==
    /\ pc[r] = "clear" /\ seen[r] = {}
    /\ \A row \in NewRows(r) : ~MustWait(r, row) /\ ~Taken(r, row)
    /\ daily' = (daily \ gone[r]) \union NewRows(r)
    /\ gone' = [gone EXCEPT ![r] = {}]
    /\ Goto(r, "mark")
    /\ UNCHANGED <<trades, quote, marks, change, reads, range, seen, put, seenMarks, unmark,
                   mark, answer>>

\* ... the new ones inserted, ...
InsertDay(r) ==
    /\ pc[r] = "clear" /\ seen[r] = {}
    /\ \A row \in NewRows(r) : ~MustWait(r, row) /\ ~Taken(r, row)
    /\ put' = [put EXCEPT ![r] = @ \union NewRows(r)]
    /\ Goto(r, "mark")
    /\ UNCHANGED <<tables, change, reads, range, seen, gone, seenMarks, unmark, mark, answer>>

\* (a primary key violation: the user is skipped)
InsertFails(r) ==
    /\ pc[r] = "clear" /\ seen[r] = {}
    /\ \E row \in NewRows(r) : ~MustWait(r, row) /\ Taken(r, row)
    /\ Goto(r, "failed")
    /\ Release(r)
    /\ UNCHANGED <<tables, change, reads, range, answer>>

NewMark(r) ==
    LET there == {m \in marks : m.day = at[r]}
    IN  [day |-> at[r],
         count |-> Cardinality(NewRows(r)),
         by |-> IF there = {} THEN r ELSE (CHOOSE m \in there : TRUE).by,
         made |-> r]

\* ... and the day's marker inserted, or updated in place.
MarkDay(r) ==
    /\ pc[r] = "mark"
    /\ \A y \in Proc \ {r} : at[r] \notin Days(unmark[y] \union mark[y])
    /\ mark' = [mark EXCEPT ![r] = @ \union {NewMark(r)}]
    /\ IF at[r] < until[r] THEN Goto(r, "open") /\ at' = [at EXCEPT ![r] = @ + 1]
                           ELSE Goto(r, "commit") /\ UNCHANGED at
    /\ UNCHANGED <<tables, change, reads, until, seen, gone, put, seenMarks, unmark, answer>>

\* The days of the range are replaced, the others stay as they were.
CommitRun(r) ==
    /\ pc[r] = "commit"
    /\ daily' = (daily \ gone[r]) \union put[r]
    /\ marks' = {m \in marks : m.day \notin Days(mark[r])} \union mark[r]
    /\ Goto(r, "done")
    /\ Release(r)
    /\ UNCHANGED <<trades, quote, change, reads, range, answer>>

-----------------------------------------------------------------------------
(* GET /analytics/asset-history over all days.                             *)

\* covered_days: a day counts as computed by its marker, not by its rows.
CheckCovered(q) ==
    /\ pc[q] = "idle"
    /\ Goto(q, IF Days(marks) = Day THEN "hit" ELSE "open")
    /\ UNCHANGED <<tables, change, reads, range, writes, answer>>

\* recompute: prepare again, now for the reader.
ReadTrades(q) ==
    /\ pc[q] = "open"
    /\ got' = [got EXCEPT ![q] = trades]
    /\ Goto(q, "quotes")
    /\ UNCHANGED <<tables, change, priced, range, writes, answer>>

\* find_in_range, a statement of its own.
ReadCached(q) ==
    /\ pc[q] = "hit"
    /\ answer' = [answer EXCEPT ![q] = daily]
    /\ Goto(q, "cached")
    /\ UNCHANGED <<tables, change, reads, range, writes>>

-----------------------------------------------------------------------------
(* Failures.                                                               *)

\* A handler that is dropped, at any point before it has committed.
Fail(x) ==
    /\ pc[x] \notin {"idle"} \union Ended
    /\ Goto(x, "failed")
    /\ Release(x)
    /\ UNCHANGED <<tables, change, reads, range, answer>>

WaitsFor(x, y) ==
    \/ seen[x] \intersect gone[y] # {}
    \/ seenMarks[x] \intersect (unmark[y] \union Tags(mark[y])) # {}
    \/ /\ pc[x] = "clear" /\ seen[x] = {}
       /\ \E row \in NewRows(x), other \in put[y] \union gone[y] : SameKey(row, other)
    \/ pc[x] = "mark" /\ at[x] \in Days(unmark[y] \union mark[y])

\* Mutant: nothing detects a cycle of waits.
DeadlockUndetected(x) == FALSE

\* A set of transactions each of which waits for another of the set.
Deadlocked(x) ==
    \E D \in SUBSET (Writer \union Runner) :
        /\ x \in D
        /\ \A y \in D : \E z \in D \ {y} : WaitsFor(y, z)

DeadlockAbort(x) ==
    /\ Deadlocked(x)
    /\ Goto(x, "failed")
    /\ Release(x)
    /\ UNCHANGED <<tables, change, reads, range, answer>>

Terminated == (\A x \in Proc : pc[x] \in Ended) /\ UNCHANGED vars

-----------------------------------------------------------------------------
WriterStep(w) ==
    \/ StartCut(w) \/ CutRow(w) \/ StartUnmark(w) \/ UnmarkDay(w) \/ CommitChange(w)
RunnerStep(r) ==
    \/ ReadQuotes(r) \/ StartDay(r) \/ ClearRow(r) \/ InsertDay(r) \/ InsertFails(r)
    \/ MarkDay(r) \/ CommitRun(r)
ReaderStep(q) == ReadCached(q) \/ ReadTrades(q) \/ ReadQuotes(q)

Next ==
    \/ \E w \in Writer : WriteTrade(w) \/ WriterStep(w)
    \/ \E r \in Runner : StartRun(r) \/ RunnerStep(r)
    \/ \E q \in Reader : CheckCovered(q) \/ ReaderStep(q)
    \/ \E x \in Proc : Fail(x) \/ DeadlockAbort(x)
    \/ \E p \in Position : PostPrice(p)
    \/ Terminated

Spec == Init /\ [][Next]_vars

\* What has started goes on; nothing obliges anybody to start.
FairSpec ==
    /\ Spec
    /\ \A w \in Writer : WF_vars(WriterStep(w) \/ DeadlockAbort(w))
    /\ \A r \in Runner : WF_vars(RunnerStep(r) \/ DeadlockAbort(r))
    /\ \A q \in Reader : WF_vars(ReaderStep(q))

-----------------------------------------------------------------------------
(* Properties.                                                             *)

Contents(R) == {[pos |-> row.pos, qty |-> row.qty, quote |-> row.quote] : row \in R}
Fresh(d) ==
    Contents(RowsOn(daily, d)) = Contents(EvaluateDay(trades, quote, d, NoRun))

\* Writers alone never leave a stale day marked, whatever the order of their
\* DELETEs, and neither do runs alone, however they overlap: it takes both.
StaleTakesBoth ==
    /\ quote = NoQuotes
    /\ (\A w \in Writer : pc[w] # "done") \/ (\A r \in Runner : pc[r] # "done")
    => \A d \in Days(marks) : Fresh(d)

\* A marked day holds exactly the rows its marker counted: no step of a run or
\* of an invalidation leaves a day half deleted or half replaced.
DayIsWhole == \A m \in marks : Cardinality(RowsOn(daily, m.day)) = m.count

\* A marked day that was last computed by a run which read what is committed now
\* is not stale, whatever has been changed, cut and put there in between.
RunRepairs ==
    \A m \in marks :
        m.made \in Runner /\ got[m.made] = trades /\ priced[m.made] = quote => Fresh(m.day)

\* The rows of a day as a run leaves them.
Made(r, d) == EvaluateDay(got[r], priced[r], d, r)

\* Each day is as one run has left it that has committed, or as it was at the
\* start, or it is missing.
WholeDays(R) ==
    \A d \in Day :
        \/ RowsOn(R, d) = {}
        \/ RowsOn(R, d) = EvaluateDay(InitialTrades, NoQuotes, d, NoRun)
        \/ \E r \in Runner : pc[r] = "done" /\ RowsOn(R, d) = Made(r, d)

\* The rows of a cache hit are read after the markers were counted, and may have
\* been cut or replaced by then.  Even so no day of the answer is shown in part, or
\* patched together, or as a run made it that has not committed.  Days of different
\* runs do stand side by side, for a run goes over its range only.
AnswerDaysAreWhole == \A q \in Reader : WholeDays(answer[q])

\* What has started ends: nobody waits for ever for a row another transaction
\* holds.
EverythingEnds ==
    \A x \in Proc : pc[x] # "idle" ~> pc[x] \in Ended

\* What the cache has for a day: a reader goes by the markers.
Shown(S, q, d) == Contents(EvaluateDay(S, q, d, NoRun))
Stored ==
    [d \in Day |-> IF d \in Days(marks)
                   THEN [there |-> TRUE, rows |-> Contents(RowsOn(daily, d))]
                   ELSE [there |-> FALSE, rows |-> {}]]

\* Unless runs overlap, the cache looks as if every commit were a step of its own,
\* however the statements of upsert_day and invalidate_from are mixed.
Atomic ==
    INSTANCE AtomicCache WITH
        stored <- Stored,
        got <- [r \in Runner |-> got[r]], priced <- [r \in Runner |-> priced[r]]
ImplementsAtomicCache == Atomic!Spec

-----------------------------------------------------------------------------
(* What the documents say of the program.                                  *)

\* "When trades change, the cache of the affected days is invalidated and
\* recomputed at the next read": a day that is marked as computed holds what a
\* recomputation from the trades and prices of this moment would give.
CacheIsFresh == \A d \in Days(marks) : Fresh(d)
=============================================================================

------------------------ MODULE SnapshotCacheProofs ------------------------
(***************************************************************************)
(* Proofs about SnapshotCache, for every set of positions, number of days, *)
(* of writers, runs and readers, and any trades at the start.  What is     *)
(* said of a run's own work holds of runs that overlap, too; that a marked *)
(* day is whole, that the days of an answer are, and that the cache        *)
(* implements AtomicCache, holds as long as no run starts while another is *)
(* under way (~Overlap).                                                   *)
(***************************************************************************)
EXTENDS SnapshotCache, TLAPS

Phase == {"idle", "wrote", "cutDaily", "cutDays", "quotes", "open", "clear", "mark",
          "commit", "hit"} \union Ended
Working == {"open", "clear", "mark", "commit"}

\* The functions keep their domains and the days stay days.
Types ==
    /\ quote \in [Position -> Nat]
    /\ \A row \in daily : row.day \in Day
    /\ \A m \in marks : m.day \in Day
    /\ pc \in [Proc -> Phase]
    /\ change \in [Writer -> Change \union {NoChange}]
    /\ DOMAIN got = Runner \union Reader
    /\ DOMAIN priced = Runner \union Reader
    /\ at \in [Runner -> Day]
    /\ until \in [Runner -> Day]
    /\ DOMAIN seen = Proc
    /\ DOMAIN gone = Proc
    /\ DOMAIN put = Proc
    /\ DOMAIN seenMarks = Proc
    /\ DOMAIN unmark = Proc
    /\ DOMAIN mark = Proc

\* A reader, and who has no database transaction open or has only begun, waits
\* for nothing and has cut and put nothing.
Quiet ==
    \A x \in Proc : x \in Reader \/ pc[x] \in {"idle", "wrote", "quotes"} \union Ended =>
        /\ seen[x] = {} /\ gone[x] = {} /\ put[x] = {}
        /\ seenMarks[x] = {} /\ unmark[x] = {} /\ mark[x] = {}

\* A writer cuts no day before its trade's.
CutFrom ==
    \A w \in Writer : \A row \in seen[w] \union gone[w] : change[w].trade.day <= row.day

\* The days of its range that a run has replaced so far.
Replaced(r) == {d \in Day : d \in Days(mark[r]) \/ (d = at[r] /\ pc[r] = "mark")}

\* A run goes from day to day: it has marked the days of its range up to the one it
\* is at, put what it makes of the days it has replaced and counted it in their
\* markers, and deletes no row of another day.
Step(r) ==
    pc[r] \in Working =>
        /\ put[r] = UNION {Made(r, d) : d \in Replaced(r)}
        /\ \E from \in Day :
             /\ from <= at[r]
             /\ Days(mark[r]) = {d \in Day : /\ from <= d
                                             /\ d < at[r] \/ (d = at[r] /\ pc[r] = "commit")}
        /\ \A m \in mark[r] : m.made = r /\ m.count = Cardinality(Made(r, m.day))
        /\ \A row \in gone[r] :
             row.day \in Days(mark[r]) \/ (row.day = at[r] /\ pc[r] \in {"clear", "mark"})
        /\ pc[r] = "clear" => \A row \in seen[r] : row.day = at[r]
InStep == \A r \in Runner : Step(r)

Base == Types /\ Quiet /\ CutFrom /\ InStep

-----------------------------------------------------------------------------
(* Runs alone and writers alone. *)

NoWriterDone == \A w \in Writer : pc[w] # "done"
NoRunDone == \A r \in Runner : pc[r] # "done"

Right(S, d) == Contents(EvaluateDay(S, NoQuotes, d, NoRun))

\* As long as no change has been committed, every run reads the same, and what
\* it writes is what was there.
RunsAgree ==
    NoWriterDone /\ quote = NoQuotes =>
        /\ trades = InitialTrades
        /\ \A d \in Day : Contents(RowsOn(daily, d)) \subseteq Right(InitialTrades, d)
        /\ \A d \in Days(marks) : Right(InitialTrades, d) \subseteq Contents(RowsOn(daily, d))
        /\ \A r \in Runner :
             /\ pc[r] \in {"quotes"} \union Working => got[r] = InitialTrades
             /\ pc[r] \in Working => priced[r] = NoQuotes

\* All markers from the day of w's trade on are deleted or about to be.
Unmarks(w) ==
    \A m \in marks : change[w].trade.day <= m.day => TagOf(m) \in seenMarks[w] \union unmark[w]

\* As long as no run has committed, a writer that deletes markers gets them all,
\* and a day still marked is right.
WritersAgree ==
    NoRunDone =>
        /\ \A w \in Writer : pc[w] = "cutDays" => Unmarks(w)
        /\ quote = NoQuotes => \A d \in Days(marks) : Fresh(d)

-----------------------------------------------------------------------------
(* Runs one after another among writers. *)

\* At most one run is under way.
RunsApart ==
    \A r, s \in Runner :
        pc[r] \notin {"idle"} \union Ended /\ pc[s] \notin {"idle"} \union Ended => r = s

\* A deleted row is still there for the others, and is deleted by one only.
Owned ==
    /\ \A x \in Proc : gone[x] \subseteq daily
    /\ \A x, y \in Proc : x # y => gone[x] \intersect gone[y] = {}

\* A run has deleted all that was there of the days it has replaced.
Cleared ==
    \A r \in Runner :
        /\ pc[r] \in Working => \A d \in Replaced(r) : RowsOn(daily, d) \subseteq gone[r]
        /\ pc[r] = "clear" => RowsOn(daily, at[r]) \subseteq gone[r] \union seen[r]

\* A writer that deletes markers gets them all, but for those of days that a run has
\* put there since the writer took the rows, and the writer took none of such a day.
Unmarking ==
    \A w \in Writer : pc[w] = "cutDays" =>
        \A m \in marks : change[w].trade.day <= m.day =>
            \/ TagOf(m) \in seenMarks[w] \union unmark[w]
            \/ m.made \in Runner /\ RowsOn(gone[w], m.day) = {}

\* A day as a run has left it, or as it was at the start.
LeftBy(run, d) ==
    IF run \in Runner THEN Made(run, d) ELSE EvaluateDay(InitialTrades, NoQuotes, d, NoRun)

\* A marked day holds what the run that last computed it made of it.
Kept ==
    \A m \in marks :
        /\ m.made \in Runner => pc[m.made] = "done"
        /\ RowsOn(daily, m.day) = LeftBy(m.made, m.day)
        /\ m.count = Cardinality(LeftBy(m.made, m.day))

InTurn == RunsApart /\ Owned /\ Cleared /\ Unmarking /\ Kept

-----------------------------------------------------------------------------
(* Days, markers and rows. *)

LEMMA DayFacts == 1 \in Day /\ LastDay \in Day /\ \A d \in Day : d \in Nat /\ 1 <= d /\ d <= LastDay
  BY DayAssumption DEF Day

LEMMA RowsOfMade ==
    ASSUME NEW r, NEW D, NEW d \in D
    PROVE  /\ RowsOn(UNION {Made(r, e) : e \in D}, d) = Made(r, d)
           /\ \A row \in Made(r, d) : row.day = d
  BY DEF RowsOn, Made, EvaluateDay

\* Who wrote a row is no part of its contents.
LEMMA ContentsOfDay ==
    ASSUME NEW S, NEW q, NEW d, NEW run
    PROVE  Contents(EvaluateDay(S, q, d, run)) =
           {[pos |-> p, qty |-> Held(S, p, d), quote |-> q[p]] :
               p \in {x \in Position : Held(S, x, d) > 0}}
  <1> DEFINE P == {x \in Position : Held(S, x, d) > 0}
             RowFor(p) == [day |-> d, pos |-> p, qty |-> Held(S, p, d), quote |-> q[p],
                           by |-> run]
             Bare(row) == [pos |-> row.pos, qty |-> row.qty, quote |-> row.quote]
  <1>1. EvaluateDay(S, q, d, run) = {RowFor(p) : p \in P}
    BY DEF EvaluateDay
  <1>2. \A p \in P : Bare(RowFor(p)) = [pos |-> p, qty |-> Held(S, p, d), quote |-> q[p]]
    OBVIOUS
  <1>3. Contents(EvaluateDay(S, q, d, run)) = {Bare(RowFor(p)) : p \in P}
    <2> HIDE DEF P, RowFor
    <2>. QED  BY <1>1 DEF Contents
  <1> HIDE DEF P
  <1>. QED  BY <1>2, <1>3 DEF P

\* A trade counts from its day on.
LEMMA EarlierDaysUntouched ==
    ASSUME Types, NEW w \in Writer, trades' = Apply(change[w]),
           NEW d \in Day, d < change[w].trade.day,
           NEW q, NEW run
    PROVE  EvaluateDay(trades', q, d, run) = EvaluateDay(trades, q, d, run)
  <1> DEFINE Counted(S, p) == {t \in S : t.pos = p /\ t.day <= d}
  <1>1. change[w].trade.day \in Nat /\ d \in Nat
    BY DayFacts DEF Types, Change, Trade, NoChange
  <1>2. ~(change[w].trade.day <= d)
    BY <1>1
  <1>3. \A p : Counted(trades', p) = Counted(trades, p)
    BY <1>2 DEF Apply
  <1>4. \A p : Held(trades', p, d) = Held(trades, p, d)
    BY <1>3 DEF Held
  <1>. QED  BY <1>4 DEF EvaluateDay

\* Prices only rise from the start's.
LEMMA QuotesOnlyChange ==
    ASSUME Types, [Next]_vars, quote' = NoQuotes
    PROVE  quote = NoQuotes
  <1>1. ASSUME NEW p \in Position, PostPrice(p)
        PROVE  FALSE
    BY <1>1 DEF PostPrice, Types, NoQuotes
  <1>2. quote' = quote
    BY <1>1 DEF Next, WriteTrade, WriterStep, StartCut, CutRow, DeleteRow, StartUnmark, UnmarkDay,
       CommitChange, StartRun, ReadTrades, ReadQuotes, RunnerStep, StartDay, ClearRow, InsertDay,
       InsertFails, MarkDay, CommitRun, CheckCovered, ReaderStep, ReadCached, Fail, DeadlockAbort,
       Terminated, vars, tables
  <1>. QED  BY <1>2

-----------------------------------------------------------------------------
(* The processes one by one. *)

\* A handler that is dropped or aborted.
Dropped(x) ==
    /\ x \in Proc
    /\ pc[x] \notin {"idle"} \union Ended
    /\ Goto(x, "failed")
    /\ Release(x)
    /\ UNCHANGED <<tables, change, reads, range, answer>>

LEMMA DropsAreAlike ==
    ASSUME Types, Quiet, NEW x \in Proc,
           Fail(x) \/ DeadlockAbort(x) \/ (x \in Runner /\ InsertFails(x))
    PROVE  Dropped(x)
  <1>1. ASSUME DeadlockAbort(x)
        PROVE  pc[x] \notin {"idle"} \union Ended
    <2>1. PICK y \in Proc : WaitsFor(x, y)
      BY <1>1 DEF DeadlockAbort, Deadlocked, Proc
    <2>. QED  BY <2>1 DEF WaitsFor, Quiet, Ended
  <1>. QED  BY <1>1 DEF Dropped, Fail, DeadlockAbort, InsertFails, Ended

LEMMA StepTypes == Base /\ [Next]_vars => Types'
  <1> SUFFICES ASSUME Base, [Next]_vars
               PROVE  Types'
    OBVIOUS
  <1> USE DEF Base, Types, Phase, Ended, tables, reads, range, writes, Goto, Proc
  <1>1. ASSUME NEW w \in Writer, WriteTrade(w) \/ StartCut(w) \/ StartUnmark(w) \/ UnmarkDay(w)
        PROVE  Types'
    BY <1>1 DEF WriteTrade, StartCut, StartUnmark, UnmarkDay
  <1>2. ASSUME NEW x \in Proc, CutRow(x) \/ ClearRow(x)
        PROVE  Types'
    BY <1>2 DEF CutRow, ClearRow, DeleteRow
  <1>3. ASSUME NEW w \in Writer, CommitChange(w)
        PROVE  Types'
    BY <1>3 DEF CommitChange, Release
  <1>4. ASSUME NEW x \in Runner \union Reader,
               (x \in Runner /\ StartRun(x)) \/ (x \in Reader /\ ReadTrades(x)) \/ ReadQuotes(x)
        PROVE  Types'
    BY <1>4 DEF StartRun, ReadTrades, ReadQuotes
  <1>5. ASSUME NEW r \in Runner, StartDay(r) \/ InsertDay(r)
        PROVE  Types'
    BY <1>5 DEF StartDay, InsertDay
  <1>6. ASSUME NEW r \in Runner, MarkDay(r)
        PROVE  Types'
    <2>1. at'[r] \in Day
      BY <1>6, DayFacts DEF MarkDay, Day
    <2>2. at' \in [Runner -> Day]
      BY <1>6, <2>1 DEF MarkDay
    <2>. QED  BY <1>6, <2>2 DEF MarkDay
  <1>7. ASSUME NEW r \in Runner, CommitRun(r)
        PROVE  Types'
    <2>1. /\ daily' = (daily \ gone[r]) \union put[r]
          /\ marks' = {m \in marks : m.day \notin Days(mark[r])} \union mark[r]
          /\ pc[r] = "commit" /\ UNCHANGED <<quote, change, got, priced, at, until>>
      BY <1>7 DEF CommitRun
    <2>2. \A row \in put[r] : row.day \in Day
      <3>1. put[r] = UNION {Made(r, d) : d \in Replaced(r)}
        BY <2>1 DEF InStep, Step, Working
      <3>2. Replaced(r) \subseteq Day
        BY DEF Replaced
      <3>3. ASSUME NEW d \in Replaced(r), NEW row \in Made(r, d)
            PROVE  row.day \in Day
        BY <3>2, <3>3, RowsOfMade
      <3>. QED  BY <3>1, <3>3
    <2>3. \A m \in mark[r] : m.day \in Day
      BY <2>1 DEF InStep, Step, Working, Days
    <2>4. /\ DOMAIN seen' = Proc /\ DOMAIN gone' = Proc /\ DOMAIN put' = Proc
          /\ DOMAIN seenMarks' = Proc /\ DOMAIN unmark' = Proc /\ DOMAIN mark' = Proc
          /\ pc' \in [Proc -> Phase]
      BY <1>7 DEF CommitRun, Release
    <2>. QED  BY <2>1, <2>2, <2>3, <2>4
  <1>8. ASSUME NEW q \in Reader, CheckCovered(q) \/ ReadCached(q)
        PROVE  Types'
    BY <1>8 DEF CheckCovered, ReadCached
  <1>9. ASSUME NEW x \in Proc, Dropped(x)
        PROVE  Types'
    BY <1>9 DEF Dropped, Release
  <1>10. ASSUME NEW p \in Position, PostPrice(p)
        PROVE  Types'
    BY <1>10 DEF PostPrice
  <1>11. CASE UNCHANGED vars
    BY <1>11 DEF vars
  <1>12. ASSUME NEW x \in Proc, Fail(x) \/ DeadlockAbort(x) \/ (x \in Runner /\ InsertFails(x))
         PROVE  Types'
    BY <1>9, <1>12, DropsAreAlike
  <1>. QED
    BY <1>1, <1>2, <1>3, <1>4, <1>5, <1>6, <1>7, <1>8, <1>10, <1>11, <1>12
       DEF Next, WriterStep, RunnerStep, ReaderStep, Terminated

\* All that is a process's own.
Own(x) == <<pc[x], seen[x], gone[x], put[x], seenMarks[x], unmark[x], mark[x]>>
Untouched(x) ==
    /\ Own(x)' = Own(x)
    /\ x \in Writer => change'[x] = change[x]
    /\ x \in Runner => at'[x] = at[x] /\ until'[x] = until[x]
    /\ x \in Runner \union Reader => got'[x] = got[x] /\ priced'[x] = priced[x]

\* What a step can be for one process.
LEMMA StepOfProcess ==
    ASSUME Base, [Next]_vars, NEW x \in Proc
    PROVE  \/ x \in Writer /\ (WriteTrade(x) \/ WriterStep(x))
           \/ x \in Runner /\ (StartRun(x) \/ RunnerStep(x))
           \/ x \in Reader /\ (CheckCovered(x) \/ ReaderStep(x))
           \/ Dropped(x)
           \/ Untouched(x)
  <1> USE DEF Base, Types, Ended, tables, reads, range, writes, Goto, Proc, Untouched, Own
  <1>1. ASSUME NEW w \in Writer \ {x}, WriteTrade(w) \/ WriterStep(w)
        PROVE  Untouched(x)
    BY <1>1 DEF WriteTrade, WriterStep, StartCut, CutRow, DeleteRow, StartUnmark, UnmarkDay,
       CommitChange, Release
  <1>2. ASSUME NEW r \in Runner \ {x}, StartRun(r) \/ RunnerStep(r)
        PROVE  Untouched(x)
    <2>1. CASE StartRun(r) \/ ReadQuotes(r) \/ StartDay(r) \/ ClearRow(r)
      BY <1>2, <2>1 DEF StartRun, ReadQuotes, StartDay, ClearRow, DeleteRow
    <2>2. CASE InsertDay(r) \/ InsertFails(r) \/ MarkDay(r) \/ CommitRun(r)
      BY <1>2, <2>2 DEF InsertDay, InsertFails, MarkDay, CommitRun, Release
    <2>. QED  BY <1>2, <2>1, <2>2 DEF RunnerStep
  <1>3. ASSUME NEW q \in Reader \ {x}, CheckCovered(q) \/ ReaderStep(q)
        PROVE  Untouched(x)
    BY <1>3 DEF CheckCovered, ReaderStep, ReadCached, ReadTrades, ReadQuotes
  <1>4. ASSUME NEW y \in Proc \ {x}, Dropped(y)
        PROVE  Untouched(x)
    BY <1>4 DEF Dropped, Release
  <1>5. CASE UNCHANGED vars \/ \E p \in Position : PostPrice(p)
    BY <1>5 DEF vars, PostPrice
  <1>6. ASSUME NEW y \in Proc, Fail(y) \/ DeadlockAbort(y)
        PROVE  Dropped(y)
    BY <1>6, DropsAreAlike
  <1> HIDE DEF Base, Types, Proc, Untouched
  <1>. QED
    BY <1>1, <1>2, <1>3, <1>4, <1>5, <1>6 DEF Next, Terminated

LEMMA StepQuiet == Base /\ [Next]_vars => Quiet'
  <1> SUFFICES ASSUME Base, [Next]_vars
               PROVE  Quiet'
    OBVIOUS
  <1> USE DEF Base, Types, Quiet, Ended, tables, reads, range, writes, Goto, Proc
  <1>1. ASSUME NEW w \in Writer, WriteTrade(w) \/ StartCut(w) \/ StartUnmark(w) \/ UnmarkDay(w)
        PROVE  Quiet'
    BY <1>1, ProcAssumption DEF WriteTrade, StartCut, StartUnmark, UnmarkDay
  <1>2. ASSUME NEW x \in Proc, (x \in Writer /\ CutRow(x)) \/ (x \in Runner /\ ClearRow(x))
        PROVE  Quiet'
    BY <1>2, ProcAssumption DEF CutRow, ClearRow, DeleteRow
  <1>3. ASSUME NEW x \in Proc,
               (x \in Writer /\ CommitChange(x)) \/ (x \in Runner /\ CommitRun(x)) \/ Dropped(x)
        PROVE  Quiet'
    BY <1>3 DEF CommitChange, CommitRun, Dropped, Release
  <1>4. ASSUME NEW x \in Runner \union Reader,
               (x \in Runner /\ StartRun(x)) \/ (x \in Reader /\ ReadTrades(x)) \/ ReadQuotes(x)
        PROVE  Quiet'
    BY <1>4 DEF StartRun, ReadTrades, ReadQuotes
  <1>5. ASSUME NEW r \in Runner, StartDay(r) \/ InsertDay(r) \/ MarkDay(r)
        PROVE  Quiet'
    BY <1>5, ProcAssumption DEF StartDay, InsertDay, MarkDay
  <1>6. ASSUME NEW q \in Reader, CheckCovered(q) \/ ReadCached(q)
        PROVE  Quiet'
    BY <1>6 DEF CheckCovered, ReadCached
  <1>7. ASSUME NEW p \in Position, PostPrice(p)
        PROVE  Quiet'
    BY <1>7 DEF PostPrice
  <1>8. CASE UNCHANGED vars
    BY <1>8 DEF vars
  <1>9. ASSUME NEW x \in Proc, Fail(x) \/ DeadlockAbort(x) \/ (x \in Runner /\ InsertFails(x))
        PROVE  Quiet'
    BY <1>3, <1>9, DropsAreAlike
  <1>. QED
    BY <1>1, <1>2, <1>3, <1>4, <1>5, <1>6, <1>7, <1>8, <1>9
       DEF Next, WriterStep, RunnerStep, ReaderStep, Terminated

LEMMA StepCutFrom == Base /\ [Next]_vars => CutFrom'
  <1> SUFFICES ASSUME Base, [Next]_vars
               PROVE  CutFrom'
    OBVIOUS
  <1> USE DEF Base, Types, CutFrom, Ended, tables, reads, range, writes, Goto, Proc
  <1>1. ASSUME NEW w \in Writer, WriteTrade(w)
        PROVE  CutFrom'
    BY <1>1 DEF WriteTrade, Quiet
  <1>2. ASSUME NEW w \in Writer, StartCut(w) \/ StartUnmark(w) \/ UnmarkDay(w)
        PROVE  CutFrom'
    BY <1>2 DEF StartCut, StartUnmark, UnmarkDay
  <1>3. ASSUME NEW x \in Proc, CutRow(x) \/ ClearRow(x)
        PROVE  CutFrom'
    BY <1>3 DEF CutRow, ClearRow, DeleteRow
  <1>4. ASSUME NEW x \in Proc,
               (x \in Writer /\ CommitChange(x)) \/ (x \in Runner /\ CommitRun(x)) \/ Dropped(x)
        PROVE  CutFrom'
    BY <1>4 DEF CommitChange, CommitRun, Dropped, Release
  <1>5. ASSUME NEW x \in Runner \union Reader,
               (x \in Runner /\ StartRun(x)) \/ (x \in Reader /\ ReadTrades(x)) \/ ReadQuotes(x)
        PROVE  CutFrom'
    BY <1>5 DEF StartRun, ReadTrades, ReadQuotes
  <1>6. ASSUME NEW r \in Runner, StartDay(r) \/ InsertDay(r) \/ MarkDay(r)
        PROVE  CutFrom'
    BY <1>6, ProcAssumption DEF StartDay, InsertDay, MarkDay
  <1>7. ASSUME NEW q \in Reader, CheckCovered(q) \/ ReadCached(q)
        PROVE  CutFrom'
    BY <1>7 DEF CheckCovered, ReadCached
  <1>8. ASSUME NEW p \in Position, PostPrice(p)
        PROVE  CutFrom'
    BY <1>8 DEF PostPrice
  <1>9. CASE UNCHANGED vars
    BY <1>9 DEF vars
  <1>10. ASSUME NEW x \in Proc, Fail(x) \/ DeadlockAbort(x) \/ (x \in Runner /\ InsertFails(x))
         PROVE  CutFrom'
    BY <1>4, <1>10, DropsAreAlike
  <1>. QED
    BY <1>1, <1>2, <1>3, <1>4, <1>5, <1>6, <1>7, <1>8, <1>9, <1>10
       DEF Next, WriterStep, RunnerStep, ReaderStep, Terminated

\* A day is replaced when its new rows are in, not when it is marked.
LEMMA ReplacedSteps ==
    ASSUME Base, NEW r \in Runner
    PROVE  /\ InsertDay(r) => Replaced(r)' = Replaced(r) \union {at[r]}
           /\ MarkDay(r) => /\ Replaced(r)' = Replaced(r)
                            /\ Days(mark'[r]) = Days(mark[r]) \union {at[r]}
           /\ StartDay(r) \/ ClearRow(r) => Replaced(r)' = Replaced(r)
  <1> USE DEF Base, Types, Proc, Goto
  <1>1. at[r] \in Day
    OBVIOUS
  <1>2. ASSUME InsertDay(r)
        PROVE  Replaced(r)' = Replaced(r) \union {at[r]}
    <2>1. pc[r] = "clear" /\ pc'[r] = "mark" /\ at' = at /\ mark' = mark
      BY <1>2 DEF InsertDay, range
    <2>. QED  BY <1>1, <2>1 DEF Replaced
  <1>3. ASSUME MarkDay(r)
        PROVE  Replaced(r)' = Replaced(r) /\ Days(mark'[r]) = Days(mark[r]) \union {at[r]}
    <2>1. /\ pc[r] = "mark" /\ pc'[r] # "mark"
          /\ mark'[r] = mark[r] \union {NewMark(r)}
      BY <1>3 DEF MarkDay
    <2>2. NewMark(r).day = at[r]
      BY DEF NewMark
    <2>3. Days(mark'[r]) = Days(mark[r]) \union {at[r]}
      BY <2>1, <2>2 DEF Days
    <2>. QED  BY <1>1, <2>1, <2>3 DEF Replaced
  <1>4. ASSUME StartDay(r) \/ ClearRow(r)
        PROVE  Replaced(r)' = Replaced(r)
    <2>1. pc[r] # "mark" /\ pc'[r] # "mark" /\ mark' = mark
      BY <1>4 DEF StartDay, ClearRow, DeleteRow
    <2>. QED  BY <2>1 DEF Replaced
  <1>. QED  BY <1>2, <1>3, <1>4

LEMMA DeletesKeepStep ==
    ASSUME Base, NEW r \in Runner, StartDay(r) \/ ClearRow(r)
    PROVE  Step(r)'
  <1> USE DEF Base, Types, Proc
  <1>1. /\ pc[r] \in {"open", "clear"} /\ pc'[r] = "clear"
        /\ UNCHANGED <<at, got, priced, put, mark>>
    BY DEF StartDay, ClearRow, DeleteRow, Goto, reads, range
  <1>2. \A d : Made(r, d)' = Made(r, d)
    BY <1>1 DEF Made
  <1>3. Replaced(r)' = Replaced(r)
    BY ReplacedSteps
  <1>4. /\ \A row \in gone'[r] : row.day \in Days(mark[r]) \/ row.day = at[r]
        /\ \A row \in seen'[r] : row.day = at[r]
    <2>1. CASE StartDay(r)
      BY <2>1 DEF StartDay, RowsOn, InStep, Step, Working
    <2>2. CASE ClearRow(r)
      BY <2>2 DEF ClearRow, DeleteRow, InStep, Step, Working
    <2>. QED  BY <2>1, <2>2
  <1>5. put'[r] = UNION {Made(r, d)' : d \in Replaced(r)'}
    BY <1>1, <1>2, <1>3 DEF InStep, Step, Working
  <1>6. \A m \in mark'[r] : m.made = r /\ m.count = Cardinality(Made(r, m.day)')
    BY <1>1, <1>2 DEF InStep, Step, Working
  <1>7. \E from \in Day :
          /\ from <= at'[r]
          /\ Days(mark'[r]) = {d \in Day : /\ from <= d
                                           /\ d < at'[r] \/ (d = at'[r] /\ pc'[r] = "commit")}
    BY <1>1 DEF InStep, Step, Working
  <1> HIDE DEF Base, Types
  <1>. QED  BY <1>1, <1>4, <1>5, <1>6, <1>7 DEF Step

LEMMA InsertKeepsStep ==
    ASSUME Base, NEW r \in Runner, InsertDay(r)
    PROVE  Step(r)'
  <1> USE DEF Base, Types, Proc
  <1>1. /\ pc[r] = "clear" /\ pc'[r] = "mark" /\ put'[r] = put[r] \union Made(r, at[r])
        /\ UNCHANGED <<got, priced, at, mark, gone>>
    BY DEF InsertDay, NewRows, Made, Goto, reads, range
  <1>2. \A d : Made(r, d)' = Made(r, d)
    BY <1>1 DEF Made
  <1>3. Replaced(r)' = Replaced(r) \union {at[r]}
    BY ReplacedSteps
  <1>4. put'[r] = UNION {Made(r, d)' : d \in Replaced(r)'}
    BY <1>1, <1>2, <1>3 DEF InStep, Step, Working
  <1>5. \A m \in mark'[r] : m.made = r /\ m.count = Cardinality(Made(r, m.day)')
    BY <1>1, <1>2 DEF InStep, Step, Working
  <1>6. \E from \in Day :
          /\ from <= at'[r]
          /\ Days(mark'[r]) = {d \in Day : /\ from <= d
                                           /\ d < at'[r] \/ (d = at'[r] /\ pc'[r] = "commit")}
    BY <1>1 DEF InStep, Step, Working
  <1>7. \A row \in gone'[r] : row.day \in Days(mark'[r]) \/ row.day = at'[r]
    BY <1>1 DEF InStep, Step, Working
  <1> HIDE DEF Base, Types
  <1>. QED  BY <1>1, <1>4, <1>5, <1>6, <1>7 DEF Step

LEMMA MarkKeepsStep ==
    ASSUME Base, NEW r \in Runner, MarkDay(r)
    PROVE  Step(r)'
  <1> USE DEF Base, Types, Proc
  <1>1. /\ pc[r] = "mark" /\ mark'[r] = mark[r] \union {NewMark(r)}
        /\ UNCHANGED <<got, priced, put, gone>>
        /\ \/ pc'[r] = "open" /\ at'[r] = at[r] + 1
           \/ pc'[r] = "commit" /\ at'[r] = at[r]
    BY DEF MarkDay, Goto, reads
  <1>2. \A d : Made(r, d)' = Made(r, d)
    BY <1>1 DEF Made
  <1>3. at[r] \in Day /\ at[r] \in Nat /\ \A d \in Day : d \in Nat
    BY DayFacts
  <1>4. Replaced(r)' = Replaced(r) /\ Days(mark'[r]) = Days(mark[r]) \union {at[r]}
    BY ReplacedSteps
  <1>5. /\ NewMark(r).day = at[r] /\ NewMark(r).made = r
        /\ NewMark(r).count = Cardinality(Made(r, at[r]))
    BY DEF NewMark, NewRows, Made
  <1>6. \A m \in mark'[r] : m.made = r /\ m.count = Cardinality(Made(r, m.day)')
    BY <1>1, <1>2, <1>5 DEF InStep, Step, Working
  <1>7. put'[r] = UNION {Made(r, d)' : d \in Replaced(r)'}
    BY <1>1, <1>2, <1>4 DEF InStep, Step, Working
  <1>8. PICK from \in Day :
          /\ from <= at[r]
          /\ Days(mark[r]) = {d \in Day : from <= d /\ d < at[r]}
    BY <1>1 DEF InStep, Step, Working
  <1>9. /\ from <= at'[r]
        /\ Days(mark'[r]) = {d \in Day : /\ from <= d
                                         /\ d < at'[r] \/ (d = at'[r] /\ pc'[r] = "commit")}
    <2>1. from \in Nat /\ from <= at'[r]
      BY <1>1, <1>3, <1>8
    <2>2. CASE pc'[r] = "open" /\ at'[r] = at[r] + 1
      BY <1>3, <1>4, <1>8, <2>1, <2>2
    <2>3. CASE pc'[r] = "commit" /\ at'[r] = at[r]
      BY <1>3, <1>4, <1>8, <2>1, <2>3
    <2>. QED  BY <1>1, <2>1, <2>2, <2>3
  <1>10. \A row \in gone'[r] : row.day \in Days(mark'[r])
    BY <1>1, <1>4 DEF InStep, Step, Working
  <1>11. pc'[r] # "clear"
    BY <1>1
  <1> HIDE DEF Base, Types
  <1>. QED  BY <1>6, <1>7, <1>9, <1>10, <1>11 DEF Step

LEMMA ReadsKeepStep ==
    ASSUME Base, NEW r \in Runner, StartRun(r) \/ ReadQuotes(r)
    PROVE  Step(r)'
  <1> USE DEF Base, Types, Proc
  <1>1. CASE StartRun(r)
    BY <1>1 DEF StartRun, Goto, Step, Working
  <1>2. CASE ReadQuotes(r)
    <2>1. pc[r] = "quotes" /\ pc'[r] = "open" /\ at' = at /\ UNCHANGED <<put, mark, gone>>
      BY <1>2 DEF ReadQuotes, Goto, writes, range
    <2>2. put[r] = {} /\ mark[r] = {} /\ gone[r] = {}
      BY <2>1 DEF Quiet
    <2>3. Replaced(r)' = {} /\ Days(mark'[r]) = {}
      BY <2>1, <2>2 DEF Replaced, Days
    <2>4. at[r] \in Day /\ at[r] \in Nat /\ \A d \in Day : d \in Nat
      BY DayFacts
    <2>5. /\ at[r] <= at'[r]
          /\ Days(mark'[r]) = {d \in Day : /\ at[r] <= d
                                           /\ d < at'[r] \/ (d = at'[r] /\ pc'[r] = "commit")}
      BY <2>1, <2>3, <2>4
    <2>. QED  BY <2>1, <2>2, <2>3, <2>4, <2>5 DEF Step
  <1>. QED  BY <1>1, <1>2

LEMMA StepInStep == Base /\ [Next]_vars => InStep'
  <1> SUFFICES ASSUME Base, [Next]_vars, NEW r \in Runner
               PROVE  Step(r)'
    BY DEF InStep
  <1> USE DEF Base, Types, Ended, tables, reads, range, writes, Goto, Proc
  <1>1. CASE Untouched(r)
    <2>1. /\ pc'[r] = pc[r] /\ put'[r] = put[r] /\ mark'[r] = mark[r]
          /\ gone'[r] = gone[r] /\ seen'[r] = seen[r]
          /\ at'[r] = at[r] /\ got'[r] = got[r] /\ priced'[r] = priced[r]
      BY <1>1 DEF Untouched, Own
    <2>2. \A d : Made(r, d)' = Made(r, d)
      BY <2>1 DEF Made
    <2>3. Replaced(r)' = Replaced(r)
      BY <2>1 DEF Replaced
    <2>. QED  BY <2>1, <2>2, <2>3 DEF InStep, Step
  <1>2. CASE CommitRun(r) \/ InsertFails(r) \/ Dropped(r)
    BY <1>2 DEF CommitRun, InsertFails, Dropped, Step, Working
  <1>3. r \notin Writer /\ r \notin Reader
    BY ProcAssumption
  <1> HIDE DEF Base, Types
  <1>. QED
    BY <1>1, <1>2, <1>3, StepOfProcess, ReadsKeepStep, DeletesKeepStep, InsertKeepsStep,
       MarkKeepsStep DEF RunnerStep

LEMMA InitBase == Init => Base
  <1> SUFFICES ASSUME Init
               PROVE  Base
    OBVIOUS
  <1> USE DEF Init
  <1>1. \A row \in daily : row.day \in Day
    BY DEF EvaluateDay
  <1>2. \A m \in marks : m.day \in Day
    <2> DEFINE MarkOf(d) == [day |-> d, count |-> Cardinality(RowsOn(daily, d)), by |-> NoRun,
                          made |-> NoRun]
    <2>1. marks = {MarkOf(d) : d \in Day}
      OBVIOUS
    <2>2. \A d \in Day : MarkOf(d).day = d
      OBVIOUS
    <2> HIDE DEF MarkOf
    <2>. QED  BY <2>1, <2>2
  <1>3. Types
    BY <1>1, <1>2, DayFacts DEF Types, Phase, NoQuotes
  <1>4. Quiet /\ CutFrom
    BY DEF Quiet, CutFrom, Proc
  <1>5. InStep
    BY DEF InStep, Step, Working, Proc
  <1>. QED  BY <1>3, <1>4, <1>5 DEF Base

LEMMA StepBase == Base /\ [Next]_vars => Base'
  BY StepTypes, StepQuiet, StepCutFrom, StepInStep DEF Base

\* What has ended stays ended.
LEMMA EndedStays ==
    ASSUME Base, [Next]_vars, NEW x \in Proc, pc[x] \in Ended
    PROVE  Untouched(x) /\ pc'[x] = pc[x]
  <1>1. CASE Untouched(x)
    BY <1>1 DEF Untouched, Own
  <1>2. ASSUME x \in Writer, WriteTrade(x) \/ WriterStep(x)
        PROVE  FALSE
    BY <1>2 DEF Ended, WriteTrade, WriterStep, StartCut, CutRow, StartUnmark, UnmarkDay,
       CommitChange
  <1>3. ASSUME x \in Runner, StartRun(x) \/ RunnerStep(x)
        PROVE  FALSE
    BY <1>3 DEF Ended, StartRun, ReadQuotes, RunnerStep, StartDay, ClearRow, InsertDay,
       InsertFails, MarkDay, CommitRun
  <1>4. ASSUME x \in Reader, CheckCovered(x) \/ ReaderStep(x)
        PROVE  FALSE
    BY <1>4, ProcAssumption DEF Ended, CheckCovered, ReaderStep, ReadCached, ReadTrades,
       ReadQuotes
  <1>5. ASSUME Dropped(x)
        PROVE  FALSE
    BY <1>5 DEF Dropped
  <1>. QED  BY <1>1, <1>2, <1>3, <1>4, <1>5, StepOfProcess

\* The committed tables change at commits only; a price is a commit of its own.
LEMMA OnlyCommitsChange ==
    ASSUME Base, [Next]_vars
    PROVE  \/ UNCHANGED <<trades, daily, marks>>
           \/ \E w \in Writer : CommitChange(w)
           \/ \E r \in Runner : CommitRun(r)
  <1> USE DEF Base, tables
  <1>1. ASSUME NEW x \in Proc, Fail(x) \/ DeadlockAbort(x)
        PROVE  UNCHANGED <<trades, daily, marks>>
    BY <1>1 DEF Fail, DeadlockAbort
  <1>2. ASSUME NEW w \in Writer, WriteTrade(w) \/ WriterStep(w)
        PROVE  UNCHANGED <<trades, daily, marks>> \/ CommitChange(w)
    BY <1>2 DEF WriteTrade, WriterStep, StartCut, CutRow, DeleteRow, StartUnmark, UnmarkDay
  <1>3. ASSUME NEW r \in Runner, StartRun(r) \/ RunnerStep(r)
        PROVE  UNCHANGED <<trades, daily, marks>> \/ CommitRun(r)
    BY <1>3 DEF StartRun, ReadQuotes, RunnerStep, StartDay, ClearRow, DeleteRow, InsertDay,
       InsertFails, MarkDay
  <1>4. ASSUME NEW q \in Reader, CheckCovered(q) \/ ReaderStep(q)
        PROVE  UNCHANGED <<trades, daily, marks>>
    BY <1>4 DEF CheckCovered, ReaderStep, ReadCached, ReadTrades, ReadQuotes
  <1>5. CASE UNCHANGED vars \/ \E p \in Position : PostPrice(p)
    BY <1>5 DEF vars, PostPrice
  <1>. QED
    BY <1>1, <1>2, <1>3, <1>4, <1>5 DEF Next, Terminated

-----------------------------------------------------------------------------
(* Runs alone and writers alone: what StaleTakesBoth rests on. *)

LEMMA ContentsOfUnion ==
    ASSUME NEW R, NEW S, NEW T, R \subseteq S \union T
    PROVE  Contents(R) \subseteq Contents(S) \union Contents(T)
  BY DEF Contents

\* What a commit of a run leaves of a day: of its range, what it made of it; the
\* others stay.
LEMMA CommittedDay ==
    ASSUME Base, NEW r \in Runner, CommitRun(r), NEW d \in Day
    PROVE  /\ d \in Days(mark[r]) =>
                RowsOn(daily', d) = RowsOn(daily \ gone[r], d) \union Made(r, d)
           /\ d \notin Days(mark[r]) => RowsOn(daily', d) = RowsOn(daily, d)
  <1>1. daily' = (daily \ gone[r]) \union put[r] /\ pc[r] = "commit"
    BY DEF CommitRun
  <1>2. /\ put[r] = UNION {Made(r, e) : e \in Replaced(r)}
        /\ \A row \in gone[r] : row.day \in Days(mark[r])
    BY <1>1 DEF Base, InStep, Step, Working
  <1>3. d \in Replaced(r) <=> d \in Days(mark[r])
    BY <1>1 DEF Replaced
  <1>4. RowsOn(daily', d) = RowsOn(daily \ gone[r], d) \union RowsOn(put[r], d)
    BY <1>1 DEF RowsOn
  <1>5. ASSUME d \in Days(mark[r])
        PROVE  RowsOn(put[r], d) = Made(r, d)
    BY <1>2, <1>3, <1>5, RowsOfMade
  <1>6. ASSUME d \notin Days(mark[r])
        PROVE  RowsOn(daily', d) = RowsOn(daily, d)
    <2>1. \A row \in put[r] : row.day # d
      <3>1. \A e \in Replaced(r) : \A row \in Made(r, e) : row.day = e
        BY RowsOfMade
      <3>. QED  BY <1>2, <1>3, <1>6, <3>1
    <2>2. \A row \in gone[r] : row.day # d
      BY <1>2, <1>6
    <2>. QED  BY <1>1, <2>1, <2>2 DEF RowsOn
  <1>. QED  BY <1>4, <1>5, <1>6

LEMMA StepRunsAgree == Base /\ RunsAgree /\ [Next]_vars => RunsAgree'
  <1> SUFFICES ASSUME Base, RunsAgree, [Next]_vars, NoWriterDone', quote' = NoQuotes
               PROVE  /\ trades' = InitialTrades
                      /\ \A d \in Day :
                           Contents(RowsOn(daily', d)) \subseteq Right(InitialTrades, d)
                      /\ \A d \in Days(marks') :
                           Right(InitialTrades, d) \subseteq Contents(RowsOn(daily', d))
                      /\ \A r \in Runner :
                           /\ pc'[r] \in {"quotes"} \union Working => got'[r] = InitialTrades
                           /\ pc'[r] \in Working => priced'[r] = NoQuotes
    BY DEF RunsAgree, Right
  <1>1. quote = NoQuotes
    BY QuotesOnlyChange DEF Base
  <1>2. NoWriterDone
    BY EndedStays DEF NoWriterDone, Ended, Proc
  <1>3. /\ trades = InitialTrades
        /\ \A d \in Day : Contents(RowsOn(daily, d)) \subseteq Right(InitialTrades, d)
        /\ \A d \in Days(marks) : Right(InitialTrades, d) \subseteq Contents(RowsOn(daily, d))
        /\ \A r \in Runner :
             /\ pc[r] \in {"quotes"} \union Working => got[r] = InitialTrades
             /\ pc[r] \in Working => priced[r] = NoQuotes
    BY <1>1, <1>2 DEF RunsAgree
  <1>4. ASSUME NEW r \in Runner
        PROVE  /\ pc'[r] \in {"quotes"} \union Working => got'[r] = InitialTrades
               /\ pc'[r] \in Working => priced'[r] = NoQuotes
    <2> USE DEF Base, Types, Working, Goto, Proc
    <2>1. CASE Untouched(r)
      BY <1>3, <2>1 DEF Untouched, Own
    <2>2. CASE StartRun(r) \/ ReadQuotes(r)
      BY <1>1, <1>3, <2>2 DEF StartRun, ReadQuotes
    <2>3. CASE StartDay(r) \/ ClearRow(r) \/ InsertDay(r) \/ MarkDay(r)
      BY <1>3, <2>3 DEF StartDay, ClearRow, DeleteRow, InsertDay, MarkDay, reads
    <2>4. CASE CommitRun(r) \/ InsertFails(r) \/ Dropped(r)
      BY <2>4 DEF CommitRun, InsertFails, Dropped
    <2>5. r \notin Writer /\ r \notin Reader
      BY ProcAssumption
    <2>. QED  BY <2>1, <2>2, <2>3, <2>4, <2>5, StepOfProcess DEF RunnerStep
  <1>5. CASE UNCHANGED <<trades, daily, marks>>
    BY <1>3, <1>4, <1>5
  <1>6. ASSUME NEW w \in Writer, CommitChange(w)
        PROVE  FALSE
    BY <1>6 DEF CommitChange, Goto, NoWriterDone, Base, Types, Proc
  <1>7. ASSUME NEW r \in Runner, CommitRun(r)
        PROVE  /\ trades' = InitialTrades
               /\ \A d \in Day : Contents(RowsOn(daily', d)) \subseteq Right(InitialTrades, d)
               /\ \A d \in Days(marks') :
                    Right(InitialTrades, d) \subseteq Contents(RowsOn(daily', d))
    <2>1. got[r] = InitialTrades /\ priced[r] = NoQuotes /\ trades' = trades
      BY <1>3, <1>7 DEF CommitRun, Working
    <2>2. ASSUME NEW d \in Day
          PROVE  /\ Contents(RowsOn(daily', d)) \subseteq Right(InitialTrades, d)
                 /\ d \in Days(mark[r]) =>
                      Right(InitialTrades, d) \subseteq Contents(RowsOn(daily', d))
      <3>1. Contents(Made(r, d)) = Right(InitialTrades, d)
        BY <2>1, ContentsOfDay DEF Made, Right
      <3>2. RowsOn(daily', d) \subseteq RowsOn(daily, d) \union Made(r, d)
        BY <1>7, CommittedDay DEF RowsOn
      <3>3. Contents(RowsOn(daily', d)) \subseteq Right(InitialTrades, d)
        BY <1>3, <3>1, <3>2, ContentsOfUnion
      <3>4. d \in Days(mark[r]) => Made(r, d) \subseteq RowsOn(daily', d)
        BY <1>7, CommittedDay
      <3>. QED  BY <3>1, <3>3, <3>4 DEF Contents
    <2>3. \A d \in Days(marks') : d \in Day
      BY StepBase DEF Base, Types, Days
    <2>4. ASSUME NEW d \in Days(marks'), d \notin Days(mark[r])
          PROVE  Right(InitialTrades, d) \subseteq Contents(RowsOn(daily', d))
      <3>1. d \in Days(marks)
        BY <1>7, <2>4 DEF CommitRun, Days
      <3>2. RowsOn(daily', d) = RowsOn(daily, d)
        BY <1>7, <2>3, <2>4, CommittedDay
      <3>. QED  BY <1>3, <3>1, <3>2
    <2>. QED  BY <1>3, <2>1, <2>2, <2>3, <2>4
  <1>. QED  BY <1>4, <1>5, <1>6, <1>7, OnlyCommitsChange

\* A writer misses no marker as long as none is added.
LEMMA UnmarksOnce ==
    ASSUME Base, [Next]_vars, marks' \subseteq marks, NEW w \in Writer,
           pc[w] = "cutDays" => Unmarks(w), pc'[w] = "cutDays"
    PROVE  Unmarks(w)'
  <1> USE DEF Base, Types, Goto, Proc
  <1>1. CASE Untouched(w)
    BY <1>1 DEF Untouched, Own, Unmarks
  <1>2. CASE StartUnmark(w)
    <2>1. seenMarks'[w] = Tags({m \in marks : change[w].trade.day <= m.day}) /\ change' = change
      BY <1>2 DEF StartUnmark
    <2>. QED  BY <2>1 DEF Unmarks, Tags
  <1>3. CASE UnmarkDay(w)
    <2>1. PICK tag \in seenMarks[w] :
            /\ seenMarks' = [seenMarks EXCEPT ![w] = @ \ {tag}]
            /\ unmark' = [unmark EXCEPT ![w] =
                             IF tag \in Tags(marks) THEN @ \union {tag} ELSE @]
      BY <1>3 DEF UnmarkDay
    <2>2. pc[w] = "cutDays" /\ change' = change
      BY <1>3 DEF UnmarkDay
    <2>3. \A m \in marks : TagOf(m) \in Tags(marks)
      BY DEF Tags
    <2>4. \A t \in seenMarks[w] \union unmark[w] :
            t \in Tags(marks) => t \in seenMarks'[w] \union unmark'[w]
      BY <2>1
    <2>. QED  BY <2>2, <2>3, <2>4 DEF Unmarks
  <1>4. CASE CutRow(w)
    BY <1>4 DEF CutRow, DeleteRow
  <1>5. CASE WriteTrade(w) \/ StartCut(w) \/ CommitChange(w) \/ Dropped(w)
    BY <1>5 DEF WriteTrade, StartCut, CommitChange, Dropped
  <1>6. w \notin Runner /\ w \notin Reader
    BY ProcAssumption
  <1>. QED  BY <1>1, <1>2, <1>3, <1>4, <1>5, <1>6, StepOfProcess DEF WriterStep

\* What a commit of a writer that misses no marker leaves: the days before its
\* trade's, as they were.
LEMMA CommittedCut ==
    ASSUME Base, NEW w \in Writer, CommitChange(w)
    PROVE  /\ marks' \subseteq marks
           /\ \A d \in Day : d < change[w].trade.day => RowsOn(daily', d) = RowsOn(daily, d)
           /\ Unmarks(w) => \A m \in marks' : m.day < change[w].trade.day
  <1> USE DEF Base
  <1>1. /\ daily' = daily \ gone[w]
        /\ marks' = {m \in marks : TagOf(m) \notin unmark[w]}
        /\ seenMarks[w] = {}
    BY DEF CommitChange
  <1>2. change[w].trade.day \in Nat
    BY DayFacts DEF Types, Change, Trade, NoChange
  <1>3. \A m \in marks : m.day \in Nat
    BY DayFacts DEF Types
  <1>4. ASSUME NEW d \in Day, d < change[w].trade.day
        PROVE  RowsOn(daily', d) = RowsOn(daily, d)
    <2>1. \A row \in gone[w] : row.day # d
      BY <1>2, <1>4, DayFacts DEF CutFrom
    <2>. QED  BY <1>1, <2>1 DEF RowsOn
  <1>5. ASSUME Unmarks(w), NEW m \in marks'
        PROVE  m.day < change[w].trade.day
    BY <1>1, <1>2, <1>3, <1>5 DEF Unmarks
  <1>. QED  BY <1>1, <1>4, <1>5

LEMMA StepWritersAgree == Base /\ WritersAgree /\ [Next]_vars => WritersAgree'
  <1> SUFFICES ASSUME Base, WritersAgree, [Next]_vars, NoRunDone'
               PROVE  /\ \A w \in Writer : pc'[w] = "cutDays" => Unmarks(w)'
                      /\ quote' = NoQuotes => \A d \in Days(marks') : Fresh(d)'
    BY DEF WritersAgree
  <1>1. NoRunDone
    BY EndedStays DEF NoRunDone, Ended, Proc
  <1>2. ASSUME NEW r \in Runner, CommitRun(r)
        PROVE  FALSE
    BY <1>2 DEF CommitRun, Goto, NoRunDone, Base, Types, Proc
  <1>3. marks' \subseteq marks
    BY <1>2, OnlyCommitsChange, CommittedCut
  <1>4. \A w \in Writer : pc'[w] = "cutDays" => Unmarks(w)'
    BY <1>1, <1>3, UnmarksOnce DEF WritersAgree
  <1>5. ASSUME quote' = NoQuotes, NEW d \in Days(marks')
        PROVE  Fresh(d)'
    <2>1. quote = NoQuotes /\ d \in Days(marks) /\ d \in Day
      BY <1>3, <1>5, QuotesOnlyChange DEF Base, Types, Days
    <2>2. Fresh(d)
      BY <1>1, <2>1 DEF WritersAgree
    <2>3. CASE UNCHANGED <<trades, daily, marks>>
      BY <1>5, <2>1, <2>2, <2>3 DEF Fresh
    <2>4. ASSUME NEW w \in Writer, CommitChange(w)
          PROVE  Fresh(d)'
      <3>1. Unmarks(w) /\ trades' = Apply(change[w])
        BY <1>1, <2>4 DEF WritersAgree, CommitChange
      <3>2. d < change[w].trade.day
        BY <1>5, <2>4, <3>1, CommittedCut DEF Days
      <3>3. RowsOn(daily', d) = RowsOn(daily, d)
        BY <2>1, <2>4, <3>2, CommittedCut
      <3>4. EvaluateDay(trades', quote, d, NoRun) = EvaluateDay(trades, quote, d, NoRun)
        BY <2>1, <3>1, <3>2, EarlierDaysUntouched DEF Base
      <3>. QED  BY <1>5, <2>1, <2>2, <3>3, <3>4 DEF Fresh
    <2>. QED  BY <1>2, <2>3, <2>4, OnlyCommitsChange
  <1>. QED  BY <1>4, <1>5

\* At the start every day holds what a run would make of it.
LEMMA InitDays ==
    ASSUME Init, NEW d \in Day
    PROVE  RowsOn(daily, d) = EvaluateDay(InitialTrades, NoQuotes, d, NoRun)
  <1> DEFINE First(e) == EvaluateDay(InitialTrades, NoQuotes, e, NoRun)
  <1>1. daily = UNION {First(e) : e \in Day}
    BY DEF Init
  <1>2. \A e \in Day : \A row \in First(e) : row.day = e
    BY DEF EvaluateDay
  <1> HIDE DEF First
  <1>3. RowsOn(daily, d) = First(d)
    BY <1>1, <1>2 DEF RowsOn
  <1>. QED  BY <1>3 DEF First

LEMMA AgreeInductive == Spec => [](Base /\ RunsAgree /\ WritersAgree)
  <1>1. ASSUME Init
        PROVE  RunsAgree /\ WritersAgree
    <2>1. /\ trades = InitialTrades /\ quote = NoQuotes
          /\ \A x \in Proc : pc[x] = "idle"
      BY <1>1 DEF Init
    <2>2. \A d \in Days(marks) : d \in Day
      BY <1>1, InitBase DEF Base, Types, Days
    <2>3. RunsAgree
      BY <1>1, <2>1, <2>2, InitDays DEF RunsAgree, Right, Working, Proc
    <2>4. WritersAgree
      BY <1>1, <2>1, <2>2, InitDays DEF WritersAgree, Fresh, Proc
    <2>. QED  BY <2>3, <2>4
  <1>. QED  BY <1>1, InitBase, StepBase, StepRunsAgree, StepWritersAgree, PTL DEF Spec

\* Whatever the order of their deletes and inserts, writers alone leave no stale
\* day marked as computed, and neither do runs alone, however many overlap.
THEOREM StaleNeedsBoth == Spec => []StaleTakesBoth
  <1>1. Base /\ RunsAgree /\ WritersAgree => StaleTakesBoth
    <2> SUFFICES ASSUME Base, RunsAgree, WritersAgree, quote = NoQuotes,
                        NoWriterDone \/ NoRunDone, NEW d \in Days(marks)
                 PROVE  Fresh(d)
      BY DEF StaleTakesBoth, NoWriterDone, NoRunDone
    <2>1. CASE NoRunDone
      BY <2>1 DEF WritersAgree
    <2>2. CASE NoWriterDone
      <3>1. d \in Day
        BY DEF Base, Types, Days
      <3>2. trades = InitialTrades /\ Contents(RowsOn(daily, d)) = Right(InitialTrades, d)
        BY <2>2, <3>1 DEF RunsAgree
      <3>. QED  BY <3>2 DEF Fresh, Right
    <2>. QED  BY <2>1, <2>2
  <1>. QED  BY <1>1, AgreeInductive, PTL

\* The types of the cache, the trades and the processes.
THEOREM CacheTypeCorrect == Spec => []Types
  <1>1. Base => Types
    BY DEF Base
  <1>. QED  BY <1>1, InitBase, StepBase, PTL DEF Spec

-----------------------------------------------------------------------------
(* Runs one after another among writers: what DayIsWhole and RunRepairs rest on. *)

\* A row is deleted by one database transaction at a time, and stays visible to
\* the others until that one commits.
LEMMA StepOwned == Base /\ Owned /\ [Next]_vars => Owned'
  <1> SUFFICES ASSUME Base, Owned, [Next]_vars
               PROVE  Owned'
    OBVIOUS
  <1> USE DEF Base, Types, Proc, tables, reads, range, writes
  <1>1. ASSUME daily' = daily, \A x \in Proc : gone'[x] \subseteq gone[x]
        PROVE  Owned'
    BY <1>1 DEF Owned
  <1>2. ASSUME NEW x \in Proc, DeleteRow(x)
        PROVE  Owned'
    <2>1. PICK row \in seen[x] :
            /\ \A y \in Proc \ {x} : row \notin gone[y]
            /\ gone' = [gone EXCEPT ![x] = IF row \in daily THEN @ \union {row} ELSE @]
      BY <1>2 DEF DeleteRow
    <2>2. daily' = daily
      BY <1>2 DEF DeleteRow
    <2>. QED  BY <2>1, <2>2 DEF Owned
  <1>3. ASSUME NEW x \in Proc, daily \ gone[x] \subseteq daily', gone' = [gone EXCEPT ![x] = {}]
        PROVE  Owned'
    BY <1>3 DEF Owned
  <1>4. ASSUME NEW w \in Writer, WriteTrade(w) \/ WriterStep(w)
        PROVE  Owned'
    <2>1. CASE WriteTrade(w) \/ StartCut(w) \/ StartUnmark(w) \/ UnmarkDay(w)
      BY <1>1, <2>1 DEF WriteTrade, StartCut, StartUnmark, UnmarkDay
    <2>. QED  BY <1>2, <1>3, <1>4, <2>1 DEF WriterStep, CutRow, CommitChange, Release
  <1>5. ASSUME NEW r \in Runner, StartRun(r) \/ RunnerStep(r)
        PROVE  Owned'
    <2>1. CASE StartRun(r) \/ ReadQuotes(r) \/ StartDay(r) \/ InsertDay(r) \/ MarkDay(r)
      BY <1>1, <2>1 DEF StartRun, ReadQuotes, StartDay, InsertDay, MarkDay
    <2>2. CASE InsertFails(r)
      BY <1>3, <2>2 DEF InsertFails, Release
    <2>. QED  BY <1>2, <1>3, <1>5, <2>1, <2>2 DEF RunnerStep, ClearRow, CommitRun, Release
  <1>6. ASSUME NEW q \in Reader, CheckCovered(q) \/ ReaderStep(q)
        PROVE  Owned'
    BY <1>1, <1>6 DEF CheckCovered, ReaderStep, ReadCached, ReadTrades, ReadQuotes
  <1>7. ASSUME NEW x \in Proc, Fail(x) \/ DeadlockAbort(x)
        PROVE  Owned'
    BY <1>3, <1>7 DEF Fail, DeadlockAbort, Release
  <1>8. CASE UNCHANGED vars \/ \E p \in Position : PostPrice(p)
    BY <1>1, <1>8 DEF vars, PostPrice
  <1>. QED
    BY <1>4, <1>5, <1>6, <1>7, <1>8 DEF Next, Terminated

Active(r) == pc[r] \notin {"idle"} \union Ended

LEMMA StepRunsApart == ~Overlap /\ Base /\ RunsApart /\ [Next]_vars => RunsApart'
  <1> SUFFICES ASSUME ~Overlap, Base, RunsApart, [Next]_vars,
                      NEW r \in Runner, NEW s \in Runner, Active(r)', Active(s)'
               PROVE  r = s
    BY DEF RunsApart, Active
  <1>1. ASSUME NEW n \in Runner, Active(n)', ~Active(n)
        PROVE  StartRun(n)
    <2>1. n \in Proc /\ n \notin Writer /\ n \notin Reader
      BY ProcAssumption DEF Proc
    <2>2. ~Untouched(n) /\ ~Dropped(n)
      BY <1>1 DEF Untouched, Own, Dropped, Active
    <2>3. ~RunnerStep(n)
      BY <1>1 DEF RunnerStep, ReadQuotes, StartDay, ClearRow, InsertDay, InsertFails, MarkDay,
         CommitRun, Active, Ended
    <2>. QED  BY <2>1, <2>2, <2>3, StepOfProcess
  <1>2. ASSUME NEW n \in Runner, StartRun(n), NEW m \in Runner \ {n}
        PROVE  ~Active(m)'
    <2>1. ~Active(m)
      BY <1>2 DEF StartRun, Active
    <2>2. pc'[m] = pc[m]
      BY <1>2 DEF StartRun, Goto, Base, Types, Proc
    <2>. QED  BY <2>1, <2>2 DEF Active
  <1>3. CASE Active(r) /\ Active(s)
    BY <1>3 DEF RunsApart, Active
  <1>. QED  BY <1>1, <1>2, <1>3

\* While a run is at work, nothing is added to the cache but by its commit.
LEMMA OnlyTheRunAdds ==
    ASSUME Base, RunsApart, [Next]_vars, NEW r \in Runner, pc[r] \in Working, ~CommitRun(r)
    PROVE  daily' \subseteq daily /\ marks' \subseteq marks
  <1>1. ASSUME NEW s \in Runner, CommitRun(s)
        PROVE  FALSE
    BY <1>1 DEF RunsApart, CommitRun, Working, Ended
  <1>2. ASSUME NEW w \in Writer, CommitChange(w)
        PROVE  daily' \subseteq daily /\ marks' \subseteq marks
    BY <1>2 DEF CommitChange
  <1>. QED  BY <1>1, <1>2, OnlyCommitsChange

LEMMA StepCleared == Base /\ RunsApart /\ Cleared /\ [Next]_vars => Cleared'
  <1> SUFFICES ASSUME Base, RunsApart, Cleared, [Next]_vars, NEW r \in Runner
               PROVE  /\ pc'[r] \in Working =>
                           \A d \in Replaced(r)' : RowsOn(daily', d) \subseteq gone'[r]
                      /\ pc'[r] = "clear" =>
                           RowsOn(daily', at'[r]) \subseteq gone'[r] \union seen'[r]
    BY DEF Cleared
  <1> USE DEF Base, Types, Proc, Goto, reads, range
  <1>1. CASE CommitRun(r) \/ InsertFails(r) \/ Dropped(r)
    BY <1>1 DEF CommitRun, InsertFails, Dropped, Working
  <1>2. CASE Untouched(r) /\ ~CommitRun(r)
    <2>1. /\ pc'[r] = pc[r] /\ gone'[r] = gone[r] /\ seen'[r] = seen[r] /\ at'[r] = at[r]
          /\ mark'[r] = mark[r]
      BY <1>2 DEF Untouched, Own
    <2>2. Replaced(r)' = Replaced(r)
      BY <2>1 DEF Replaced
    <2>3. pc[r] \in Working => \A d : RowsOn(daily', d) \subseteq RowsOn(daily, d)
      BY <1>2, OnlyTheRunAdds DEF RowsOn
    <2>4. pc[r] = "clear" => pc[r] \in Working
      BY DEF Working
    <2>. QED  BY <2>1, <2>2, <2>3, <2>4 DEF Cleared
  <1>3. CASE StartRun(r)
    BY <1>3 DEF StartRun, Working
  <1>4. CASE ReadQuotes(r)
    <2>1. pc[r] = "quotes" /\ pc'[r] = "open" /\ mark' = mark /\ mark[r] = {}
      BY <1>4 DEF ReadQuotes, writes, Quiet
    <2>2. Replaced(r)' = {}
      BY <2>1 DEF Replaced, Days
    <2>. QED  BY <2>1, <2>2
  <1>5. CASE StartDay(r)
    <2>1. /\ pc[r] = "open" /\ pc'[r] = "clear" /\ UNCHANGED <<daily, at, gone>>
          /\ seen'[r] = RowsOn(daily, at[r])
      BY <1>5 DEF StartDay, tables
    <2>2. Replaced(r)' = Replaced(r)
      BY <1>5, ReplacedSteps
    <2>. QED  BY <2>1, <2>2 DEF Cleared, Working
  <1>6. CASE ClearRow(r)
    <2>1. PICK row \in seen[r] :
            /\ seen' = [seen EXCEPT ![r] = @ \ {row}]
            /\ gone' = [gone EXCEPT ![r] = IF row \in daily THEN @ \union {row} ELSE @]
      BY <1>6 DEF ClearRow, DeleteRow
    <2>2. pc[r] = "clear" /\ pc'[r] = "clear" /\ UNCHANGED <<daily, at>>
      BY <1>6 DEF ClearRow, DeleteRow, tables
    <2>3. Replaced(r)' = Replaced(r)
      BY <1>6, ReplacedSteps
    <2>4. gone[r] \subseteq gone'[r]
      BY <2>1
    <2>5. RowsOn(daily, at[r]) \subseteq gone'[r] \union seen'[r]
      BY <2>1, <2>2 DEF Cleared, RowsOn
    <2>. QED  BY <2>2, <2>3, <2>4, <2>5 DEF Cleared, Working
  <1>7. CASE InsertDay(r)
    <2>1. /\ pc[r] = "clear" /\ seen[r] = {} /\ pc'[r] = "mark"
          /\ UNCHANGED <<daily, gone>>
      BY <1>7 DEF InsertDay, tables
    <2>2. Replaced(r)' = Replaced(r) \union {at[r]}
      BY <1>7, ReplacedSteps
    <2>. QED  BY <2>1, <2>2 DEF Cleared, Working
  <1>8. CASE MarkDay(r)
    <2>1. pc[r] = "mark" /\ pc'[r] \in {"open", "commit"} /\ UNCHANGED <<daily, gone>>
      BY <1>8 DEF MarkDay, tables
    <2>2. Replaced(r)' = Replaced(r)
      BY <1>8, ReplacedSteps
    <2>. QED  BY <2>1, <2>2 DEF Cleared, Working
  <1>9. r \notin Writer /\ r \notin Reader
    BY ProcAssumption
  <1>. QED
    BY <1>1, <1>2, <1>3, <1>4, <1>5, <1>6, <1>7, <1>8, <1>9, StepOfProcess DEF RunnerStep

\* When a run commits it has deleted everything there was of its range, so nobody
\* else has deleted a row of it.
LEMMA NothingElseDeleted ==
    ASSUME Base, Owned, Cleared, NEW r \in Runner, pc[r] = "commit",
           NEW d \in Day, d \in Days(mark[r])
    PROVE  /\ RowsOn(daily, d) \subseteq gone[r]
           /\ \A x \in Proc \ {r} : RowsOn(gone[x], d) = {}
  <1>1. d \in Replaced(r)
    BY DEF Replaced
  <1>2. RowsOn(daily, d) \subseteq gone[r]
    BY <1>1 DEF Cleared, Working
  <1>3. ASSUME NEW x \in Proc \ {r}, NEW row \in RowsOn(gone[x], d)
        PROVE  FALSE
    <2>1. row \in gone[x] /\ row.day = d
      BY DEF RowsOn
    <2>2. row \in gone[r]
      BY <1>2, <2>1 DEF Owned, RowsOn
    <2>. QED  BY <2>1, <2>2 DEF Owned, Proc
  <1>. QED  BY <1>2, <1>3

\* A day in the range of a run that commits is as the run made it.
LEMMA RangeReplaced ==
    ASSUME Base, Owned, Cleared, NEW r \in Runner, CommitRun(r),
           NEW d \in Day, d \in Days(mark[r])
    PROVE  RowsOn(daily', d) = Made(r, d)
  <1>1. RowsOn(daily \ gone[r], d) = {}
    BY NothingElseDeleted DEF CommitRun, RowsOn
  <1>. QED  BY <1>1, CommittedDay

LEMMA StepUnmarking ==
    Base /\ Owned /\ Cleared /\ Unmarking /\ [Next]_vars => Unmarking'
  <1> SUFFICES ASSUME Base, Owned, Cleared, Unmarking, [Next]_vars,
                      NEW w \in Writer, pc'[w] = "cutDays",
                      NEW m \in marks', change'[w].trade.day <= m.day
               PROVE  \/ TagOf(m) \in seenMarks'[w] \union unmark'[w]
                      \/ m.made \in Runner /\ RowsOn(gone'[w], m.day) = {}
    BY DEF Unmarking
  <1> USE DEF Base, Types, Proc, Goto
  <1>1. w \notin Runner /\ w \notin Reader
    BY ProcAssumption
  <1>2. ASSUME Untouched(w)
        PROVE  \/ TagOf(m) \in seenMarks'[w] \union unmark'[w]
               \/ m.made \in Runner /\ RowsOn(gone'[w], m.day) = {}
    <2>1. /\ pc[w] = "cutDays" /\ change'[w] = change[w] /\ gone'[w] = gone[w]
          /\ seenMarks'[w] = seenMarks[w] /\ unmark'[w] = unmark[w]
      BY <1>2 DEF Untouched, Own
    <2>2. CASE m \in marks
      BY <2>1, <2>2 DEF Unmarking
    <2>3. CASE m \notin marks
      <3>1. PICK r \in Runner : CommitRun(r)
        BY <2>3, OnlyCommitsChange, CommittedCut
      <3>2. m \in mark[r] /\ pc[r] = "commit"
        BY <2>3, <3>1 DEF CommitRun
      <3>3. m.made = r /\ m.day \in Days(mark[r]) /\ m.day \in Day
        BY <3>2 DEF InStep, Step, Working, Days
      <3>4. RowsOn(gone[w], m.day) = {}
        BY <1>1, <3>2, <3>3, NothingElseDeleted
      <3>. QED  BY <2>1, <3>3, <3>4
    <2>. QED  BY <2>2, <2>3
  <1>3. CASE StartUnmark(w)
    <2>1. seenMarks'[w] = Tags({n \in marks : change[w].trade.day <= n.day})
          /\ UNCHANGED <<change, marks>>
      BY <1>3 DEF StartUnmark, tables
    <2>. QED  BY <2>1 DEF Tags
  <1>4. CASE UnmarkDay(w)
    <2>1. PICK tag \in seenMarks[w] :
            /\ seenMarks' = [seenMarks EXCEPT ![w] = @ \ {tag}]
            /\ unmark' = [unmark EXCEPT ![w] =
                             IF tag \in Tags(marks) THEN @ \union {tag} ELSE @]
      BY <1>4 DEF UnmarkDay
    <2>2. pc[w] = "cutDays" /\ UNCHANGED <<change, marks, gone>>
      BY <1>4 DEF UnmarkDay, tables
    <2>3. TagOf(m) \in Tags(marks)
      BY <2>2 DEF Tags
    <2>4. TagOf(m) \in seenMarks[w] \union unmark[w] => TagOf(m) \in seenMarks'[w] \union unmark'[w]
      BY <2>1, <2>3
    <2>. QED  BY <2>2, <2>4 DEF Unmarking
  <1>5. CASE CutRow(w)
    BY <1>5 DEF CutRow, DeleteRow
  <1>6. CASE WriteTrade(w) \/ StartCut(w) \/ CommitChange(w) \/ Dropped(w)
    BY <1>6 DEF WriteTrade, StartCut, CommitChange, Dropped
  <1> HIDE DEF Base, Types
  <1>. QED  BY <1>1, <1>2, <1>3, <1>4, <1>5, <1>6, StepOfProcess DEF WriterStep

\* What a run that has committed made of a day stays what it was.
LEMMA LeftByStays ==
    ASSUME Base, [Next]_vars, NEW run, NEW d, run \in Runner => pc[run] = "done"
    PROVE  /\ run \in Runner => pc'[run] = "done"
           /\ LeftBy(run, d)' = LeftBy(run, d)
  <1>1. ASSUME run \in Runner
        PROVE  pc'[run] = "done" /\ got'[run] = got[run] /\ priced'[run] = priced[run]
    BY <1>1, EndedStays DEF Proc, Ended, Untouched
  <1>2. run \in Runner => Made(run, d)' = Made(run, d)
    BY <1>1 DEF Made
  <1>. QED  BY <1>1, <1>2 DEF LeftBy

\* A commit of a call leaves each day that stays marked as it is.
LEMMA CutSpares ==
    ASSUME Base, Unmarking, NEW w \in Writer, CommitChange(w), NEW m \in marks'
    PROVE  /\ m \in marks
           /\ RowsOn(daily', m.day) = RowsOn(daily, m.day)
           /\ m.day < change[w].trade.day \/ m.made \in Runner
  <1> USE DEF Base, Types
  <1>1. /\ pc[w] = "cutDays" /\ seenMarks[w] = {} /\ daily' = daily \ gone[w]
        /\ m \in marks /\ TagOf(m) \notin unmark[w]
    BY DEF CommitChange
  <1>2. m.day \in Day /\ m.day \in Nat /\ change[w].trade.day \in Nat
    BY <1>1, DayFacts DEF Change, Trade, NoChange
  <1>3. CASE m.day < change[w].trade.day
    BY <1>1, <1>2, <1>3, CommittedCut
  <1>4. CASE change[w].trade.day <= m.day
    <2>1. m.made \in Runner /\ RowsOn(gone[w], m.day) = {}
      BY <1>1, <1>4 DEF Unmarking
    <2>2. RowsOn(daily', m.day) = RowsOn(daily, m.day)
      BY <1>1, <2>1 DEF RowsOn
    <2>. QED  BY <1>1, <2>1, <2>2
  <1>. QED  BY <1>2, <1>3, <1>4

LEMMA StepKept ==
    Base /\ Owned /\ Cleared /\ Unmarking /\ Kept /\ [Next]_vars => Kept'
  <1> SUFFICES ASSUME Base, Owned, Cleared, Unmarking, Kept, [Next]_vars, NEW m \in marks'
               PROVE  /\ m.made \in Runner => pc'[m.made] = "done"
                      /\ RowsOn(daily', m.day) = LeftBy(m.made, m.day)'
                      /\ m.count = Cardinality(LeftBy(m.made, m.day)')
    BY DEF Kept
  <1>1. ASSUME m \in marks, RowsOn(daily', m.day) = RowsOn(daily, m.day)
        PROVE  /\ m.made \in Runner => pc'[m.made] = "done"
               /\ RowsOn(daily', m.day) = LeftBy(m.made, m.day)'
               /\ m.count = Cardinality(LeftBy(m.made, m.day)')
    <2>1. /\ m.made \in Runner => pc[m.made] = "done"
          /\ RowsOn(daily, m.day) = LeftBy(m.made, m.day)
          /\ m.count = Cardinality(LeftBy(m.made, m.day))
      BY <1>1 DEF Kept
    <2>2. /\ m.made \in Runner => pc'[m.made] = "done"
          /\ LeftBy(m.made, m.day)' = LeftBy(m.made, m.day)
      BY <2>1, LeftByStays
    <2>. QED  BY <1>1, <2>1, <2>2
  <1>2. CASE UNCHANGED <<trades, daily, marks>>
    BY <1>1, <1>2
  <1>3. ASSUME NEW w \in Writer, CommitChange(w)
        PROVE  m \in marks /\ RowsOn(daily', m.day) = RowsOn(daily, m.day)
    BY <1>3, CutSpares
  <1>4. ASSUME NEW r \in Runner, CommitRun(r)
        PROVE  /\ m.made \in Runner => pc'[m.made] = "done"
               /\ RowsOn(daily', m.day) = LeftBy(m.made, m.day)'
               /\ m.count = Cardinality(LeftBy(m.made, m.day)')
    <2>1. /\ pc[r] = "commit" /\ pc'[r] = "done" /\ UNCHANGED <<got, priced>>
          /\ marks' = {n \in marks : n.day \notin Days(mark[r])} \union mark[r]
      BY <1>4 DEF CommitRun, reads, Goto, Base, Types, Proc
    <2>2. m.day \in Day
      BY StepBase DEF Base, Types
    <2>3. CASE m \in mark[r]
      <3>1. m.made = r /\ m.count = Cardinality(Made(r, m.day)) /\ m.day \in Days(mark[r])
        BY <2>1, <2>3 DEF Base, InStep, Step, Working, Days
      <3>2. RowsOn(daily', m.day) = Made(r, m.day)
        BY <1>4, <2>2, <3>1, RangeReplaced
      <3>3. LeftBy(r, m.day)' = Made(r, m.day)
        BY <2>1 DEF LeftBy, Made
      <3>. QED  BY <2>1, <3>1, <3>2, <3>3
    <2>4. CASE m \in marks /\ m.day \notin Days(mark[r])
      BY <1>1, <1>4, <2>2, <2>4, CommittedDay
    <2>. QED  BY <2>1, <2>3, <2>4
  <1>. QED  BY <1>1, <1>2, <1>3, <1>4, OnlyCommitsChange

LEMMA InitInTurn == Init => InTurn
  <1> SUFFICES ASSUME Init
               PROVE  InTurn
    OBVIOUS
  <1>1. \A x \in Proc : pc[x] = "idle" /\ gone[x] = {}
    BY DEF Init
  <1>2. RunsApart /\ Owned /\ Cleared /\ Unmarking
    BY <1>1 DEF RunsApart, Owned, Cleared, Working, Unmarking, Proc
  <1>3. ASSUME NEW m \in marks
        PROVE  m.day \in Day /\ m.made = NoRun /\ m.count = Cardinality(RowsOn(daily, m.day))
    <2> DEFINE MarkOf(d) == [day |-> d, count |-> Cardinality(RowsOn(daily, d)), by |-> NoRun,
                             made |-> NoRun]
    <2>1. marks = {MarkOf(d) : d \in Day}
      BY DEF Init
    <2>2. \A d \in Day : /\ MarkOf(d).day = d /\ MarkOf(d).made = NoRun
                         /\ MarkOf(d).count = Cardinality(RowsOn(daily, d))
      OBVIOUS
    <2> HIDE DEF MarkOf
    <2>. QED  BY <2>1, <2>2
  <1>4. Kept
    BY <1>3, InitDays, NoRunAssumption DEF Kept, LeftBy
  <1>. QED  BY <1>2, <1>4 DEF InTurn

LEMMA InTurnInductive == ~Overlap => (Spec => [](Base /\ InTurn))
  <1> SUFFICES ASSUME ~Overlap
               PROVE  Spec => [](Base /\ InTurn)
    OBVIOUS
  <1>1. Base /\ InTurn /\ [Next]_vars => InTurn'
    BY StepRunsApart, StepOwned, StepCleared, StepUnmarking, StepKept DEF InTurn
  <1>. QED  BY <1>1, InitBase, InitInTurn, StepBase, PTL DEF Spec

\* However a run's deletes and inserts interleave with those of the calls that
\* cut the cache, and whatever its range, a marked day holds exactly the rows its
\* marker counted.  (Two runs at once over one user can break this.)
THEOREM MarkedDaysWhole == ~Overlap => (Spec => []DayIsWhole)
  <1> SUFFICES ASSUME ~Overlap
               PROVE  Spec => []DayIsWhole
    OBVIOUS
  <1>1. Base /\ InTurn => DayIsWhole
    BY DEF InTurn, Kept, DayIsWhole
  <1>. QED  BY <1>1, InTurnInductive, PTL

\* A day that was last computed by a run whose trades and prices are still those in
\* force is not stale, whatever was cut while it ran and since.
THEOREM RunsRepair == ~Overlap => (Spec => []RunRepairs)
  <1> SUFFICES ASSUME ~Overlap
               PROVE  Spec => []RunRepairs
    OBVIOUS
  <1>1. Base /\ InTurn => RunRepairs
    <2> SUFFICES ASSUME Base, InTurn, NEW m \in marks, m.made \in Runner,
                        got[m.made] = trades, priced[m.made] = quote
                 PROVE  Fresh(m.day)
      BY DEF RunRepairs
    <2>1. RowsOn(daily, m.day) = EvaluateDay(trades, quote, m.day, m.made)
      BY DEF InTurn, Kept, LeftBy, Made
    <2>. QED  BY <2>1, ContentsOfDay DEF Fresh
  <1>. QED  BY <1>1, InTurnInductive, PTL

-----------------------------------------------------------------------------
(* What a reader finds in the cache. *)

\* The rows of a run are there, and seen by who deletes, once it has committed.
Foreign ==
    \A r \in Runner : pc[r] # "done" =>
        /\ \A row \in daily : row.by # r
        /\ \A x \in Proc : \A row \in seen[x] : row.by # r

\* Of each day from its trade's on a writer takes all rows, or, when a run has put
\* the day there before it took any, none.
CutsWhole ==
    \A w \in Writer : pc[w] \in {"cutDaily", "cutDays"} =>
        /\ pc[w] = "cutDays" => seen[w] = {}
        /\ \A d \in Day : change[w].trade.day <= d =>
             \/ RowsOn(daily, d) \subseteq seen[w] \union gone[w]
             \/ RowsOn(gone[w], d) = {} /\ RowsOn(seen[w] \intersect daily, d) = {}

Answers == DOMAIN answer = Reader /\ AnswerDaysAreWhole

Read == Foreign /\ CutsWhole /\ WholeDays(daily) /\ Answers

LEMMA InitRead == Init => Read
  <1> SUFFICES ASSUME Init
               PROVE  Read
    OBVIOUS
  <1>1. /\ \A x \in Proc : pc[x] = "idle" /\ seen[x] = {}
        /\ daily = UNION {EvaluateDay(InitialTrades, NoQuotes, d, NoRun) : d \in Day}
        /\ answer = [q \in Reader |-> {}]
    BY DEF Init
  <1>2. Foreign
    BY <1>1, NoRunAssumption DEF Foreign, EvaluateDay
  <1>3. WholeDays(daily)
    BY InitDays DEF WholeDays
  <1>4. CutsWhole
    BY <1>1 DEF CutsWhole, Proc
  <1>5. Answers
    BY <1>1 DEF Answers, AnswerDaysAreWhole, WholeDays, RowsOn
  <1>. QED  BY <1>2, <1>3, <1>4, <1>5 DEF Read

\* Who deletes has seen what there was; what is added is the run's that commits.
LEMMA StepForeign == Base /\ Foreign /\ [Next]_vars => Foreign'
  <1> SUFFICES ASSUME Base, Foreign, [Next]_vars, NEW r \in Runner, pc'[r] # "done"
               PROVE  /\ \A row \in daily' : row.by # r
                      /\ \A x \in Proc : \A row \in seen'[x] : row.by # r
    BY DEF Foreign
  <1> USE DEF Base, Types, Proc
  <1>1. pc[r] # "done"
    BY EndedStays DEF Ended
  <1>2. \A row \in daily : row.by # r
    BY <1>1 DEF Foreign
  <1>3. ASSUME NEW row \in daily'
        PROVE  row.by # r
    <2>1. CASE UNCHANGED <<trades, daily, marks>>
      BY <1>2, <2>1
    <2>2. ASSUME NEW w \in Writer, CommitChange(w)
          PROVE  row.by # r
      BY <1>2, <2>2 DEF CommitChange
    <2>3. ASSUME NEW s \in Runner, CommitRun(s)
          PROVE  row.by # r
      <3>1. pc[s] = "commit" /\ pc'[s] = "done" /\ daily' = (daily \ gone[s]) \union put[s]
        BY <2>3 DEF CommitRun, Goto
      <3>2. s # r
        BY <3>1
      <3>3. \A new \in put[s] : new.by = s
        <4>1. put[s] = UNION {Made(s, d) : d \in Replaced(s)}
          BY <3>1 DEF InStep, Step, Working
        <4>2. \A d : \A new \in Made(s, d) : new.by = s
          BY DEF Made, EvaluateDay
        <4>. QED  BY <4>1, <4>2
      <3>. QED  BY <1>2, <3>1, <3>2, <3>3
    <2>. QED  BY <2>1, <2>2, <2>3, OnlyCommitsChange
  <1>4. ASSUME NEW x \in Proc, NEW row \in seen'[x]
        PROVE  row.by # r
    <2>1. row \in seen[x] \/ row \in daily
      <3>1. CASE Untouched(x) \/ Dropped(x)
        BY <1>4, <3>1 DEF Untouched, Own, Dropped, Release
      <3>2. ASSUME x \in Writer, WriteTrade(x) \/ WriterStep(x)
            PROVE  row \in seen[x] \/ row \in daily
        <4>1. CASE WriteTrade(x) \/ StartUnmark(x) \/ UnmarkDay(x) \/ CommitChange(x)
          BY <1>4, <4>1 DEF WriteTrade, StartUnmark, UnmarkDay, CommitChange, Release, writes
        <4>2. CASE StartCut(x) \/ CutRow(x)
          BY <1>4, <4>2 DEF StartCut, CutRow, DeleteRow
        <4>. QED  BY <3>2, <4>1, <4>2 DEF WriterStep
      <3>3. ASSUME x \in Runner, StartRun(x) \/ RunnerStep(x)
            PROVE  row \in seen[x] \/ row \in daily
        <4>1. CASE StartRun(x) \/ ReadQuotes(x) \/ InsertDay(x) \/ MarkDay(x)
          BY <1>4, <4>1 DEF StartRun, ReadQuotes, InsertDay, MarkDay, writes
        <4>2. CASE InsertFails(x) \/ CommitRun(x)
          BY <1>4, <4>2 DEF InsertFails, CommitRun, Release
        <4>3. CASE StartDay(x) \/ ClearRow(x)
          BY <1>4, <4>3 DEF StartDay, ClearRow, DeleteRow, RowsOn
        <4>. QED  BY <3>3, <4>1, <4>2, <4>3 DEF RunnerStep
      <3>4. ASSUME x \in Reader, CheckCovered(x) \/ ReaderStep(x)
            PROVE  row \in seen[x]
        BY <1>4, <3>4 DEF CheckCovered, ReaderStep, ReadCached, ReadTrades, ReadQuotes, writes
      <3>. QED  BY <3>1, <3>2, <3>3, <3>4, StepOfProcess
    <2>. QED  BY <1>1, <2>1 DEF Foreign
  <1>. QED  BY <1>3, <1>4

\* A writer that has started has a change, and deletes no marker before its day.
Cutting ==
    \A w \in Writer :
        /\ pc[w] # "idle" => change[w] \in Change
        /\ \A tag \in seenMarks[w] \union unmark[w] : change[w].trade.day <= tag.day

LEMMA InitCutting == Init => Cutting
  BY DEF Init, Cutting, Proc

LEMMA StepCutting == Base /\ Cutting /\ [Next]_vars => Cutting'
  <1> SUFFICES ASSUME Base, Cutting, [Next]_vars, NEW w \in Writer
               PROVE  /\ pc'[w] # "idle" => change'[w] \in Change
                      /\ \A tag \in seenMarks'[w] \union unmark'[w] :
                           change'[w].trade.day <= tag.day
    BY DEF Cutting
  <1> USE DEF Base, Types, Goto, Proc
  <1>1. CASE Untouched(w)
    BY <1>1 DEF Untouched, Own, Cutting
  <1>2. CASE WriteTrade(w)
    <2>1. seenMarks'[w] = {} /\ unmark'[w] = {}
      BY <1>2 DEF WriteTrade, Quiet, writes
    <2>2. change'[w] \in Change
      BY <1>2 DEF WriteTrade
    <2>. QED  BY <2>1, <2>2
  <1>3. CASE StartCut(w) \/ CutRow(w)
    BY <1>3 DEF StartCut, CutRow, DeleteRow, Cutting
  <1>4. CASE StartUnmark(w)
    <2>1. /\ seenMarks'[w] = Tags({m \in marks : change[w].trade.day <= m.day})
          /\ UNCHANGED <<change, unmark>> /\ pc[w] = "cutDaily"
      BY <1>4 DEF StartUnmark
    <2>2. \A tag \in seenMarks'[w] : change[w].trade.day <= tag.day
      BY <2>1 DEF Tags, TagOf
    <2>. QED  BY <2>1, <2>2 DEF Cutting
  <1>5. CASE UnmarkDay(w)
    BY <1>5 DEF UnmarkDay, Cutting
  <1>6. CASE CommitChange(w) \/ Dropped(w)
    BY <1>6 DEF CommitChange, Dropped, Release, Cutting
  <1>7. w \notin Runner /\ w \notin Reader
    BY ProcAssumption
  <1>. QED
    BY <1>1, <1>2, <1>3, <1>4, <1>5, <1>6, <1>7, StepOfProcess DEF WriterStep

\* What a run puts there is its own.
LEMMA PutIsOwn ==
    ASSUME Base, NEW r \in Runner, pc[r] = "commit"
    PROVE  \A row \in put[r] : row.by = r
  <1>1. put[r] = UNION {Made(r, d) : d \in Replaced(r)}
    BY DEF Base, InStep, Step, Working
  <1>2. \A d : \A row \in Made(r, d) : row.by = r
    BY DEF Made, EvaluateDay
  <1>. QED  BY <1>1, <1>2

LEMMA StepCutsWhole ==
    Base /\ Owned /\ Cleared /\ Foreign /\ CutsWhole /\ [Next]_vars => CutsWhole'
  <1> DEFINE Whole(w, d) ==
               \/ RowsOn(daily, d) \subseteq seen[w] \union gone[w]
               \/ RowsOn(gone[w], d) = {} /\ RowsOn(seen[w] \intersect daily, d) = {}
  <1> SUFFICES ASSUME Base, Owned, Cleared, Foreign, CutsWhole, [Next]_vars, NEW w \in Writer,
                      pc'[w] \in {"cutDaily", "cutDays"}
               PROVE  /\ pc'[w] = "cutDays" => seen'[w] = {}
                      /\ \A d \in Day : change'[w].trade.day <= d => Whole(w, d)'
    BY DEF CutsWhole
  <1> USE DEF Base, Types, Proc, Goto
  <1>1. w \notin Runner /\ w \notin Reader
    BY ProcAssumption
  <1>2. CASE Untouched(w)
    <2>1. /\ pc'[w] = pc[w] /\ seen'[w] = seen[w] /\ gone'[w] = gone[w]
          /\ change'[w] = change[w]
      BY <1>2 DEF Untouched, Own
    <2>2. /\ pc[w] = "cutDays" => seen[w] = {}
          /\ \A d \in Day : change[w].trade.day <= d => Whole(w, d)
      BY <2>1 DEF CutsWhole
    <2>3. CASE daily' \subseteq daily
      BY <2>1, <2>2, <2>3 DEF RowsOn
    <2>4. ASSUME NEW r \in Runner, CommitRun(r), NEW d \in Day, change[w].trade.day <= d
          PROVE  Whole(w, d)'
      <3>1. pc[r] = "commit" /\ daily' = (daily \ gone[r]) \union put[r] /\ w # r
        BY <1>1, <2>4 DEF CommitRun
      <3>2. CASE d \notin Days(mark[r])
        <4>1. RowsOn(daily', d) = RowsOn(daily, d)
          BY <2>4, <3>2, CommittedDay
        <4>2. RowsOn(seen[w] \intersect daily', d) = RowsOn(seen[w] \intersect daily, d)
          BY <4>1 DEF RowsOn
        <4>. QED  BY <2>1, <2>2, <2>4, <4>1, <4>2
      <3>3. CASE d \in Days(mark[r])
        <4>1. RowsOn(gone[w], d) = {} /\ RowsOn(daily, d) \subseteq gone[r]
          BY <3>1, <3>3, NothingElseDeleted
        <4>2. \A row \in seen[w] : row \notin put[r]
          BY <3>1, PutIsOwn DEF Foreign
        <4>3. RowsOn(seen[w] \intersect daily', d) = {}
          BY <3>1, <4>1, <4>2 DEF RowsOn
        <4>. QED  BY <2>1, <4>1, <4>3
      <3>. QED  BY <3>2, <3>3
    <2>5. daily' \subseteq daily \/ \E r \in Runner : CommitRun(r)
      BY OnlyCommitsChange DEF CommitChange
    <2> HIDE DEF Base, Types, Whole
    <2>. QED  BY <2>1, <2>2, <2>3, <2>4, <2>5
  <1>3. CASE StartCut(w)
    <2>1. /\ pc'[w] = "cutDaily" /\ UNCHANGED <<daily, change>>
          /\ seen'[w] = {row \in daily : change[w].trade.day <= row.day}
      BY <1>3 DEF StartCut, tables
    <2>2. \A d \in Day : change'[w].trade.day <= d => RowsOn(daily', d) \subseteq seen'[w]
      BY <2>1 DEF RowsOn
    <2>. QED  BY <2>1, <2>2
  <1>4. CASE CutRow(w)
    <2>1. PICK row \in seen[w] :
            /\ seen' = [seen EXCEPT ![w] = @ \ {row}]
            /\ gone' = [gone EXCEPT ![w] = IF row \in daily THEN @ \union {row} ELSE @]
      BY <1>4 DEF CutRow, DeleteRow
    <2>2. pc[w] = "cutDaily" /\ UNCHANGED <<daily, pc, change>>
      BY <1>4 DEF CutRow, DeleteRow, tables
    <2>3. ASSUME NEW d \in Day, change[w].trade.day <= d
          PROVE  Whole(w, d)'
      <3>1. CASE RowsOn(daily, d) \subseteq seen[w] \union gone[w]
        <4>1. RowsOn(daily', d) \subseteq seen'[w] \union gone'[w]
          BY <2>1, <2>2, <3>1 DEF RowsOn
        <4>. QED  BY <4>1
      <3>2. CASE RowsOn(gone[w], d) = {} /\ RowsOn(seen[w] \intersect daily, d) = {}
        <4>1. RowsOn(gone'[w], d) = {}
          BY <2>1, <3>2 DEF RowsOn
        <4>2. RowsOn(seen'[w] \intersect daily', d) = {}
          BY <2>1, <2>2, <3>2 DEF RowsOn
        <4>. QED  BY <4>1, <4>2
      <3>. QED  BY <2>2, <2>3, <3>1, <3>2 DEF CutsWhole
    <2>. QED  BY <2>2, <2>3
  <1>5. CASE StartUnmark(w)
    <2>1. /\ pc[w] = "cutDaily" /\ seen[w] = {} /\ UNCHANGED <<daily, change, seen, gone>>
      BY <1>5 DEF StartUnmark, tables
    <2>. QED  BY <2>1 DEF CutsWhole
  <1>6. CASE UnmarkDay(w)
    <2>1. /\ pc[w] = "cutDays" /\ UNCHANGED <<daily, pc, change, seen, gone>>
      BY <1>6 DEF UnmarkDay, tables
    <2>. QED  BY <2>1 DEF CutsWhole
  <1>7. CASE WriteTrade(w) \/ CommitChange(w) \/ Dropped(w)
    BY <1>7 DEF WriteTrade, CommitChange, Dropped
  <1> HIDE DEF Base, Types, Whole
  <1>. QED
    BY <1>1, <1>2, <1>3, <1>4, <1>5, <1>6, <1>7, StepOfProcess DEF WriterStep

\* A run that has committed keeps what it has read.
LEMMA WholeDaysStay ==
    ASSUME Base, [Next]_vars, NEW R, WholeDays(R), NEW d \in Day
    PROVE  \/ RowsOn(R, d) = {}
           \/ RowsOn(R, d) = EvaluateDay(InitialTrades, NoQuotes, d, NoRun)
           \/ \E r \in Runner : pc'[r] = "done" /\ RowsOn(R, d) = Made(r, d)'
  <1>1. ASSUME NEW r \in Runner, pc[r] = "done"
        PROVE  pc'[r] = "done" /\ Made(r, d)' = Made(r, d)
    <2>1. LeftBy(r, d)' = LeftBy(r, d) /\ pc'[r] = "done"
      BY <1>1, LeftByStays
    <2>. QED  BY <2>1 DEF LeftBy
  <1>. QED  BY <1>1 DEF WholeDays

\* Commits of calls take days away whole, and a run that commits has replaced those
\* of its range.
LEMMA StepWholeDays ==
    Base /\ InTurn /\ Cutting /\ CutsWhole /\ WholeDays(daily) /\ [Next]_vars
        => WholeDays(daily)'
  <1> SUFFICES ASSUME Base, InTurn, Cutting, CutsWhole, WholeDays(daily), [Next]_vars,
                      NEW d \in Day
               PROVE  \/ RowsOn(daily', d) = {}
                      \/ RowsOn(daily', d) = EvaluateDay(InitialTrades, NoQuotes, d, NoRun)
                      \/ \E r \in Runner : pc'[r] = "done" /\ RowsOn(daily', d) = Made(r, d)'
    BY DEF WholeDays
  <1>1. CASE RowsOn(daily', d) = RowsOn(daily, d)
    BY <1>1, WholeDaysStay
  <1>2. CASE UNCHANGED <<trades, daily, marks>>
    BY <1>1, <1>2
  <1>3. ASSUME NEW w \in Writer, CommitChange(w)
        PROVE  RowsOn(daily', d) = {} \/ RowsOn(daily', d) = RowsOn(daily, d)
    <2>1. pc[w] = "cutDays" /\ daily' = daily \ gone[w]
      BY <1>3 DEF CommitChange
    <2>2. change[w].trade.day \in Nat /\ d \in Nat
      BY DayFacts DEF Base, Types, Change, Trade, NoChange
    <2>3. CASE d < change[w].trade.day
      BY <1>3, <2>3, CommittedCut
    <2>4. CASE change[w].trade.day <= d
      <3>1. RowsOn(daily, d) \subseteq gone[w] \/ RowsOn(gone[w], d) = {}
        BY <2>1, <2>4 DEF CutsWhole
      <3>. QED  BY <2>1, <3>1 DEF RowsOn
    <2>. QED  BY <2>2, <2>3, <2>4
  <1>4. ASSUME NEW r \in Runner, CommitRun(r)
        PROVE  \/ RowsOn(daily', d) = RowsOn(daily, d)
               \/ pc'[r] = "done" /\ RowsOn(daily', d) = Made(r, d)'
    <2>1. /\ pc'[r] = "done" /\ UNCHANGED <<got, priced>>
      BY <1>4 DEF CommitRun, Goto, reads, Base, Types, Proc
    <2>2. Made(r, d)' = Made(r, d)
      BY <2>1 DEF Made
    <2>. QED  BY <1>4, <2>1, <2>2, CommittedDay, RangeReplaced DEF InTurn
  <1>. QED  BY <1>1, <1>2, <1>3, <1>4, OnlyCommitsChange

LEMMA StepAnswers ==
    Base /\ WholeDays(daily) /\ Answers /\ [Next]_vars => Answers'
  <1> SUFFICES ASSUME Base, WholeDays(daily), Answers, [Next]_vars
               PROVE  Answers'
    OBVIOUS
  <1>1. \/ UNCHANGED answer
        \/ \E q \in Reader : ReadCached(q)
    <2>1. ASSUME NEW w \in Writer, WriteTrade(w) \/ WriterStep(w)
          PROVE  UNCHANGED answer
      BY <2>1 DEF WriteTrade, WriterStep, StartCut, CutRow, DeleteRow, StartUnmark, UnmarkDay,
         CommitChange
    <2>2. ASSUME NEW r \in Runner, StartRun(r) \/ RunnerStep(r)
          PROVE  UNCHANGED answer
      BY <2>2 DEF StartRun, ReadQuotes, RunnerStep, StartDay, ClearRow, DeleteRow, InsertDay,
         InsertFails, MarkDay, CommitRun
    <2>3. ASSUME NEW q \in Reader, CheckCovered(q) \/ ReaderStep(q)
          PROVE  UNCHANGED answer \/ ReadCached(q)
      BY <2>3 DEF CheckCovered, ReaderStep, ReadTrades, ReadQuotes
    <2>4. ASSUME NEW x \in Proc, Fail(x) \/ DeadlockAbort(x)
          PROVE  UNCHANGED answer
      BY <2>4 DEF Fail, DeadlockAbort
    <2>5. CASE UNCHANGED vars \/ \E p \in Position : PostPrice(p)
      BY <2>5 DEF vars, PostPrice
    <2>. QED  BY <2>1, <2>2, <2>3, <2>4, <2>5 DEF Next, Terminated
  <1>2. DOMAIN answer' = Reader
    BY <1>1 DEF Answers, ReadCached
  <1>3. ASSUME NEW q \in Reader
        PROVE  WholeDays(answer'[q])
    <2>1. answer'[q] = answer[q] \/ answer'[q] = daily
      BY <1>1 DEF Answers, ReadCached
    <2>2. WholeDays(answer[q])
      BY DEF Answers, AnswerDaysAreWhole
    <2>. QED  BY <2>1, <2>2
  <1>4. ASSUME NEW q \in Reader
        PROVE  WholeDays(answer[q])'
    <2>1. WholeDays(answer'[q])
      BY <1>3
    <2>. QED  BY <2>1, WholeDaysStay DEF WholeDays
  <1>. QED  BY <1>2, <1>4 DEF Answers, AnswerDaysAreWhole

\* GET /analytics/asset-history counts the markers and reads the rows in two
\* statements, and a change may cut the cache in between, or a run replace some of
\* its days.  As long as runs do not overlap, each day that it answers is as one run
\* left it that has committed, or as it was at the start, or missing: whatever the
\* ranges of the runs, no day is shown in part or mixed.
THEOREM AnswersAreWhole == ~Overlap => (Spec => []AnswerDaysAreWhole)
  <1> SUFFICES ASSUME ~Overlap
               PROVE  Spec => []AnswerDaysAreWhole
    OBVIOUS
  <1>1. Base /\ InTurn /\ Cutting /\ Read /\ [Next]_vars => Read'
    BY StepForeign, StepCutsWhole, StepWholeDays, StepAnswers DEF Read, InTurn
  <1>2. Read => AnswerDaysAreWhole
    BY DEF Read, Answers
  <1>. QED
    BY <1>1, <1>2, InitRead, InitCutting, StepCutting, InTurnInductive, PTL DEF Spec

-----------------------------------------------------------------------------
(* Runs one after another among writers implement AtomicCache. *)

\* What a day shows does not tell which run has put it there.
LEMMA ShownByRun ==
    ASSUME NEW S, NEW q, NEW d, NEW run
    PROVE  Contents(EvaluateDay(S, q, d, run)) = Shown(S, q, d)
  BY ContentsOfDay DEF Shown

StoredOn(d) ==
    IF d \in Days(marks) THEN [there |-> TRUE, rows |-> Contents(RowsOn(daily, d))]
    ELSE Atomic!Absent

LEMMA StoredFacts == Stored = [d \in Day |-> StoredOn(d)]
  BY DEF Stored, StoredOn, Atomic!Absent

LEMMA InitStored ==
    ASSUME Init
    PROVE  Stored = [d \in Day |-> [there |-> TRUE, rows |-> Shown(trades, quote, d)]]
  <1>1. /\ trades = InitialTrades /\ quote = NoQuotes
        /\ daily = UNION {EvaluateDay(InitialTrades, NoQuotes, d, NoRun) : d \in Day}
        /\ marks = {[day |-> d, count |-> Cardinality(RowsOn(daily, d)),
                     by |-> NoRun, made |-> NoRun] : d \in Day}
    BY DEF Init
  <1>2. Days(marks) = Day
    <2> DEFINE MarkOf(d) == [day |-> d, count |-> Cardinality(RowsOn(daily, d)), by |-> NoRun,
                          made |-> NoRun]
    <2>1. marks = {MarkOf(d) : d \in Day}
      BY <1>1
    <2>2. \A d \in Day : MarkOf(d).day = d
      OBVIOUS
    <2> HIDE DEF MarkOf
    <2>. QED  BY <2>1, <2>2 DEF Days
  <1>3. ASSUME NEW d \in Day
        PROVE  RowsOn(daily, d) = EvaluateDay(InitialTrades, NoQuotes, d, NoRun)
    BY <1>1 DEF RowsOn, EvaluateDay
  <1>4. ASSUME NEW d \in Day
        PROVE  StoredOn(d) = [there |-> TRUE, rows |-> Shown(trades, quote, d)]
    BY <1>1, <1>2, <1>3, <1>4 DEF StoredOn, Shown
  <1>. QED  BY <1>4, StoredFacts

\* A commit of a call: what is left of the days from its trade's on is a run's.
LEMMA CommitChangeIsAtomic ==
    ASSUME Base, InTurn, Cutting, NEW w \in Writer, CommitChange(w)
    PROVE  \E t \in Trade : Atomic!Change(t)
  <1> USE DEF Base, InTurn
  <1> DEFINE t == change[w].trade
             cut == {d \in Day : t.day <= d /\ d \notin Days(marks')}
  <1>1. /\ pc[w] = "cutDays" /\ trades' = Apply(change[w])
        /\ daily' = daily \ gone[w]
        /\ marks' = {m \in marks : TagOf(m) \notin unmark[w]}
        /\ UNCHANGED <<quote, got, priced>>
    BY DEF CommitChange, reads
  <1>2. change[w] \in Change /\ t \in Trade
    BY <1>1 DEF Cutting, Change
  <1>3. trades' \in {trades \union {t}, trades \ {t}}
    BY <1>1 DEF Apply
  <1>4. t.day \in Nat /\ \A d \in Day : d \in Nat
    BY <1>2, DayFacts DEF Trade
  <1>5. ASSUME NEW d \in Day, ~ (t.day <= d)
        PROVE  StoredOn(d)' = StoredOn(d)
    <2>1. RowsOn(daily', d) = RowsOn(daily, d)
      BY <1>4, <1>5, CommittedCut
    <2>2. ASSUME NEW m \in marks, m.day = d
          PROVE  m \in marks'
      BY <1>1, <1>5, <2>2 DEF Cutting, TagOf
    <2>3. d \in Days(marks') <=> d \in Days(marks)
      BY <1>1, <2>2 DEF Days
    <2>. QED  BY <2>1, <2>3 DEF StoredOn, Atomic!Absent
  <1>6. ASSUME NEW d \in Day \ cut, t.day <= d
        PROVE  StoredOn(d)' = StoredOn(d) /\ \E r \in Runner : StoredOn(d) = Atomic!PutBy(r, d)
    <2>1. PICK m \in marks' : m.day = d
      BY <1>6 DEF Days
    <2>2. m.day \in Nat /\ ~ (m.day < t.day)
      BY <1>4, <1>6, <2>1
    <2>3. /\ m \in marks /\ m.made \in Runner
          /\ RowsOn(daily', d) = RowsOn(daily, d)
      BY <2>1, <2>2, CutSpares
    <2>4. RowsOn(daily, d) = Made(m.made, d)
      BY <2>1, <2>3 DEF Kept, LeftBy
    <2>5. d \in Days(marks) /\ d \in Days(marks')
      BY <2>1, <2>3 DEF Days
    <2>6. Contents(RowsOn(daily, d)) = Shown(got[m.made], priced[m.made], d)
      BY <2>4, ShownByRun DEF Made
    <2>7. Atomic!PutBy(m.made, d) =
            [there |-> TRUE, rows |-> Shown(got[m.made], priced[m.made], d)]
      BY <2>3 DEF Atomic!PutBy
    <2>. QED  BY <2>3, <2>5, <2>6, <2>7 DEF StoredOn
  <1>7. ASSUME NEW d \in cut
        PROVE  StoredOn(d)' = Atomic!Absent
    BY <1>7 DEF StoredOn, Atomic!Absent
  <1>8. cut \in SUBSET {d \in Day : t.day <= d}
    OBVIOUS
  <1>9. Stored' = [d \in Day |-> IF d \in cut THEN Atomic!Absent ELSE Stored[d]]
    <2>1. ASSUME NEW d \in Day
          PROVE  StoredOn(d)' = IF d \in cut THEN Atomic!Absent ELSE Stored[d]
      <3>1. Stored[d] = StoredOn(d)
        BY StoredFacts
      <3>. QED  BY <1>5, <1>6, <1>7, <3>1
    <2>2. Stored' = [d \in Day |-> StoredOn(d)']
      BY StoredFacts DEF Stored, StoredOn, Atomic!Absent
    <2> HIDE DEF cut, t
    <2>. QED  BY <2>1, <2>2
  <1>10. \A d \in Day \ cut : t.day <= d => \E r \in Runner : Stored[d] = Atomic!PutBy(r, d)
    BY <1>6, StoredFacts
  <1> HIDE DEF cut, t
  <1>. QED  BY <1>1, <1>2, <1>3, <1>8, <1>9, <1>10 DEF Atomic!Change

\* A commit of a run: the days of its range are there, as they were computed, and the
\* others as they were.
LEMMA CommitRunIsAtomic ==
    ASSUME Base, InTurn, NEW r \in Runner, CommitRun(r)
    PROVE  Atomic!Put(r)
  <1> USE DEF Base, InTurn
  <1>1. /\ pc[r] = "commit" /\ UNCHANGED <<trades, quote, got, priced>>
        /\ marks' = {m \in marks : m.day \notin Days(mark[r])} \union mark[r]
    BY DEF CommitRun, reads
  <1>2. at[r] \in Day /\ \A d \in Day : d \in Nat
    BY DayFacts DEF Types
  <1>3. PICK from \in Day :
            from <= at[r] /\ Days(mark[r]) = {d \in Day : from <= d /\ d <= at[r]}
    BY <1>1, <1>2 DEF InStep, Step, Working
  <1>4. \A d \in Day : d \in from .. at[r] <=> d \in Days(mark[r])
    BY <1>2, <1>3
  <1>5. ASSUME NEW d \in Day, d \in Days(mark[r])
        PROVE  StoredOn(d)' = [there |-> TRUE, rows |-> Shown(got[r], priced[r], d)]
    <2>1. d \in Days(marks')
      BY <1>1, <1>5 DEF Days
    <2>2. RowsOn(daily', d) = Made(r, d)
      BY <1>5, RangeReplaced
    <2>3. Contents(RowsOn(daily', d)) = Shown(got[r], priced[r], d)
      BY <2>2, ShownByRun DEF Made
    <2>. QED  BY <2>1, <2>3 DEF StoredOn
  <1>6. ASSUME NEW d \in Day, d \notin Days(mark[r])
        PROVE  StoredOn(d)' = StoredOn(d)
    <2>1. RowsOn(daily', d) = RowsOn(daily, d)
      BY <1>6, CommittedDay
    <2>2. d \in Days(marks') <=> d \in Days(marks)
      BY <1>1, <1>6 DEF Days
    <2>. QED  BY <2>1, <2>2 DEF StoredOn, Atomic!Absent
  <1>7. \A d : Atomic!PutBy(r, d) = [there |-> TRUE, rows |-> Shown(got[r], priced[r], d)]
    BY DEF Atomic!PutBy
  <1>8. Stored' = [d \in Day |-> StoredOn(d)'] /\ \A d \in Day : Stored[d] = StoredOn(d)
    BY DEF Stored, StoredOn, Atomic!Absent
  <1>9. Stored' = [d \in Day |-> IF d \in from .. at[r] THEN Atomic!PutBy(r, d) ELSE Stored[d]]
    BY <1>4, <1>5, <1>6, <1>7, <1>8
  <1>. QED  BY <1>1, <1>2, <1>3, <1>9 DEF Atomic!Put

\* Every other step reads, posts a price, or changes nothing that shows.
LEMMA OtherStepsAreAtomic ==
    ASSUME Base, [Next]_vars, UNCHANGED <<trades, daily, marks>>
    PROVE  [Atomic!Next]_Atomic!vars
  <1>1. Stored' = Stored
    BY DEF Stored
  <1>2. ASSUME NEW x \in Runner \union Reader,
               (x \in Runner /\ StartRun(x)) \/ (x \in Reader /\ ReadTrades(x)) \/ ReadQuotes(x)
        PROVE  [Atomic!Next]_Atomic!vars
    <2>1. quote' = quote
      BY <1>2 DEF StartRun, ReadTrades, ReadQuotes, tables
    <2>2. CASE StartRun(x) /\ x \in Runner
      <3>1. got' = [got EXCEPT ![x] = trades] /\ priced' = priced
        BY <2>2 DEF StartRun
      <3>2. [r \in Runner |-> got'[r]] = [[r \in Runner |-> got[r]] EXCEPT ![x] = trades]
        BY <2>2, <3>1 DEF Base, Types
      <3>3. Atomic!ReadTrades(x)
        BY <1>1, <2>1, <3>1, <3>2 DEF Atomic!ReadTrades
      <3>. QED  BY <2>2, <3>3 DEF Atomic!Next
    <2>3. CASE ReadQuotes(x) /\ x \in Runner
      <3>1. priced' = [priced EXCEPT ![x] = quote] /\ got' = got
        BY <2>3 DEF ReadQuotes
      <3>2. [r \in Runner |-> priced'[r]] = [[r \in Runner |-> priced[r]] EXCEPT ![x] = quote]
        BY <2>3, <3>1 DEF Base, Types
      <3>3. Atomic!ReadQuotes(x)
        BY <1>1, <2>1, <3>1, <3>2 DEF Atomic!ReadQuotes
      <3>. QED  BY <2>3, <3>3 DEF Atomic!Next
    <2>4. CASE x \notin Runner
      <3>1. \A r \in Runner : got'[r] = got[r] /\ priced'[r] = priced[r]
        BY <1>2, <2>4 DEF ReadTrades, ReadQuotes, Base, Types
      <3>2. /\ [r \in Runner |-> got'[r]] = [r \in Runner |-> got[r]]
            /\ [r \in Runner |-> priced'[r]] = [r \in Runner |-> priced[r]]
        BY <3>1
      <3>. QED  BY <1>1, <2>1, <3>2 DEF Atomic!vars
    <2>5. x \in Runner => x \notin Reader
      BY ProcAssumption
    <2>. QED  BY <1>2, <2>2, <2>3, <2>4, <2>5
  <1>3. CASE UNCHANGED <<got, priced>>
    <2>1. Atomic!Post
      BY <1>1, <1>3 DEF Atomic!Post
    <2>. QED  BY <2>1 DEF Atomic!Next
  <1>4. \/ UNCHANGED <<got, priced>>
        \/ \E x \in Runner \union Reader :
             (x \in Runner /\ StartRun(x)) \/ (x \in Reader /\ ReadTrades(x)) \/ ReadQuotes(x)
    <2>1. ASSUME NEW w \in Writer, WriteTrade(w) \/ WriterStep(w)
          PROVE  UNCHANGED <<got, priced>>
      BY <2>1 DEF WriteTrade, WriterStep, StartCut, CutRow, DeleteRow, StartUnmark, UnmarkDay,
         CommitChange, reads
    <2>2. ASSUME NEW r \in Runner, RunnerStep(r)
          PROVE  UNCHANGED <<got, priced>> \/ ReadQuotes(r)
      BY <2>2 DEF RunnerStep, StartDay, ClearRow, DeleteRow, InsertDay, InsertFails, MarkDay,
         CommitRun, reads
    <2>3. ASSUME NEW q \in Reader, CheckCovered(q) \/ ReaderStep(q)
          PROVE  UNCHANGED <<got, priced>> \/ ReadTrades(q) \/ ReadQuotes(q)
      BY <2>3 DEF CheckCovered, ReaderStep, ReadCached, reads
    <2>4. ASSUME NEW x \in Proc, Fail(x) \/ DeadlockAbort(x)
          PROVE  UNCHANGED <<got, priced>>
      BY <2>4 DEF Fail, DeadlockAbort, reads
    <2>5. CASE UNCHANGED vars \/ \E p \in Position : PostPrice(p)
      BY <2>5 DEF vars, PostPrice, reads
    <2>. QED  BY <2>1, <2>2, <2>3, <2>4, <2>5 DEF Next, Terminated
  <1>. QED  BY <1>2, <1>3, <1>4

\* As long as runs do not overlap the cache is what its documentation takes it for:
\* whatever the statements of upsert_day and invalidate_from meet, each commit of a
\* run puts the days of its range there as computed from one reading of trades and
\* prices and leaves the others, each commit of a call takes whole days away from its
\* trade's on, sparing at most a run's work, and nothing else changes a day.
THEOREM CacheImplementsAtomicCache == ~Overlap => (Spec => ImplementsAtomicCache)
  <1> SUFFICES ASSUME ~Overlap
               PROVE  Spec => ImplementsAtomicCache
    OBVIOUS
  <1>1. Init => Atomic!Init
    <2> SUFFICES ASSUME Init
                 PROVE  Atomic!Init
      OBVIOUS
    <2>1. /\ [r \in Runner |-> got[r]] = [r \in Runner |-> {}]
          /\ [r \in Runner |-> priced[r]] = [r \in Runner |-> NoQuotes]
      BY DEF Init
    <2>. QED  BY <2>1, InitStored DEF Init, Atomic!Init
  <1>2. Base /\ InTurn /\ Cutting /\ [Next]_vars => [Atomic!Next]_Atomic!vars
    <2> SUFFICES ASSUME Base, InTurn, Cutting, [Next]_vars
                 PROVE  [Atomic!Next]_Atomic!vars
      OBVIOUS
    <2>1. ASSUME NEW w \in Writer, CommitChange(w)
          PROVE  Atomic!Next
      BY <2>1, CommitChangeIsAtomic DEF Atomic!Next
    <2>2. ASSUME NEW r \in Runner, CommitRun(r)
          PROVE  Atomic!Next
      BY <2>2, CommitRunIsAtomic DEF Atomic!Next
    <2>. QED  BY <2>1, <2>2, OnlyCommitsChange, OtherStepsAreAtomic
  <1>. QED
    BY <1>1, <1>2, InitCutting, StepCutting, InTurnInductive, PTL
       DEF Spec, ImplementsAtomicCache, Atomic!Spec

-----------------------------------------------------------------------------
(* Waits. *)

Stopped == {"idle"} \union Ended
WriterPhase == {"wrote", "cutDaily", "cutDays"} \union Stopped
RunnerPhase == {"quotes", "open", "clear", "mark", "commit"} \union Stopped
ReaderPhase == {"hit", "open", "quotes"} \union Stopped

Kinds ==
    /\ \A w \in Writer : pc[w] \in WriterPhase
    /\ \A r \in Runner : pc[r] \in RunnerPhase
    /\ \A q \in Reader : pc[q] \in ReaderPhase

\* The guards of the steps of a writer, a run and a reader that have started.
RowFree(x) == \E row \in seen[x] : \A y \in Proc \ {x} : row \notin gone[y]
TagFree(x) ==
    \E tag \in seenMarks[x] : \A y \in Proc \ {x} : tag \notin unmark[y] \union Tags(mark[y])

WriterCan(w) ==
    \/ pc[w] = "wrote"
    \/ pc[w] = "cutDaily" /\ (seen[w] = {} \/ RowFree(w))
    \/ pc[w] = "cutDays" /\ (seenMarks[w] = {} \/ TagFree(w))

RunnerCan(r) ==
    \/ pc[r] \in {"quotes", "open", "commit"}
    \/ pc[r] = "clear" /\ RowFree(r)
    \/ pc[r] = "clear" /\ seen[r] = {} /\ \A row \in NewRows(r) : ~MustWait(r, row)
    \/ pc[r] = "mark" /\ \A y \in Proc \ {r} : at[r] \notin Days(unmark[y] \union mark[y])

ReaderCan(q) == pc[q] \in {"hit", "open", "quotes"}

CanGoOn(x) ==
    \/ x \in Writer /\ WriterCan(x)
    \/ x \in Runner /\ RunnerCan(x)
    \/ x \in Reader /\ ReaderCan(x)

\* As long as something has started and has not ended, something can go on, or there
\* is a cycle of waits for PostgreSQL's detector to break.
SomethingGoesOn ==
    (\E x \in Proc : pc[x] \notin Stopped) => \E x \in Proc : CanGoOn(x) \/ Deadlocked(x)

LEMMA StepKinds == Base /\ Kinds /\ [Next]_vars => Kinds'
  <1> SUFFICES ASSUME Base, Kinds, [Next]_vars PROVE Kinds'
    OBVIOUS
  <1> DEFINE OK(x) == /\ x \in Writer => pc[x] \in WriterPhase
                      /\ x \in Runner => pc[x] \in RunnerPhase
                      /\ x \in Reader => pc[x] \in ReaderPhase
  <1> SUFFICES ASSUME NEW x \in Proc PROVE OK(x)'
    BY DEF Kinds, Proc
  <1>1. OK(x) /\ pc \in [Proc -> Phase]
    BY DEF Kinds, Base, Types
  <1> USE DEF WriterPhase, RunnerPhase, ReaderPhase, Stopped, Ended, Goto
  <1>2. CASE x \in Writer /\ (WriteTrade(x) \/ WriterStep(x))
    <2>1. pc'[x] \in WriterPhase
      BY <1>1, <1>2 DEF WriteTrade, WriterStep, StartCut, CutRow, DeleteRow, StartUnmark,
                        UnmarkDay, CommitChange
    <2>. QED  BY <1>2, <2>1, ProcAssumption
  <1>3. CASE x \in Runner /\ (StartRun(x) \/ RunnerStep(x))
    <2>1. pc'[x] \in RunnerPhase
      BY <1>1, <1>3 DEF StartRun, RunnerStep, ReadQuotes, StartDay, ClearRow, DeleteRow,
                        InsertDay, InsertFails, MarkDay, CommitRun
    <2>. QED  BY <1>3, <2>1, ProcAssumption
  <1>4. CASE x \in Reader /\ (CheckCovered(x) \/ ReaderStep(x))
    <2>1. x \notin Runner
      BY <1>4, ProcAssumption
    <2>2. pc'[x] \in ReaderPhase
      BY <1>1, <1>4, <2>1 DEF CheckCovered, ReaderStep, ReadCached, ReadTrades, ReadQuotes
    <2>. QED  BY <1>4, <2>2, ProcAssumption
  <1>5. CASE Dropped(x)
    BY <1>1, <1>5 DEF Dropped
  <1>6. CASE Untouched(x)
    BY <1>1, <1>6 DEF Untouched, Own
  <1>. QED  BY <1>2, <1>3, <1>4, <1>5, <1>6, StepOfProcess

\* Who cannot go on waits for another that has started.
LEMMA StuckWaits ==
    ASSUME Base, Kinds, NEW x \in Proc, pc[x] \notin Stopped, ~CanGoOn(x)
    PROVE  /\ x \in Writer \union Runner
           /\ \E y \in Proc \ {x} : /\ WaitsFor(x, y)
                                    /\ y \in Writer \union Runner /\ pc[y] \notin Stopped
  <1>1. ASSUME NEW y \in Proc, gone[y] \union put[y] \union unmark[y] \union mark[y] # {}
        PROVE  y \in Writer \union Runner /\ pc[y] \notin Stopped
    BY <1>1 DEF Base, Quiet, Stopped, Proc
  <1>2. x \in Writer \union Runner
    BY DEF Kinds, ReaderPhase, CanGoOn, ReaderCan, Proc
  <1>3. ASSUME NEW y \in Proc \ {x}, WaitsFor(x, y)
        PROVE  gone[y] \union put[y] \union unmark[y] \union mark[y] # {}
    BY <1>3 DEF WaitsFor, Tags, Days
  <1>4. ASSUME seen[x] # {}, ~RowFree(x) PROVE \E y \in Proc \ {x} : WaitsFor(x, y)
    BY <1>4 DEF RowFree, WaitsFor
  <1>5. \E y \in Proc \ {x} : WaitsFor(x, y)
    <2>1. CASE x \in Writer
      <3>1. pc[x] = "cutDaily" \/ pc[x] = "cutDays"
        BY <2>1 DEF Kinds, WriterPhase, CanGoOn, WriterCan
      <3>2. CASE pc[x] = "cutDaily"
        BY <1>4, <2>1, <3>2 DEF CanGoOn, WriterCan
      <3>3. CASE pc[x] = "cutDays"
        <4>1. seenMarks[x] # {} /\ ~TagFree(x)
          BY <2>1, <3>3 DEF CanGoOn, WriterCan
        <4>. QED  BY <4>1 DEF TagFree, WaitsFor
      <3>. QED  BY <3>1, <3>2, <3>3
    <2>2. CASE x \in Runner
      <3>1. pc[x] = "clear" \/ pc[x] = "mark"
        BY <2>2 DEF Kinds, RunnerPhase, CanGoOn, RunnerCan
      <3>2. CASE pc[x] = "clear" /\ seen[x] # {}
        BY <1>4, <2>2, <3>2 DEF CanGoOn, RunnerCan
      <3>3. CASE pc[x] = "clear" /\ seen[x] = {}
        <4>1. PICK row \in NewRows(x) : MustWait(x, row)
          BY <2>2, <3>3 DEF CanGoOn, RunnerCan
        <4>2. PICK y \in Proc \ {x} : \E other \in put[y] \union gone[y] : SameKey(row, other)
          BY <4>1 DEF MustWait
        <4>. QED  BY <3>3, <4>1, <4>2 DEF WaitsFor
      <3>4. CASE pc[x] = "mark"
        <4>1. PICK y \in Proc \ {x} : at[x] \in Days(unmark[y] \union mark[y])
          BY <2>2, <3>4 DEF CanGoOn, RunnerCan
        <4>. QED  BY <3>4, <4>1 DEF WaitsFor
      <3>. QED  BY <3>1, <3>2, <3>3, <3>4
    <2>. QED  BY <1>2, <2>1, <2>2
  <1>. QED  BY <1>1, <1>2, <1>3, <1>5

\* For any number of calls and runs over one cache: the rows and markers that
\* transactions take from one another never hold all of them up, unless in a cycle,
\* which PostgreSQL breaks.
THEOREM NobodyHeldUp == Spec => []SomethingGoesOn
  <1>1. Init => Kinds
    BY DEF Init, Kinds, WriterPhase, RunnerPhase, ReaderPhase, Stopped, Proc
  <1>2. ASSUME Base, Kinds PROVE SomethingGoesOn
    <2> DEFINE D == {x \in Writer \union Runner : pc[x] \notin Stopped}
    <2> SUFFICES ASSUME NEW x \in Proc, pc[x] \notin Stopped, \A y \in Proc : ~CanGoOn(y)
                 PROVE  \E y \in Proc : Deadlocked(y)
      BY DEF SomethingGoesOn
    <2>1. \A y \in D : \E z \in D \ {y} : WaitsFor(y, z)
      BY <1>2, StuckWaits DEF Proc
    <2>2. x \in D
      BY <1>2, StuckWaits
    <2>3. D \in SUBSET (Writer \union Runner)
      OBVIOUS
    <2> HIDE DEF D
    <2>. QED  BY <2>1, <2>2, <2>3 DEF Deadlocked
  <1>3. Base /\ Kinds => SomethingGoesOn
    BY <1>2
  <1>. QED  BY <1>1, <1>3, StepKinds, InitBase, StepBase, PTL DEF Spec
=============================================================================

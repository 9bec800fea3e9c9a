------------------------------- MODULE Ledger -------------------------------
(***************************************************************************)
(* The write path of the transactions table: POST /transactions,           *)
(* DELETE /transactions/{id} and POST /import/transactions, as requests    *)
(* that interleave statement by statement under PostgreSQL's READ          *)
(* COMMITTED isolation.  A request reads on pooled connections, then opens *)
(* a database transaction, takes one advisory lock per position it will    *)
(* touch, writes, folds every touched position again, deletes the cached   *)
(* daily snapshots its trades make wrong, and commits.  Batch runs over    *)
(* the same user, which renew cached days, are here for the rows that they *)
(* lock; what the cache then holds is the subject of SnapshotCache.        *)
(***************************************************************************)
EXTENDS Trades, Sequences

CONSTANTS Request,        \* concurrent calls; each serves one call and ends
          Runner,         \* batch runs over this user
          Position,       \* (account, asset) pairs that exist
          Calls,          \* what clients send: [op, rows]
          Today,          \* the JST date
          PoolSize,       \* max_connections of the pool
          InitialLedger,  \* rows committed before the first call
          SnapshotDays    \* days whose snapshots are cached at the start

Op == {"create", "delete", "import"}

ASSUME CallsAssumption ==
    /\ Calls \subseteq [op: Op, rows: Seq(Row)]
    /\ \A c \in Calls : /\ c.op = "create" => Len(c.rows) = 1
                        /\ c.op = "delete" => Len(c.rows) = 0
ASSUME PositionAssumption == Position \subseteq Nat
ASSUME InitialAssumption ==
    /\ InitialLedger \subseteq Trade
    /\ \A t \in InitialLedger : t.at = 0
    /\ \A p \in Position : Fits(OnPosition(InitialLedger, p))
    /\ \A t, u \in InitialLedger : t.ext # NoExt /\ t.ext = u.ext => t = u
ASSUME SnapshotDaysAssumption ==
    SnapshotDays \subseteq Nat /\ IsFiniteSet(SnapshotDays)
ASSUME RunnerAssumption == Request \intersect Runner = {}
ASSUME PoolAssumption == PoolSize \in Nat \ {0}

VARIABLES
    ledger,    \* committed rows of transactions
    covered,   \* committed rows of snapshot_days
    clock,     \* now() of the next database transaction to begin
    pc,        \* where each request and each run is
    call,      \* the call it serves
    target,    \* the row a delete found, as a set of at most one
    cursor,    \* the CSV row being validated
    fresh,     \* the rows to be inserted, by row number
    at,        \* now() of the request's database transaction
    want,      \* positions still to be locked
    held,      \* positions locked
    ins,       \* rows inserted, not committed
    del,       \* rows deleted, not committed
    seen,      \* cached rows still to be taken: by the DELETE that is running,
               \* by a run until its end
    taken      \* cached rows deleted or updated, not committed

vars == <<ledger, covered, clock, pc, call, target, cursor, fresh, at, want,
          held, ins, del, seen, taken>>
plan == <<call, target, cursor, fresh>>
locks == <<want, held>>
cache == <<seen, taken>>
work == <<at, locks, ins, del, cache>>

Proc == Request \union Runner

\* A cached day has a marker in snapshot_days, and rows of daily_snapshots, which
\* stand here as one: a DELETE that waits for one of them is not past the day.
CacheRow == [table: {"daily_snapshots", "snapshot_days"}, day: SnapshotDays]

Cutting == {"cutDaily", "cutDays"}   \* inside invalidate_from
Taking == Cutting \union {"renew"}   \* at the cached rows
InTx == {"lock", "write", "check", "invalidate", "commit"} \union Taking
Ended == {"ok", "oversell", "notFound", "invalid", "conflict", "failed"}
Phase == {"idle", "resolve", "begin"} \union InTx \union Ended

NoCall == [op |-> "create", rows |-> << >>]

TypeOK ==
    /\ ledger \subseteq Trade
    /\ covered \subseteq SnapshotDays
    /\ clock \in Nat
    /\ pc \in [Proc -> Phase]
    /\ call \in [Request -> Calls \union {NoCall}]
    /\ target \in [Request -> SUBSET Trade]
    /\ cursor \in [Request -> Nat]
    /\ fresh \in [Request -> SUBSET Nat]
    /\ at \in [Request -> Nat]
    /\ want \in [Request -> SUBSET Nat]
    /\ held \in [Request -> SUBSET Nat]
    /\ ins \in [Request -> SUBSET Trade]
    /\ del \in [Request -> SUBSET Trade]
    /\ seen \in [Proc -> SUBSET CacheRow]
    /\ taken \in [Proc -> SUBSET CacheRow]

Init ==
    /\ ledger = InitialLedger
    /\ covered = SnapshotDays
    /\ clock = 1
    /\ pc = [x \in Proc |-> "idle"]
    /\ call = [r \in Request |-> NoCall]
    /\ target = [r \in Request |-> {}]
    /\ cursor = [r \in Request |-> 1]
    /\ fresh = [r \in Request |-> {}]
    /\ at = [r \in Request |-> 0]
    /\ want = [r \in Request |-> {}]
    /\ held = [r \in Request |-> {}]
    /\ ins = [r \in Request |-> {}]
    /\ del = [r \in Request |-> {}]
    /\ seen = [x \in Proc |-> {}]
    /\ taken = [x \in Proc |-> {}]

-----------------------------------------------------------------------------
Rows(r) == call[r].rows

\* What a statement of r's database transaction sees.
View(r) == (ledger \ del[r]) \union ins[r]

\* A connection can be taken from the pool: open transactions keep theirs.
ConnectionFree == Cardinality({x \in Proc : pc[x] \in InTx}) < PoolSize

Goto(x, phase) == pc' = [pc EXCEPT ![x] = phase]

\* The database transaction is gone: its locks and uncommitted writes go too.
Leave(r, why) ==
    /\ Goto(r, why)
    /\ want' = [want EXCEPT ![r] = {}]
    /\ held' = [held EXCEPT ![r] = {}]
    /\ ins' = [ins EXCEPT ![r] = {}]
    /\ del' = [del EXCEPT ![r] = {}]
    /\ taken' = [taken EXCEPT ![r] = {}]
    /\ UNCHANGED at

Rollback(r, why) == Leave(r, why) /\ seen' = [seen EXCEPT ![r] = {}]

Submit(r) ==
    /\ pc[r] = "idle"
    /\ \E c \in Calls : call' = [call EXCEPT ![r] = c]
    /\ Goto(r, "resolve")
    /\ UNCHANGED <<ledger, covered, clock, target, cursor, fresh, work>>

-----------------------------------------------------------------------------
(* Before the database transaction: validation and reads on the pool.      *)

\* POST /transactions: the body is validated, then account and asset looked up.
ResolveCreate(r) ==
    LET row == Rows(r)[1]
        invalid == row.qty = 0 \/ row.day > Today
    IN  /\ pc[r] = "resolve" /\ call[r].op = "create"
        /\ invalid \/ ConnectionFree
        /\ Goto(r, IF invalid THEN "invalid"
                   ELSE IF row.pos \notin Position THEN "notFound" ELSE "begin")
        /\ fresh' = [fresh EXCEPT ![r] = {1}]
        /\ UNCHANGED <<ledger, covered, clock, call, target, cursor, work>>

\* DELETE /transactions/{id}: the row is read to learn its position and day.
ResolveDelete(r) ==
    /\ pc[r] = "resolve" /\ call[r].op = "delete"
    /\ ConnectionFree
    /\ \/ \E t \in ledger : target' = [target EXCEPT ![r] = {t}]
          /\ Goto(r, "begin")
       \/ UNCHANGED target /\ Goto(r, "notFound")
    /\ UNCHANGED <<ledger, covered, clock, call, cursor, fresh, work>>

\* Repeated external id, or content repeated by a row without one.
RepeatsEarlierRow(rows, i) ==
    \E j \in 1 .. i - 1 :
        IF rows[i].ext = NoExt THEN SameContent(rows[i], rows[j])
                               ELSE rows[i].ext = rows[j].ext

RowError(rows, i) ==
    \/ rows[i].pos \notin Position
    \/ rows[i].qty = 0
    \/ RepeatsEarlierRow(rows, i)

IsDuplicate(row, S) ==
    \E t \in S : IF row.ext = NoExt THEN SameContent(row, t) ELSE row.ext = t.ext

\* Import: one CSV row is looked up among the rows committed at that moment.
ValidateRow(r) ==
    LET i == cursor[r]
    IN  /\ pc[r] = "resolve" /\ call[r].op = "import"
        /\ i \in DOMAIN Rows(r)
        /\ ConnectionFree
        /\ fresh' = [fresh EXCEPT ![r] =
                        IF RowError(Rows(r), i) \/ IsDuplicate(Rows(r)[i], ledger)
                        THEN @ ELSE @ \union {i}]
        /\ cursor' = [cursor EXCEPT ![r] = i + 1]
        /\ UNCHANGED <<ledger, covered, clock, pc, call, target, work>>

\* Import: every row has been looked at; one bad row refuses the whole CSV.
ResolveImport(r) ==
    /\ pc[r] = "resolve" /\ call[r].op = "import"
    /\ cursor[r] \notin DOMAIN Rows(r)
    /\ Goto(r, IF \E i \in DOMAIN Rows(r) : RowError(Rows(r), i)
               THEN "invalid" ELSE "begin")
    /\ UNCHANGED <<ledger, covered, clock, plan, work>>

-----------------------------------------------------------------------------
(* Inside the database transaction.                                        *)

\* Mutant: a delete does not lock the position of its row.
BeginDeleteUnlocked(r) ==
    /\ pc[r] = "begin"
    /\ ConnectionFree
    /\ at' = [at EXCEPT ![r] = clock]
    /\ clock' = clock + 1
    /\ want' = [want EXCEPT ![r] = {Rows(r)[i].pos : i \in fresh[r]}]
    /\ Goto(r, "lock")
    /\ UNCHANGED <<ledger, covered, plan, held, ins, del, cache>>

Begin(r) ==
    /\ pc[r] = "begin"
    /\ ConnectionFree
    /\ at' = [at EXCEPT ![r] = clock]
    /\ clock' = clock + 1
    /\ want' = [want EXCEPT ![r] = {Rows(r)[i].pos : i \in fresh[r]}
                                   \union {t.pos : t \in target[r]}]
    /\ Goto(r, "lock")
    /\ UNCHANGED <<ledger, covered, plan, held, ins, del, cache>>

\* Mutant: the lock is granted while another request holds it.
LockShared(r) ==
    /\ pc[r] = "lock"
    /\ \E p \in want[r] :
        /\ \A q \in want[r] : p <= q
        /\ held' = [held EXCEPT ![r] = @ \union {p}]
        /\ want' = [want EXCEPT ![r] = @ \ {p}]
    /\ UNCHANGED <<ledger, covered, clock, pc, plan, at, ins, del, cache>>

\* Mutant: the touched positions are not sorted.
LockUnsorted(r) ==
    /\ pc[r] = "lock"
    /\ \E p \in want[r] :
        /\ \A s \in Request : p \notin held[s]
        /\ held' = [held EXCEPT ![r] = @ \union {p}]
        /\ want' = [want EXCEPT ![r] = @ \ {p}]
    /\ UNCHANGED <<ledger, covered, clock, pc, plan, at, ins, del, cache>>

\* pg_advisory_xact_lock, position by position in ascending order.
Lock(r) ==
    /\ pc[r] = "lock"
    /\ \E p \in want[r] :
        /\ \A q \in want[r] : p <= q
        /\ \A s \in Request : p \notin held[s]
        /\ held' = [held EXCEPT ![r] = @ \union {p}]
        /\ want' = [want EXCEPT ![r] = @ \ {p}]
    /\ UNCHANGED <<ledger, covered, clock, pc, plan, at, ins, del, cache>>

AllLocked(r) ==
    /\ pc[r] = "lock" /\ want[r] = {}
    /\ Goto(r, "write")
    /\ UNCHANGED <<ledger, covered, clock, plan, work>>

\* Rows are inserted in CSV order.  The unique index makes a row wait for the
\* uncommitted rows of others that carry its external id.
ToInsert(r) == fresh[r] \ {t.line : t \in ins[r]}
NextRow(r, i) == i \in ToInsert(r) /\ \A j \in ToInsert(r) : i <= j
\* Mutant: only committed rows are looked at.
BlocksNever(s, row) == FALSE
Blocks(s, row) ==
    row.ext # NoExt /\ \E t \in ins[s] \union del[s] : t.ext = row.ext

Insert(r) ==
    /\ pc[r] = "write"
    /\ \E i \in fresh[r] :
        LET row == Rows(r)[i]
        IN  /\ NextRow(r, i)
            /\ \A s \in Request \ {r} : ~Blocks(s, row)
            /\ ~\E t \in View(r) : row.ext # NoExt /\ t.ext = row.ext
            /\ \E tie \in (1 .. Len(Rows(r))) \ {t.tie : t \in ins[r]} :
                 ins' = [ins EXCEPT ![r] = @ \union {Stamp(row, at[r], tie, i)}]
    /\ UNCHANGED <<ledger, covered, clock, pc, plan, at, locks, del, cache>>

\* The unique index refuses the row: 409, and the whole request is undone.
InsertConflict(r) ==
    /\ pc[r] = "write"
    /\ \E i \in fresh[r] :
        LET row == Rows(r)[i]
        IN  /\ NextRow(r, i)
            /\ \A s \in Request \ {r} : ~Blocks(s, row)
            /\ \E t \in View(r) : row.ext # NoExt /\ t.ext = row.ext
    /\ Rollback(r, "conflict")
    /\ UNCHANGED <<ledger, covered, clock, plan>>

Delete(r) ==
    /\ pc[r] = "write" /\ target[r] # {}
    /\ target[r] \subseteq ledger
    /\ del' = [del EXCEPT ![r] = target[r]]
    /\ Goto(r, "check")
    /\ UNCHANGED <<ledger, covered, clock, plan, at, locks, ins, cache>>

\* Mutant: a status of its own that no caller knows.
DeleteMissGone(r) ==
    /\ pc[r] = "write" /\ target[r] # {}
    /\ ~(target[r] \subseteq ledger)
    /\ Rollback(r, "gone")
    /\ UNCHANGED <<ledger, covered, clock, plan>>

\* Another request deleted the row while this one waited for the lock.
DeleteMiss(r) ==
    /\ pc[r] = "write" /\ target[r] # {}
    /\ ~(target[r] \subseteq ledger)
    /\ Rollback(r, "notFound")
    /\ UNCHANGED <<ledger, covered, clock, plan>>

AllInserted(r) ==
    /\ pc[r] = "write" /\ target[r] = {} /\ ToInsert(r) = {}
    /\ Goto(r, "check")
    /\ UNCHANGED <<ledger, covered, clock, plan, work>>

\* Mutant: the loop over the touched positions stops at the first that fits.
SomePositionFits(r) == \E p \in held[r] : Fits(OnPosition(View(r), p))

PositionsFit(r) == \A p \in held[r] : Fits(OnPosition(View(r), p))

Check(r) ==
    /\ pc[r] = "check" /\ PositionsFit(r)
    /\ Goto(r, "invalidate")
    /\ UNCHANGED <<ledger, covered, clock, plan, work>>

Oversell(r) ==
    /\ pc[r] = "check" /\ ~PositionsFit(r)
    /\ Rollback(r, "oversell")
    /\ UNCHANGED <<ledger, covered, clock, plan>>

\* The days on which the call's trades took place: for an import those of
\* every CSV row, the skipped ones included.
TradeDays(r) == {Rows(r)[i].day : i \in DOMAIN Rows(r)} \union {t.day : t \in target[r]}

\* Mutant: the trade's own day stays cached.
CachedAfter(table, r) ==
    {row \in [table: {table}, day: covered] : \E from \in TradeDays(r) : from < row.day}

\* What invalidate_from sees of a table when its DELETE starts: the days from the
\* earliest of the trades on.
CachedFrom(table, r) ==
    {row \in [table: {table}, day: covered] : \E from \in TradeDays(r) : from <= row.day}

\* invalidate_from, first statement.
StartCut(r) ==
    /\ pc[r] = "invalidate"
    /\ seen' = [seen EXCEPT ![r] = CachedFrom("daily_snapshots", r)]
    /\ Goto(r, "cutDaily")
    /\ UNCHANGED <<ledger, covered, clock, plan, at, locks, ins, del, taken>>

\* A run goes day by day, the day's rows before its marker; a DELETE takes the
\* rows in whatever order it finds them.
Reached(x) ==
    {row \in seen[x] : x \in Runner => \A other \in seen[x] \ {row} :
        \/ row.day < other.day
        \/ row.day = other.day /\ row.table = "daily_snapshots"}

\* A row that another database transaction has taken is waited for.
TakeRow(x) ==
    /\ pc[x] \in Taking
    /\ \E row \in Reached(x) :
        /\ \A y \in Proc \ {x} : row \notin taken[y]
        /\ seen' = [seen EXCEPT ![x] = @ \ {row}]
        /\ taken' = [taken EXCEPT ![x] = @ \union {row}]
    /\ UNCHANGED <<ledger, covered, clock, pc, plan, at, locks, ins, del>>

\* invalidate_from, second statement.
StartUnmark(r) ==
    /\ pc[r] = "cutDaily" /\ seen[r] = {}
    /\ seen' = [seen EXCEPT ![r] = CachedFrom("snapshot_days", r)]
    /\ Goto(r, "cutDays")
    /\ UNCHANGED <<ledger, covered, clock, plan, at, locks, ins, del, taken>>

Invalidated(r) ==
    /\ pc[r] = "cutDays" /\ seen[r] = {}
    /\ Goto(r, "commit")
    /\ UNCHANGED <<ledger, covered, clock, plan, work>>

\* Once x has committed, those that wait for a row it has deleted find it gone.
Forget(x, P, rows) ==
    seen' = [y \in Proc |-> IF y = x THEN {}
                            ELSE IF y \in P THEN seen[y] \ rows ELSE seen[y]]

\* The answer may be lost on its way: the client then sees a failure.
Commit(r) ==
    /\ pc[r] = "commit"
    /\ ledger' = View(r)
    /\ covered' = {d \in covered : [table |-> "snapshot_days", day |-> d] \notin taken[r]}
    /\ Forget(r, Proc, taken[r])
    /\ \E answer \in {"ok", "failed"} : Leave(r, answer)
    /\ UNCHANGED <<clock, plan>>

-----------------------------------------------------------------------------
(* POST /snapshots/run for this user: the rows it finds, whatever its days.*)

StartRun(n) ==
    /\ pc[n] = "idle"
    /\ ConnectionFree
    /\ \E from, to \in SnapshotDays :
        seen' = [seen EXCEPT ![n] =
                    {row \in CacheRow : row.day \in covered /\ from <= row.day /\ row.day <= to}]
    /\ Goto(n, "renew")
    /\ UNCHANGED <<ledger, covered, clock, plan, at, locks, ins, del, taken>>

\* A DELETE that waits for the old rows of a day does not take the new ones.
CommitRun(n) ==
    /\ pc[n] = "renew" /\ seen[n] = {}
    /\ Forget(n, Request, {row \in taken[n] : row.table = "daily_snapshots"})
    /\ Goto(n, "ok")
    /\ taken' = [taken EXCEPT ![n] = {}]
    /\ UNCHANGED <<ledger, covered, clock, plan, at, locks, ins, del>>

FailRun(n) ==
    /\ pc[n] = "renew"
    /\ Goto(n, "failed")
    /\ seen' = [seen EXCEPT ![n] = {}]
    /\ taken' = [taken EXCEPT ![n] = {}]
    /\ UNCHANGED <<ledger, covered, clock, plan, at, locks, ins, del>>

-----------------------------------------------------------------------------
(* Failures.                                                               *)

\* A database error, a pool timeout, a client that goes away or a crash of
\* the server: the handler is dropped, and its database transaction with it.
Fail(r) ==
    /\ pc[r] \in {"resolve", "begin"} \union InTx
    /\ Rollback(r, "failed")
    /\ UNCHANGED <<ledger, covered, clock, plan>>

WaitsFor(x, y) ==
    \/ /\ x \in Request /\ y \in Request /\ pc[x] = "lock"
       /\ \E p \in want[x] \intersect held[y] : \A q \in want[x] : p <= q
    \/ /\ x \in Request /\ y \in Request /\ pc[x] = "write" /\ x # y
       /\ \E i \in fresh[x] : NextRow(x, i) /\ Blocks(y, Rows(x)[i])
    \/ /\ pc[x] \in Taking /\ x # y
       /\ Reached(x) \intersect taken[y] # {}

\* Mutant: nothing detects a cycle of waits.
DeadlockUndetected(x) == FALSE

\* Who waits leads back to itself: it is in every set that has those it waits
\* for, and with everyone those whom this one waits for.
Deadlocked(x) ==
    \A S \in SUBSET Proc :
        (\A y \in S \union {x} : \A z \in Proc : WaitsFor(y, z) => z \in S) => x \in S

\* PostgreSQL's deadlock detector aborts one of them.
DeadlockAbort(r) ==
    /\ Deadlocked(r)
    /\ Rollback(r, "failed")
    /\ UNCHANGED <<ledger, covered, clock, plan>>

RunAbort(n) == Deadlocked(n) /\ FailRun(n)

Terminated ==
    /\ \A x \in Proc : pc[x] \in Ended
    /\ UNCHANGED vars

-----------------------------------------------------------------------------
Resolve(r) == ResolveCreate(r) \/ ResolveDelete(r) \/ ValidateRow(r) \/ ResolveImport(r)
Write(r) == Insert(r) \/ InsertConflict(r) \/ Delete(r) \/ DeleteMiss(r) \/ AllInserted(r)
Invalidate(r) == StartCut(r) \/ TakeRow(r) \/ StartUnmark(r) \/ Invalidated(r)
Serve(r) ==
    \/ Resolve(r) \/ Begin(r)
    \/ Lock(r) \/ AllLocked(r)
    \/ Write(r)
    \/ Check(r) \/ Oversell(r)
    \/ Invalidate(r) \/ Commit(r)
    \/ DeadlockAbort(r)
Renew(n) == TakeRow(n) \/ CommitRun(n) \/ RunAbort(n)

Next ==
    \/ \E r \in Request : Submit(r) \/ Serve(r) \/ Fail(r)
    \/ \E n \in Runner : StartRun(n) \/ Renew(n) \/ FailRun(n)
    \/ Terminated

Spec == Init /\ [][Next]_vars

\* The runtime drives every accepted call; PostgreSQL queues lock waiters and
\* its detector breaks every cycle.  Clients and failures owe nothing.
FairSpec ==
    /\ Spec
    /\ \A r \in Request : WF_vars(Serve(r))
    /\ \A n \in Runner : WF_vars(Renew(n))

-----------------------------------------------------------------------------
(* Properties.                                                             *)

\* At every moment, no position's committed history sells more than it holds,
\* whatever creates, deletes and imports ran at the same time: the fold under
\* the position's lock decides what is committed.
NoOversell == \A p \in Position : Fits(OnPosition(ledger, p))

\* What a request folded is still what the position holds when it commits: from
\* the moment it has the lock, nobody else's commit touches the position.
PositionStable ==
    [][\A r \in Request : \A p \in held[r] :
          OnPosition(ledger', p) # OnPosition(ledger, p)
            => pc[r] = "commit" /\ pc'[r] \in Ended]_vars

\* Advisory locks are taken in ascending order, so no two requests can wait for
\* each other's: a request only holds positions below every one it still wants.
LockOrder == \A r \in Request : \A p \in held[r], q \in want[r] : p < q

\* Waits for advisory locks never close a cycle: whom PostgreSQL's detector may
\* abort is an import between two of its rows, the next one with an external id
\* that another call has inserted or deleted, or a run or a call of any kind that
\* holds cached rows and waits for more.  Nobody is aborted who waits for a lock,
\* or before it has written something that another one waits for.
LockWaitersAreSafe ==
    \A x \in Proc : Deadlocked(x) =>
        \/ /\ x \in Request
           /\ call[x].op = "import" /\ pc[x] = "write" /\ ins[x] # {}
           /\ \E i \in fresh[x] : NextRow(x, i) /\ Rows(x)[i].ext # NoExt
        \/ pc[x] \in Taking /\ taken[x] # {}

\* A commit that changes the trades of a day leaves no cached snapshot of that
\* day or of a later one behind.
CommitInvalidates ==
    [][\A t \in (ledger' \ ledger) \union (ledger \ ledger') :
          \A d \in covered' : d < t.day]_vars

\* The unique index on external ids holds across requests that insert the same
\* id at the same time.
ExternalIdUnique ==
    \A t, u \in ledger : t.ext # NoExt /\ t.ext = u.ext => t = u

\* Every call that was accepted is answered, and every run ends: nobody waits
\* forever for a lock, a connection, another call's insert or a cached row.
EveryCallEnds == \A x \in Proc : pc[x] # "idle" ~> pc[x] \in Ended

\* The writes of all requests look like one change at a time.
Atomic == INSTANCE AtomicLedger WITH Foldable <- Fits
ImplementsAtomicLedger == Atomic!Spec

-----------------------------------------------------------------------------
(* What the documents say of the program.                                  *)

\* "Trades of one day are settled in the order of their registration."
RegistrationOrder ==
    \A t, u \in ledger :
        t.pos = u.pos /\ t.day = u.day /\ t.at = u.at /\ t.line < u.line
          => Before(t, u)
=============================================================================

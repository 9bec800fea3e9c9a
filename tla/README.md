# Verification of the asset-management service

The repository is a service with which people keep their securities accounts:
a Rust API (`asset-log/`, axum + sqlx on PostgreSQL), a React single-page
application (`web/`), and a scheduled GitHub Actions job that lets the API
precompute daily valuations. This directory holds TLA+ models of the parts
where several requests, statements, days or answers interact and of the
calculations whose results have to agree, the TLC configurations that check
them, and TLAPS proofs about them.

Contents: [the system](#1-the-system), [modules](#2-modules),
[runs](#3-what-each-run-checks), [fairness](#4-fairness),
[proofs](#5-proofs), [where the code and its documents differ](#6-where-the-code-and-its-documents-differ),
[what is not modelled](#7-what-is-not-modelled), [plan](#8-plan).

## 1. The system

All state of the API is in PostgreSQL. Every statement runs under READ
COMMITTED, on a pool of at most five connections (`main.rs:93`). A handler that
returns an error or is dropped takes its database transaction with it.

| Component | State | Operations | Hard behaviour | Correct when |
|---|---|---|---|---|
| Transaction write path (`handler/transactions.rs`, `repository/transaction_repo.rs`) | `transactions` | create, delete (list and show only read) | requests interleave between statements; locks; unique index; stale lookups | no history oversells; what was folded under the lock is what is committed; snapshots are cut |
| CSV import (`service/import_service.rs`) | `transactions` | dry run, import | duplicates looked up before the transaction; several locks at once; retries after a lost answer | all or nothing; no deadlock on advisory locks; no row twice |
| Position domain (`domain/position.rs`) | none: a fold | `apply_trade`, `build_holding`, `evaluate` | rounding, sell-off and re-purchase | money conserved; refuses exactly the oversold histories |
| Daily snapshots (`service/snapshot_service.rs`, `repository/snapshot_repo.rs`) | `daily_snapshots`, `snapshot_days` | run, `upsert_day`, `invalidate_from`, `covered_days`, `find_in_range` | a run reads before its transaction begins, and covers a range of days, seven by default; runs overlap; row waits and deadlocks, with calls as victims; readers use two statements | a marked day is complete and equals a recomputation |
| Asset history (`service/analytics_service.rs`, `repository/analytics_repo.rs`) | none: reads the above | cache or recompute; fold to timelines; evaluate days; group into series | several trades a day; trades without a rate; closed positions; groups that are rounded one by one | any past day shows what folding up to that day gives; the chart adds up |
| Allocation (`service/allocation_service.rs`) | none | `assign_ratios` | rounding | ratios sum to 100.00 and stay sorted |
| Exchange rates (`provider/fx.rs`, `provider/cached_fx.rs`, `service/fx_history.rs`, `repository/fx_repo.rs`) | `fx_rates` | rate of a day, rates of a period | failing upstream, retries, stale fallback, midnight, publication in the course of a day, scattered cache | today's rate is never an older cached one; no answer beyond the policy; no flat stretches |
| Holdings (`service/holdings_service.rs`, `features/holdings/SummarySection.tsx`) | none | list with totals | grouping by neighbours after a sort by names; items without a price | each account once; totals equal the sums over the accounts |
| Accounts, assets, prices (`handler/accounts.rs`, `assets.rs`, `prices.rs`) | `accounts`, `assets`, `asset_prices` | CRUD, upsert of prices | foreign keys against concurrent inserts; late prices | no orphan; deletion refused while in use |
| Authentication (`handler/auth.rs`, `auth/`, `middleware/auth.rs`) | `users` | register, login, token and batch-token checks | a token's validity by another clock than the tab's | a token the tab takes for valid is accepted |
| Web session (`web/src/stores/auth.ts`, `api/client.ts`, `routes/`) | token in memory and in local storage | login, logout, reload, 401 handling | late answers of an earlier session; expiry on the way; two tabs | nobody is logged out on a prompt network; whoever is refused sees the login |
| Web query cache and mutations (`web/src/lib/queryClient.ts`, `lib/queryKeys.ts`, `features/*/queries.ts`) | the answers a tab keeps | open a page, change something, invalidate, retry | slow requests meet invalidations; pages share queries | what is shown has every change the tab was told of |
| Web import page (`web/src/features/import/`, `api/import.ts`) | CSV, encoding, report, files being read | choose, type, dry run, import | answers and files that arrive after the CSV has changed; lost answers | a report is about the CSV shown; "imported" means imported |
| Web dialogs (`features/accounts`, `assets`, `transactions`: the eight `*Dialog.tsx`, and their pages) | the form, its error, the request | open, type, submit, close | mutations that outlive their form; rows that another tab changes; lists that fail | a patch has what was typed; an error belongs to its form; one form, one row |
| Web filters and charts (`HoldingsPage.tsx`, `TransactionsPage.tsx`, `AssetsPage.tsx`, `analytics/*Chart.tsx`, `analytics/format.ts`) | the controls and what was shown last | choose, search, retry | answers in any order; delayed search; empty and failed answers; ends of months | what is shown belongs to the controls; no dead end |
| Batch trigger (`.github/workflows/snapshot.yml`) | none | `curl` with a 120 s limit and three retries | a retry overlaps the first run | runs are idempotent |

Interactions: create, delete and import fold with the position domain and cut
the snapshots from the earliest day they touch in their own transaction
(`invalidate_from`). The batch run and asset-history share one preparation
(`prepare`: trades, prices, exchange rates of the period) and one evaluation of
a day. Allocation is asset-history on one day. The exchange rates of a period
and of a day fill the same table. Prices, assets and exchange rates change
without cutting any snapshot. The application talks to the API through one
client, which adds the token and ends the session on a 401; its pages share one
query cache, which mutations invalidate by root key.

## 2. Modules

| Module | Models |
|---|---|
| `Trades` | rows of `transactions`, their order, when two are the same content, and what it means for a history to fold |
| `Ledger` | create, delete and import, interleaved statement by statement, with batch runs for the rows they lock |
| `AtomicLedger` | what `Ledger` promises: the table changes one accepted call at a time |
| `LedgerProofs` | proofs about `Ledger`, and that it implements `AtomicLedger` |
| `SnapshotCache` | the snapshots of one user: writers that cut them, runs that fill them, readers |
| `AtomicCache` | what `SnapshotCache` promises as long as runs do not overlap: days come and go whole, one commit at a time |
| `PositionFold` | `build_holding`, one trade a step |
| `Timeline` | `fold_positions`, `PositionTimeline::at` and `evaluate_day` for one position |
| `CachedFx` | the exchange rate of a day: table, upstream, retries, fallback, calendar |
| `FxHistory` | the exchange rates of a period, on top of `CachedFx` |
| `Allocation` | `assign_ratios`, one item of its loops a step |
| `History` | `group_and_series`, the rounding of its points, and `buildHistoryChartData` of the chart |
| `Periods` | `resolveRange` of the page and the limit of the API, day by day |
| `Holdings` | the items of GET /holdings, their order, and the totals |
| `WebCache` | the answers a browser tab keeps, its pages and its mutations |
| `ImportPage` | the import page, its files and requests, and the imports at the API |
| `Session` | the session of a tab, beside another tab, from login to expiry |
| `Dialogs` | the eight dialogs of three pages, the rows they change, and other tabs |
| `Selections` | filters, toggles, tabs and the search of five views, with what is shown meanwhile |
| `SnapshotCacheProofs`, `FxProofs`, `WebCacheProofs` | proofs about `SnapshotCache`, and that it implements `AtomicCache` as long as runs do not overlap; about `FxHistory` with `CachedFx`, about `WebCache` |
| `CalculationProofs` | proofs about `PositionFold`, `Allocation` and `Periods` |
| `HistoryProofs` | proofs about `Timeline`, `History` and `Holdings` |
| `PageProofs` | proofs about `ImportPage`, `Selections`, `Dialogs` and `Session`, and about the four of them as one tab |
| `Sums` | lemmas about sums over finite sets and about the least of some numbers, which the proofs of calculations and of `Ledger` use |
| `MCLedger`, `MCSnapshotCache`, `MCWebCache` | workloads and constants for TLC |
| `MCFx`, `MCCalculations`, `MCWebTab` | several subjects under one specification: a variable `subject` says which one moves, the variables of the others stay as they are |

`Trades` is shared: `Ledger` decides with its operator `Fits` whether a history
may be committed, and `PositionFold` checks (`FoldDecides`) that this is what
the code's step-by-step fold decides. `Timeline` abstracts holdings to their
quantity, since amounts are the subject of `PositionFold`.

### Ledger

A request is a process with a program counter: `idle`, `resolve` (validation
and reads on the pool), `begin`, `lock`, `write`, `check`, `invalidate`, `cutDaily`,
`cutDays`, `commit`, and one of the ends `ok`, `oversell` (422), `notFound` (404),
`invalid` (422), `conflict` (409), `failed`. The shared variables are the
committed rows (`ledger`), the marked snapshot days (`covered`) and the clock
that stamps database transactions. Rows inserted and deleted and cached rows taken
by an open transaction are kept per request (`ins`, `del`, `taken`) and are visible
to that request alone (`View`) until `Commit`.

* `held`/`want` are the advisory locks of `lock_position`; an import takes them
  in ascending order because `touched` is a sorted set.
* A row is stamped with the start time of its transaction (`created_at DEFAULT
  now()`) and a random id; rows of one import differ only in the id, so
  `Insert` chooses any unused `tie`.
* The unique index on external ids makes an insert wait for uncommitted rows
  with its key (`Blocks`) and refuses it if one is committed (`InsertConflict`).
  Waits can form a cycle, which PostgreSQL's detector breaks
  (`DeadlockAbort`).
* `invalidate_from` is two `DELETE`s, of daily rows and of markers. Each fixes
  what it sees when it starts (`StartCut`, `StartUnmark`, `CachedFrom`) and takes it
  row by row, in any order, waiting for a row that another call or a run has taken
  (`TakeRow`). So calls and runs may wait for each other's cached rows as well, and
  any of them may be the victim.
* A batch run (`Runner`) holds a connection and goes through the cached rows of a
  range of days, day by day, rows before marker (`Reached`). When it commits, who
  waits for old rows of a day finds them gone, and a marker, which was updated in
  place, still there (`CommitRun`). The daily rows of a day stand as one row. Which
  rows a run puts there, and the days it adds, are the subject of `SnapshotCache`.
* `ValidateRow` looks each CSV row up on its own, in what is committed at that
  moment, and nothing looks again under the lock.
* `Fail` may happen at any point and rolls back. `Commit` may be followed by a
  lost answer: the client sees `failed` although the rows are in.

Positions are numbers in the order in which the import sorts them, quantities
count the smallest unit, and two trades' columns are equal or not; names, notes
and CSV syntax are left out.

### SnapshotCache

One user (users share no row of either table). Writers have done what `Ledger`
models up to `invalidate_from` and go on from there; the advisory lock keeps two of
them off one position. A `DELETE` is a statement that fixes the rows it saw when it
started and then takes them one by one, waiting for each row that another open
transaction has deleted or updated, as READ COMMITTED does; it does not see rows
added meanwhile, which is why rows and markers carry the run that wrote them (`by`),
and a marker the run that last computed its day (`made`). A run takes any range of
days (`StartRun`, `at`, `until`) and leaves the days outside as they were; `Overlap`
says whether one may start while another is under way. `upsert_day` is `StartDay`,
`ClearRow`, `InsertDay` (or `InsertFails` on a primary-key violation) and `MarkDay`;
`invalidate_from` is `StartCut`, `CutRow`, `StartUnmark`, `UnmarkDay`. A reader
counts the markers (`CheckCovered`), and then either reads the rows in a second
statement (`ReadCached`) or recomputes.

### PositionFold

`Buy`, `Sell` and `Oversell` are the three outcomes of `apply_trade`. Amounts
are counts of the smallest unit; products and quotients that do not fit are
rounded by `rust_decimal`, and the model allows both neighbours (`Quotients`,
`CostOfSold`), so what holds here holds for either rounding. `avg_cost` is left
out: it is recomputed from the book and never read back. `paid`, `received` and
`closings` are bookkeeping of the model, for stating what conservation means.

### Timeline

The trades of a position arrive by day, in an order in which they can be folded
(what `Ledger` guarantees). Those on days without an exchange rate are left out
(`SkipUnrated`), sales that then exceed the rest too (`SkipRefused`). The
position is in yen when the first rate is there from day 1.

### CachedFx and FxHistory

Rates are known by the day they were published for. `Publish` and `Midnight`
are the environment: a weekday's rate appears some time that day, never for
weekends and holidays. A caller looks the table up, may call upstream up to
three times, stores what it got and answers, or falls back to what it had found
at first. `FxHistory` adds one load of a period, which decides from the seed,
the gaps and the tail of the table whether to fetch, while single-day requests
go on filling it.

### Allocation

`assign_ratios` is filter, sort, sum, division, ranking and handing out, and
each loop takes one slice a step, so that the sums can be followed in a proof. A
class is its place in the order of the keys. A remainder is kept as the integer
that the division by the total leaves, where the code keeps the fraction: the
two are in the same order, and the 28 digits of `rust_decimal` keep values of
yen far apart from each other. `given` is the sum of `floors` (`TypeOK`).

### History, Holdings and Periods

`History` starts where a day has been evaluated: each position is worth
something, has no price, or is not held. `Add` puts one value into the sum of
its group; the positions come from a hash map, so in any order. `Answer` rounds
every sum (`Round`, half to even), `Merge` adds one series to the rows of the
stacked chart. The groups are made from positions that were ever traded, or from
those that the snapshots have: `known` is any set that contains the held ones,
which covers both sources.

`Holdings` takes the folded positions as given and has one step per item: folding
in the order of the ids (`Fold`), sorting by name and symbol (`Sort`), and the
loop that adds an item to the totals and to those of its account, which is the
last one or a new one (`Summarize`). `world.first` says which account has the
smaller name.

`Periods` walks through the calendar. `SetMonthBack` is what `Date.setMonth`
does, `ResolveFrom` the code's correction of it, and `Accepted` the count of
days by which the API refuses.

### WebCache

One tab: the page that is shown, the queries that pages share (`data`, `fresh`,
`failed`), the request of each query with its retries (`fetch`), and the
mutations (`write`). What the pages use (`Uses`), what they let one change
(`Offers`), what a mutation invalidates (`Roots`) and how often a request is
tried (`RetryLimit`) are the repository's. What React Query does with that is
external: joining a request under way (`Go`), replacing it on invalidation only
if its query has data (`Succeed`), letting a request go on when nobody looks but
not trying it again (`MayRetry`). An answer is the number of changes the database
had seen when it was read, so that "has this change" is a comparison, and there
is one key per root: filters and periods multiply keys, not behaviour.

### ImportPage

A text is the sequence of its lines: a row, a bad row, nothing, or spaces. The
page numbers them by `Preview`, the API by `Records`. `SetCsv` is the function
of that name: it takes report, result and requests off the page. `request`
remembers what was sent: where it is at the API (`server`) and what the page
does with its answer (`client`): it waits, it has been told to forget it but
handles it all the same (`detached`), or it is gone. `Validate` and `Write` are
separate, since the API looks duplicates up before its transaction. `alone` and
`late` are bookkeeping for the properties.

### Session

`session` is the token in memory, `stored` the one in local storage, `page`
before or behind the login. A token has the time of its issue, by which the API
judges it (`TokenAccepted`, with the leeway of `jsonwebtoken`), and the time
until which the tab takes it, counted from the arrival of the answer
(`Authenticated`, with `SKEW_MS`). `Check` and `AnswerIn` are apart, so that
time passes on either way; a 401 ends the session there is by then, as
the listener for `AUTH_EXPIRED` does. `OtherTab` writes the storage; the code does not
listen to it.

### Dialogs

`rows` are the rows of the database, `list` the page's copy of them, `dialog`
what is open and over which row, `form` its values. Which fields a form begins
with (`Initial`), offers (`Inputs`) and sends (`Body`) is that of each dialog;
fields that behave alike are one. The dialogs in `Keyed` are mounted anew for
each row, the others stay mounted and are reset by an effect, which decides
where a late error is shown (`Alive`, `ShowError`). `Tell`, `Refetch` and
`Settle` are a mutation: told of success, waiting for the lists, closing the
dialog of its kind. `Elsewhere` is another tab.

### Selections

`choice` is what the controls say, `search` what the delayed search is for,
`answers`, `asked` and `refused` the state of the queries by key, and `last` the
answer that `keepPreviousData` goes on to show. An answer is what it was asked
for (`of`) and whether it is empty. `Offers` is what the page lets the user do
in each phase.

## 3. What each run checks

| Run | Shows | Distinct states |
|---|---|---|
| `ledger_calls` | three concurrent calls of any mix of sale, deletion, two-position imports in both orders, imports with crossed external ids and refused creates: `TypeOK`, `NoOversell`, `ExternalIdUnique`, `PositionStable`, and that the interleaving implements `AtomicLedger` | 1,268,830 |
| `ledger_external` | two calls, with crossed external ids among them, and a batch run on two connections: `LockWaitersAreSafe`, `CommitInvalidates`, `EveryCallEnds` | 187,115 |
| `snapshot_run` | two runs of any ranges, one after the other, a writer, late prices and a reader: `DayIsWhole`, `RunRepairs`, `AnswerDaysAreWhole` | 891,337 |
| `snapshot_overlap` | two runs of any ranges that may overlap, and a writer: `StaleTakesBoth`, `EverythingEnds` | 29,288 |
| `fx` | two callers around a weekend and a holiday: `TodayIsNewest`, `NeverTooOld`, `EveryCallEnds`; one load of a period, from an empty table or one that covers it, while two single-day requests go on: `JudgedDaysAreFresh` | 551,116 |
| `calculations` | six calculations over all inputs within the bounds: `MoneyConserved`, `FoldDecides` (a position), `TimelineIsFold` (its days), `RatiosSumTo100`, `RatiosStaySorted` (allocation), `ChartAddsUp` (the stacked chart), `SummariesAddUp` (holdings), `PeriodIsMonths` (periods) | 935,275 |
| `web_views` | one change, of an asset, of prices, of a trade or by an import, while the user moves between four pages that share queries: `FreshIsCurrent`, `ShownIsCurrent`, `EveryWriteEnds` | 714,757 |
| `web_tab` | four parts of a tab: `ReportIsOfItsCsv`, `DoneIsStored`, `RowsOnce` (import page), `RefusedOnlyWhenSlow`, `RefusedIsGuest` (session), `PatchIsWhatWasTyped`, `ErrorIsOfItsForm`, `OncePerForm` (dialogs), `ShownIsSelected`, `NoDeadEnd`, `SearchIsTheText` (filters), and `TypeOK` of all four | 2,475,625 |
| `ledger_day_trade`, `snapshot_race`, `presets`, `import_report` | counterexamples, see section 6 | |

Bounds, and why they are enough to meet the interesting cases:

* `Ledger`: two positions are what it takes for locks in opposite order, three
  requests for a sale, a second sale and the deletion of the purchase, one
  share so that any two of them conflict. The pool has two connections for
  three requests, or for two and a run, so that waiting for a connection happens as
  well. Three days (purchase, sale, today), two of them cached, and two external
  ids. In `ledger_external` a call may wait for the other's rows or for the run's,
  at the unique index or at the cached days. The theorems of section 5 are free of
  all these bounds.
* `SnapshotCache`: two days, since a run works day by day and an invalidation
  deletes both in one statement, and since a run over one of them leaves the other;
  two positions, so that rows can be added to a day beside others; two runs and a
  writer, in turn or at a time. Prices change at most once per asset (`MaxQuote`),
  and not in `snapshot_overlap`. Two writers with two runs and prices are more than
  TLC gets through in a few minutes; the theorems are about any number.
* `PositionFold`: quantities up to 3 and prices 0 and 5 for a unit of 3, so that
  nothing divides; four trades allow a sell-off and a re-purchase with partial
  sales before or after.
* `Timeline`: four trades on three days put several on one day and leave days
  without any; quantity 1 or 2.
* `CachedFx`: eleven days around a weekend, the Monday after it being the first
  day that can be today, with one holiday on a weekday before it, the service's
  own policy of four calendar days and two weekdays, and three attempts.
* `FxHistory`: eight weeks, the smallest calendar in which a 30-day lookback and
  a period with an eight-day gap fit, two periods (one spanning weeks, one
  Tuesday to Friday), and the limits of the code. Upstream is tried once per
  single-day request: retries are the subject of the single days.
* `Allocation`: four classes leave up to three units over, and the totals reach
  20, so remainders of every size occur, equal ones included; 10,000 units as in
  the code.
* `WebCache`: one mutation, since two change the cache as one after the other does.
  It is of an asset, of prices, of a trade, or an import: changes of accounts, and
  the pages of accounts and analytics, are in the module and in the theorems but not
  in the run (`Kinds`, `Pages`). Four pages, which between them share queries with
  each other and with the dialog of prices; three changes of page, enough to leave a
  page with requests under way and to come back; one request that fails for the
  first time, one answer that ages, or one that is dropped (`MaxTrouble`). Further
  tries of a request are limited by the code, not by the bound.

* `History`: two accounts that share an asset, so that groups overlap by asset
  and not by position; half yens, so that rounding goes both ways; two days.
* `Holdings`: two accounts with their names in either order, two assets, two
  currencies, and positions that are open or closed, with a price or without.
* `Periods`: every day of three years, one of them a leap year, so that every
  month is left backwards from every day.
* `ImportPage`: two rows, and texts that have both in them, one of them twice, a
  bad row, an empty line and a line of spaces; two edits (texts, files, encodings
  or leaving) and three requests: a dry run and two imports, or one and a repeat.
* `Session`: a token of three steps that is no longer sent two steps before its
  end and is accepted one step after it, and five steps of time, enough for a
  token to expire and be replaced; two requests at once, one of each kind or two
  of one.
* `Dialogs`: two rows on each of the pages, two forms and two requests, so that
  one form can meet the answer of the other; two steps of typing, other tabs or
  failing lists.
* `Selections`: two options per filter, three choices (there, back, and on), a
  search delayed by two steps of its timer.

Deadlock is checked in the runs of `Ledger` and `SnapshotCache`. Calculations,
loads, calendars and users with no action left within the bounds do end, and
their runs say so.

Every property of a passing run has a mutant of the code that breaks it: an unsorted
lock order, a lock that is shared, an unlocked delete, a cut that spares the day
itself, a marker that is left, rows written outside the transaction, a fee with the
wrong sign and the like. The mutants stand beside the definitions they replace.

## 4. Fairness

* `Ledger`: `WF` of everything a request does after it was submitted, and of what a
  run does after it has begun. The tokio
  runtime polls every task, PostgreSQL queues lock waiters and its detector
  breaks cycles. Weak fairness is enough: advisory locks are held by finitely
  many requests, each of which ends, and nobody is obliged to submit a call.
* `SnapshotCache`: `WF` of the steps of a writer or run that has started, and of
  a reader that has begun. Nobody is obliged to start one.
* `CachedFx` (in `MCFx`): `WF` of every caller; each call upstream has a timeout,
  so either `Reply`, `Transient` or `Refused` happens. Publication and midnight
  are not fair: no property needs the calendar to go on.
* `WebCache`: `WF` of the request of each query and of the answer to a mutation:
  the API answers, or the browser reports that the connection is gone. Nobody is
  obliged to open a page or to change anything.
* The calculations and the parts of a tab in `MCWebTab` state no fairness: their
  properties are about what is never shown, sent or stored.

No run assumes that failures stop: they are bounded by the attempts of the code.

## 5. Proofs

TLAPS proves every safety invariant and every action property of the passing runs,
each for every value of the constants that the named assumptions allow, that
`Ledger` implements `AtomicLedger`, and that `SnapshotCache` implements
`AtomicCache` as long as runs do not overlap.

| Module | Theorems |
|---|---|
| `LedgerProofs` | `TypeCorrect`, `NeverOversold`, `LocksAscend`, `VictimsPastTheirLocks`, `ExternalIdsUnique`, `LockedPositionsStable`, `CommitsInvalidate`, `LedgerImplementsAtomicLedger`, `NoStandstill`, `EveryStepAdvances` |
| `SnapshotCacheProofs` | `CacheTypeCorrect`, `StaleNeedsBoth`, `MarkedDaysWhole`, `RunsRepair`, `AnswersAreWhole`, `CacheImplementsAtomicCache`, `NobodyHeldUp` |
| `FxProofs` | `TodayNewest`, `WithinPolicy`, `JudgedFresh`, `AttemptsEnd` |
| `CalculationProofs` | `FoldTypeCorrect`, `SoldOffIsEmpty`, `NoMoneyLost`, `FoldIsFits`; `RatiosSum`, `UnitsAreGiven`, `RatiosSorted`; `PeriodsAreMonths` |
| `HistoryProofs` | `LookupIsFold`, `ChartIsExact`, `SummariesAgree` |
| `WebCacheProofs` | `FreshHasChanges`, `ShownHasChanges`, `BusyForRequests`, `RequestsEnd` |
| `PageProofs` | import page: `ImportTypeCorrect`, `ReportOfItsCsv`, `DoneInDatabase`, `NoRowTwice`; filters: `SelectionTypeCorrect`, `ShownSelected`, `NeverStuck`, `SearchedIsTyped`; dialogs: `DialogTypeCorrect`, `PatchesAreTyped`, `ErrorsStayAtHome`, `OneRowPerForm`; session: `SessionTypeCorrect`, `NobodyIsLoggedOutInTime`, `RefusedSeesLogin`; the tab: `TabIsItsPages`, `TabTypeCorrect` |

`Sums` has lemmas only. Hardly any of the invariants is inductive by itself; the
rest of this section says what had to be added, and why.

**Ledger** (assumptions: creates carry one row, deletes none, the initial table
folds, is stamped before the first call and has no external id twice, days and
positions are numbers, the cached days are finitely many, runs are no requests, the
pool has a connection). For `NoOversell` the state that
is about to be committed has to be known to fold. `IInv` adds, in this order,

1. `PlanOK`: what a request plans belongs to its call;
2. `LockInv`: locks are exclusive and ascending (`HeldExclusive`, `LockOrder`),
   nothing is written without one (`Quiet`, `LocksCover`, `WritesConfined`);
3. `Folded`: past its check, a request's view of each position it holds folds;
4. `CacheInv`: cached rows are taken at the end only (`TakenOnTheWay`), and past its
   invalidation a request has taken the marker of every day on or after one that it
   changes (`CutsEnough`).

The step that matters is another request's commit while this one is between
check and commit: it holds none of this one's positions (`HeldExclusive`), and
changes nothing but its own (`WritesConfined`), so the folded view stands
(`OthersKeepView`). Marked days are never added in `Ledger`, so a cut stays
sufficient; that runs do add them is what `SnapshotCache` is about.
`ExternalIdUnique` becomes inductive when it is said of committed and uncommitted
rows together (`OneOwner`): the unique index looks at both.

`LockWaitersAreSafe` says whom PostgreSQL's detector may abort: an import between
two of its rows, the next of which carries an external id, or a call or run that has
taken cached rows and waits for more. It does not say that a create or a delete is
safe: an invalidation and a run, or two invalidations, can wait for each other's
rows, and the victim is answered with an error. What it excludes is that the sorted
advisory locks close a cycle, alone or together with those waits. `Deadlocked` is
said by sets that are closed under waiting, so for each of the others such a set has
to be shown that it is not in. For who waits for a lock (`NoLockOnCycle`) this is
everybody past the locks, and those who wait for higher positions than the least of
its own: whoever holds that one wants higher ones only (`LockOrder`), and nobody past
the locks waits for one who is not. For who has taken nothing (`NoFirstOnCycle`) it is
those that have. Rows with external ids in opposite order on different positions, and
cached rows of a run, do close cycles: `ledger_external` has both.

**SnapshotCache** (assumptions: there is a day; writers, runs and readers are
different processes; the initial trades are trades; the initial rows are by no run).
`Base` says what each process has in its open transaction; above all that a run has,
by the day it is at, put what the evaluation of what it read gives for each day so
far, and marked it with that count (`InStep`). It holds for any number of runs.

* `StaleNeedsBoth`: no writer or no run has committed, and no price was posted.
  If no writer has, every run has read the initial trades, so all of them write
  the same rows and nobody can tell them apart (`RunsAgree`). If no run has, the
  markers are those of the start, and a writer past its first statement has seen
  all that it has to take (`WritersAgree`).
* `MarkedDaysWhole`, `RunsRepair`, `AnswersAreWhole` and `CacheImplementsAtomicCache`
  have the hypothesis `~Overlap`: any number of runs over any ranges, but none starts
  while another is under way (otherwise they fail, see section 6). `InTurn` is
  inductive then: one run is at work at a time (`RunsApart`), rows taken by different
  transactions are different (`Owned`), of the days that a run has replaced it has
  taken all rows (`Cleared`), a writer at the markers knows all those that it has to
  take, but for days that a run has put there since (`Unmarking`), and each marked day
  holds what the run that last computed it, or the start, made of it (`Kept`).
* `AnswersAreWhole` is about a reader whose days are cut or replaced between the
  statement that counts the markers and the one that reads the rows. At any time each
  day of the cache is as one committed run has made it, or as at the start, or
  missing, marked or not (`WholeDays`): a call takes all rows of a day or, when a run
  has replaced them before it took any, none (`CutsWhole`). That it cannot take half
  of what a run has put rests on who deletes a row having seen it committed
  (`Foreign`). It is said day by day: a run goes over its range only, by default the
  last seven days, so an answer over a longer period has days of different runs side
  by side, computed from different trades and prices.
* `CacheImplementsAtomicCache`: a reader of the code takes `upsert_day` and
  `invalidate_from` for replacing and removing days; `AtomicCache` says just that, and
  `Stored` maps the two tables to it: a day is there when it is marked. Only commits
  change what is stored (`OnlyCommitsChange`). That of a run puts the days of its range
  there, all at once, since by then all their rows are among those it has deleted
  (`NothingElseDeleted`, `RangeReplaced`), and leaves the others. That of a call takes
  whole days, all from its trade's on (`Cutting`, one more inductive invariant), and a
  day from there on that it leaves is the work of a run that has committed
  (`Unmarking` with `Kept`). This last case is in `AtomicCache` because the code has
  it: the run may not have seen the trade, which is the finding of `snapshot_race`.
  `ImplementsAtomicCache` is in no `.cfg`; as a property of `SnapshotRun.cfg` without
  the symmetry and with one run it holds; with `Overlap`, two runs and two writers it
  does not.

**CachedFx and FxHistory** (assumptions: the limits are numbers; markets are never
closed for longer than `MAX_GAP_DAYS` or for the whole look-back,
`FxCalendarAssumption`, as the comment on the constants says; rates left in the
table are for working days). `CallerOK` says what a caller knows at each place:
what it will fall back to has been in the table since its lookup, and the answer of
upstream is no older. `LoadOK` says why a load that does not call itself stale
shows no gap: either upstream has answered, and all rates of the window are in the
table, or the table was judged dense enough, and the days it was judged by are still
there (`Enough`, `Steady`), since rates are never removed. A rate that a request
adds meanwhile can shorten a gap only, except in front of the first one, and those
days are not judged.

**PositionFold** (assumption: `PriceUnit` is positive). `BookInv` is `TypeOK`,
`ClosedIsEmpty` and `MoneyConserved`: that the book stays non-negative needs the
bound of `CostOfSold`, and that a sell-off loses at most one unit needs that a
position that is held has the whole book. `FoldIsFits` is the link to `Ledger`: the
code's fold refuses a history exactly when `Fits`, which `Ledger` decides with, does
not hold. `Fits` is defined by the sums over all the earlier trades, the fold goes
trade by trade; `HeldIsNet` says that what is held is the difference of the sums.

**Allocation** (assumptions: finitely many classes, natural values and units). The
comment in the code, that the deficit is always fewer units than there are slices,
is what has to be proved; its unit tests try four lists. `RatioInv` carries a
balance through the division loop: after k slices, the units given times the total,
and k remainders that are each below the total, make up exactly the units due
(`Divided`). When all slices are divided, the units missing are fewer than the
slices (`FewMissing`), and each finds a slice (`Handing`). That the ratios stay
sorted needs `SortInv`: units are handed out by rank, and among slices with equal
floors the rank follows the remainder, so the value.

**Periods** (assumption: years are integers): the preset of months by cases on the
month and on what `setMonth` does with a day that it does not have.

**Timeline and History** (assumptions: finitely many positions, natural
values, a positive rounding unit). `TimelineInv`: as long as every trade
could be converted, the last entry is of the day of the last trade and no entry is
later, so one more trade changes the lookup of exactly the days from its own on.
`ChartInv`: for each day, the sums of the groups and the values still to be added
make up the exact value (`AccOK`); each merged series adds at most half a unit of
rounding, and its own assets without a value (`RowOK`).

**Holdings** (assumptions: finitely many accounts and assets, natural prices and
quantities). `HoldInv`: after each item every total is the sum of the accounts'
(`Adding`), although the loop touches only the last account; and the accounts
ascend by name, the last being that of the item counted last (`Accounts`). The
order by name first is what keeps an account from coming back.

**WebCache** (assumption: the pages visited are pages). `WebInv` adds
that an answer that was read after a mutation has been told has its change, unless
it is `late` (`AnswersAreNew`), and that what has failed is not fresh.

**ImportPage** (assumptions: `Others` are no rows; there are finitely many rows, and
the bounds are numbers). `ReportOK`: a request that the
page waits for is of the text on it. `StoredOK`: what an import has looked up and
not found is what it will add, and the rest is there. `OnceOK`: as long as no import
was left behind, at most one is at the API, and the rows that it is going to add are
still missing. For the types, `ImportBounded` adds that the numbers of a report fit
the text it is of, and that a row is not stored more often than there are requests
that the API is done with.

**Selections** (assumptions: the search is delayed, the bound on choices is a
number). `SelInv`: every answer and every request is of the selection that its key
stands for, and for what the controls say there is an answer, a refusal or a
request.

**Dialogs** (assumptions: two names, texts). `DlgInv`: what a request carries was
typed in its form; a form that is mounted for its row has its own error or none;
whoever could send a second time in one form has had a refusal, or lost an answer
(`Hears`, `Pairs`).

For the types, `DlgTypes` adds that rows are added and never taken out, so that
a form's row is one of them, and that every mounting has a number of its own.

**Session** (assumption: the margin is shorter than the lifetime). `SessionInv` says
of every request what was true when it was sent (`SentInTime`: its token was valid
for the tab; a request without a token was sent on the way to the login,
`Outdated`), and when it was checked (`RefusedLate`: its token was no longer valid
for the API).

`WebTab.cfg` runs the four parts side by side (`MCSpec`). `TabIsItsPages` says that the
tab's behaviours are behaviours of each part, since a step of one leaves the variables
of the others alone; so what is proved of a part holds in the tab, and
`TabTypeCorrect` follows from the four type theorems.

How the proofs are laid out: one lemma per action says that it keeps the invariant,
and a last one splits `Next`. Sums over finite sets (the library's folds) are
recursive functions on subsets, and induction theorems cannot be applied to
operators here; so `Sums` argues about the smallest subset for which a claim fails
(`SmallestSubset`), shows that a sum does not depend on the element that is taken
away first, and gives what the proofs cite: one element more (`SumOfOneMore`), one
weight changed (`SumOfChanged`), equal weights (`SumOfSame`). Loops of the code are
steps of the models, so that everything else needed is about one more item.

**What liveness rests on.** That something ends under fairness cannot be proved here,
and the liveness properties stay with TLC. What can be proved are the two halves
of the argument that are about states and steps, with the guards written out
(`CanGoOn`) in the place of `ENABLED`.

* Nothing holds everybody up. `NoStandstill` (of `Ledger`, for finitely many requests
  and runs): as long as one is under way, the next step of one is possible, or one
  is on a cycle of waits, which PostgreSQL aborts. Who has no
  connection waits for those that have one (`OpenPool`), and these wait for locks and
  rows of each other. Of the sets of requests that wait within the set the
  smallest is a cycle (`WaitersCycle`). `NobodyHeldUp` says the same of the rows and
  markers that `SnapshotCache` takes, for any number of runs. `BusyForRequests` (of
  `WebCache`): a mutation waits only for requests that are under way, since an
  invalidation has either sent a shown query again or found its first request under way.
* What goes on gets nearer to its end. `EveryStepAdvances` (of `Ledger`): every step
  takes a call or run to a later place, or leaves one row to look up, position to
  lock, row to insert or cached row to take less. `AttemptsEnd` (of `CachedFx`) and
  `RequestsEnd` (of `WebCache`): attempts and retries are counted and never start
  over, unless a query is asked for anew.

Only model-checked: the liveness properties `EveryCallEnds` (of `Ledger` and of
the callers of `CachedFx`), `EverythingEnds` and `EveryWriteEnds`, as fairness and
`ENABLED` are beyond the prover.

## 6. Where the code and its documents differ

Four runs end in a counterexample to a sentence of the repository.

* **`ledger_day_trade`**: `transaction_repo.rs:121` says that trades of one day
  count in the order of their registration. All rows of an import share
  `created_at`, so the random id decides. A purchase and its sale on one day
  may be folded in the wrong order, and then be refused.
* **`snapshot_race`**: `README.md:216` promises that a changed trade invalidates
  the cache. A run reads the trades before its transaction begins
  (`snapshot_service.rs:70`); a trade committed in between cuts the old
  snapshots, and the run then marks days that it computed without it. They stay
  until a later run or a later change covers them (`RunRepairs`).
* **`presets`**: `task-22-analytics-charts.md:9` has five periods to choose from,
  and `handler/analytics.rs:28` advises to ask by month when there are more than
  2000 points. The page asks for the whole period by month, from 2000-01-01; the
  API counts its days whatever the granularity (`analytics.rs:71`) and refuses.
* **`import_report`**: `task-23-csv-import-ui.md:71` says that the report is
  dropped with its text, since otherwise another content could be imported as
  validated. `handleDryRun` (`ImportPage.tsx:60`) awaits the answer and sets the
  report also when the text was replaced meanwhile: `reset()` forgets the
  mutation, and its promise resolves all the same. The import is then enabled for
  the new text. The API validates again, so that nothing invalid gets in, but
  what gets in is not what was looked at.

Reading the code for the models showed further gaps that no run states, since
the code does not claim to close them or the claim is weaker: two overlapping
imports of one CSV without external ids both insert it
(`import_service.rs:210`); an import accepts a date in the future; a cut between
the two statements of a cache hit shows a computed day without rows
(`analytics_service.rs:514`); two overlapping runs around a deletion can leave a
row of the earlier one beside the marker of the later (`snapshot_repo.rs:103`,
which is why `DayIsWhole` is checked with runs that do not overlap); a create or
delete may be the victim of a deadlock with a run and is then answered with an error
(`snapshot_repo.rs:182`); a late price stays out of
the snapshots until a run covers the day; a weekend may be answered with a
weekday before the last one, if only that is in the table
(`cached_fx.rs:99`); the gap between the rate before a period and the first rate
in it is not among those that `coverage` looks at (`fx_repo.rs:59`), so an old
rate may lie flat over the first weeks of a period, which
`task-11-asset-history.md:146` describes the conditions as there to rule out
(`JudgedDaysAreFresh` is what holds); a position whose only purchases have no
rate is absent from a day (`analytics_service.rs:398` leaves it without an
entry), where `task-11-asset-history.md:88` says it counts as unpriced while it
is held; and an import that is answered after the user has moved on to a page of
valuations may meet the first request of that page, which was read before the
import and is joined, not replaced (`import/queries.ts:19`): the old valuation
stays on screen until the page is opened again after `staleTime`, where
`README.md:336` says that no old valuation is left on any page. `late` marks
exactly these requests in `WebCache`.

The same holds of the application. The success of a mutation that was left with
Escape closes the dialog of the same kind that is open by then
(`EditAccountDialog.tsx:82`), and its failure is shown in it, since the dialogs of
accounts stay mounted (`ErrorIsOfItsForm` speaks of the others). The dialog of
prices stays editable while it saves, and its success discards the rows that were
typed meanwhile (`PriceDialog.tsx:63`). A file that was chosen first may be read
last. A line of spaces is no row for the preview and is one for the API, so that
from there on the marks are off by one, which the comment on `parsePreview`
accepts. An import whose answer is lost is offered again and, sent while the first is
under way, stores rows twice (`RowsOnce` says when). A late 401 of an earlier
session ends the new one; the next user of a tab sees the answers kept for the
one before until new ones arrive, as keys carry no user (`queryKeys.ts:7`); and
`GuestOnly` leads to the dashboard although `task-18-auth-ui.md:103` has the login
lead back. The sum of the unpriced counts of all groups counts an asset of two
accounts twice, where the comment in `buildHistoryChartData` takes groups for disjoint.

## 7. What is not modelled

* Accounts and assets: the foreign keys that trades and snapshots have to them,
  and the cascade on deletion (`handler/accounts.rs:214`); only what the pages see
  of a deletion and of unique names is.
* Prices: the validation of a batch. A post of prices is one step.
* Authentication: password hashing, the unique index on e-mail addresses, and the
  token of the batch.
* Asset history: which days a monthly granularity picks.
* The clocks of Tokyo and UTC: each module has one notion of a day
  (`snapshot_service.rs:28` has another one than `analytics.rs`).
* CSV syntax, text and value of a decimal, wording, layout, tables, the number
  format, the pie and the tooltips, routing, configuration and OpenAPI.
* The width of decimals: columns are `numeric`, and sums stay far below the 28
  digits of `rust_decimal`.

PostgreSQL, sqlx, Frankfurter, the calendar, the browser and React Query are
modelled from how the code uses them.

Some simplifications should be known. `SnapshotCache` gives a position one
current price instead of one per day, and a trade one unit; its reader asks for all
the days there are, and which days a run has to cover is nowhere said. `Ledger` has
one row for the daily rows of a day, and its runs add no day. `CachedFx` reads the
table and the date in one step, although midnight may fall between the two.
`WebCache` treats every key of a root as one query. `Holdings` takes trades and
prices from one state of the database, where the code reads them in two
statements. `Dialogs` forgets requests that are over, except what they created.
In `Session` the clocks of tab and API run at one speed.

## 8. Plan

Done: every module of section 2, and the proofs of section 5.

Next: `Masters`, accounts and assets with their foreign keys and cascades, composed
with the writes of `Ledger` (an account deleted while a trade is inserted; snapshot
rows that cascade away under their markers).

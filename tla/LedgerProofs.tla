---------------------------- MODULE LedgerProofs ----------------------------
(***************************************************************************)
(* Proofs about Ledger, for every workload, number of requests and runs,   *)
(* pool size, set of positions and initial table.                          *)
(***************************************************************************)
EXTENDS Ledger, Sums, TLAPS

\* A request's plan fits the call it serves, and only a delete has a target.
PlanOK ==
    \A r \in Request :
        /\ fresh[r] \subseteq DOMAIN Rows(r)
        /\ pc[r] # "idle" => call[r] \in Calls
        /\ pc[r] = "idle" => fresh[r] = {} /\ target[r] = {}
        /\ target[r] # {} => call[r].op = "delete"
        /\ fresh[r] # {} => call[r].op # "delete"
        /\ \A t, u \in target[r] : t = u

LEMMA CallFacts ==
    ASSUME NEW c \in Calls \union {NoCall}
    PROVE  /\ c.op \in Op
           /\ c.rows \in Seq(Row)
           /\ c \in Calls /\ c.op = "create" => Len(c.rows) = 1
           /\ c \in Calls /\ c.op = "delete" => Len(c.rows) = 0
  <1>1. CASE c \in Calls
    BY <1>1, CallsAssumption
  <1>2. CASE c = NoCall
    <2>1. << >> \in Seq(Row)
      OBVIOUS
    <2>2. /\ c.op = "create"
          /\ c.rows = << >>
      BY <1>2 DEF NoCall
    <2>. QED  BY <2>1, <2>2, CallsAssumption DEF Op
  <1>. QED  BY <1>1, <1>2

LEMMA StampType ==
    ASSUME NEW row \in Row, NEW a \in Nat, NEW tie \in Nat, NEW line \in Nat
    PROVE  /\ Stamp(row, a, tie, line) \in Trade
           /\ Stamp(row, a, tie, line).pos = row.pos
           /\ Stamp(row, a, tie, line).day = row.day
           /\ Stamp(row, a, tie, line).at = a
  BY DEF Stamp, Row, Trade

\* The step of a request that leaves its database transaction behind.
LEMMA LeaveType ==
    ASSUME TypeOK, NEW r \in Request, NEW why \in Phase, Leave(r, why)
    PROVE  /\ pc' \in [Proc -> Phase]
           /\ at' \in [Request -> Nat]
           /\ want' \in [Request -> SUBSET Nat]
           /\ held' \in [Request -> SUBSET Nat]
           /\ ins' \in [Request -> SUBSET Trade]
           /\ del' \in [Request -> SUBSET Trade]
           /\ taken' \in [Proc -> SUBSET CacheRow]
  BY DEF TypeOK, Leave, Goto

\* A step of a request that ends its call without a commit.
Drops(r) ==
    InsertConflict(r) \/ DeleteMiss(r) \/ Oversell(r) \/ Fail(r) \/ DeadlockAbort(r)

LEMMA DropStep ==
    ASSUME NEW r \in Request, Drops(r)
    PROVE  /\ UNCHANGED <<ledger, covered, clock, plan>>
           /\ \E why \in Ended : Leave(r, why)
           /\ seen' = [seen EXCEPT ![r] = {}]
  BY DEF Drops, InsertConflict, DeleteMiss, Oversell, Fail, DeadlockAbort, Rollback, Ended

\* Who is on a cycle of waits waits.
LEMMA DeadlockedWaits ==
    ASSUME NEW x \in Proc, Deadlocked(x)
    PROVE  \E y \in Proc : WaitsFor(x, y)
  <1> SUFFICES ASSUME \A y \in Proc : ~WaitsFor(x, y) PROVE FALSE
    OBVIOUS
  <1> DEFINE S == {y \in Proc : FALSE}
  <1>1. S \in SUBSET Proc /\ S = {}
    OBVIOUS
  <1>2. \A y \in S \union {x} : \A z \in Proc : WaitsFor(y, z) => z \in S
    BY <1>1
  <1> HIDE DEF S
  <1>3. x \in S
    BY <1>1, <1>2 DEF Deadlocked
  <1>. QED  BY <1>1, <1>3

LEMMA DropsLater ==
    ASSUME NEW r \in Request, Drops(r)
    PROVE  pc[r] \in {"resolve", "begin"} \union InTx
  <1>1. CASE DeadlockAbort(r)
    <2>1. PICK y \in Proc : WaitsFor(r, y)
      BY <1>1, DeadlockedWaits DEF DeadlockAbort, Proc
    <2>. QED  BY <2>1 DEF WaitsFor, InTx
  <1>. QED  BY <1>1 DEF Drops, InsertConflict, DeleteMiss, Oversell, Fail, InTx

\* A step of a run: it touches the cached rows only, and takes from the DELETEs
\* of requests at most daily rows.
RunStep(n) == StartRun(n) \/ Renew(n) \/ FailRun(n)

LEMMA RunSteps ==
    ASSUME TypeOK, NEW n \in Runner, RunStep(n)
    PROVE  /\ UNCHANGED <<ledger, covered, clock, plan, at, locks, ins, del>>
           /\ pc' \in [Proc -> Phase]
           /\ seen' \in [Proc -> SUBSET CacheRow]
           /\ taken' \in [Proc -> SUBSET CacheRow]
           /\ pc[n] = "idle" \/ pc[n] \in Taking
           /\ \A r \in Request :
                 /\ pc'[r] = pc[r] /\ taken'[r] = taken[r]
                 /\ \A row \in seen[r] : row.table = "snapshot_days" => row \in seen'[r]
  <1> USE DEF TypeOK, Proc, Phase, InTx, Taking, Cutting, Ended
  <1>1. \A r \in Request : r # n
    BY RunnerAssumption
  <1>2. CASE StartRun(n)
    <2>1. /\ UNCHANGED <<ledger, covered, clock, plan, at, locks, ins, del, taken>>
          /\ pc[n] = "idle" /\ pc' = [pc EXCEPT ![n] = "renew"]
      BY <1>2 DEF StartRun, Goto
    <2>2. PICK S \in SUBSET CacheRow : seen' = [seen EXCEPT ![n] = S]
      BY <1>2 DEF StartRun
    <2>. QED  BY <1>1, <2>1, <2>2
  <1>3. CASE TakeRow(n)
    <2>1. /\ UNCHANGED <<ledger, covered, clock, pc, plan, at, locks, ins, del>>
          /\ pc[n] \in Taking
      BY <1>3 DEF TakeRow
    <2>2. PICK row \in seen[n] : /\ seen' = [seen EXCEPT ![n] = @ \ {row}]
                                /\ taken' = [taken EXCEPT ![n] = @ \union {row}]
      BY <1>3 DEF TakeRow, Reached
    <2>. QED  BY <1>1, <2>1, <2>2
  <1>4. CASE CommitRun(n)
    <2>1. /\ UNCHANGED <<ledger, covered, clock, plan, at, locks, ins, del>>
          /\ pc[n] = "renew" /\ pc' = [pc EXCEPT ![n] = "ok"]
          /\ taken' = [taken EXCEPT ![n] = {}]
      BY <1>4 DEF CommitRun, Goto
    <2> DEFINE old == {row \in taken[n] : row.table = "daily_snapshots"}
    <2>2. seen' = [y \in Proc |-> IF y = n THEN {}
                                  ELSE IF y \in Request THEN seen[y] \ old ELSE seen[y]]
      BY <1>4 DEF CommitRun, Forget
    <2>3. seen' \in [Proc -> SUBSET CacheRow]
      BY <2>2
    <2>4. \A r \in Request : seen'[r] = seen[r] \ old
      BY <1>1, <2>2
    <2>. QED  BY <1>1, <2>1, <2>3, <2>4
  <1>5. CASE FailRun(n) \/ RunAbort(n)
    <2>1. /\ UNCHANGED <<ledger, covered, clock, plan, at, locks, ins, del>>
          /\ pc[n] = "renew" /\ pc' = [pc EXCEPT ![n] = "failed"]
          /\ taken' = [taken EXCEPT ![n] = {}] /\ seen' = [seen EXCEPT ![n] = {}]
      BY <1>5 DEF FailRun, RunAbort, Goto
    <2>. QED  BY <1>1, <2>1
  <1>. QED  BY <1>2, <1>3, <1>4, <1>5 DEF RunStep, Renew

LEMMA RowFacts ==
    ASSUME TypeOK, NEW r \in Request, NEW i \in DOMAIN Rows(r)
    PROVE  i \in Nat /\ Rows(r)[i] \in Row
  <1>1. call[r] \in Calls \union {NoCall}
    BY DEF TypeOK
  <1>2. Rows(r) \in Seq(Row)
    BY <1>1, CallFacts DEF Rows
  <1>. QED  BY <1>2

LEMMA InitType == Init => TypeOK /\ PlanOK
  <1> SUFFICES ASSUME Init PROVE TypeOK /\ PlanOK
    OBVIOUS
  <1>1. NoCall.rows = << >>
    BY DEF NoCall
  <1>2. TypeOK
    BY InitialAssumption, SnapshotDaysAssumption DEF Init, TypeOK, Phase
  <1>3. PlanOK
    BY <1>1 DEF Init, PlanOK, Rows, Proc
  <1>. QED  BY <1>2, <1>3

LEMMA StepType == TypeOK /\ PlanOK /\ [Next]_vars => TypeOK' /\ PlanOK'
  <1> SUFFICES ASSUME TypeOK, PlanOK, [Next]_vars
               PROVE  TypeOK' /\ PlanOK'
    OBVIOUS
  <1> USE DEF TypeOK, Phase, InTx, Taking, Cutting, Ended, plan, work, locks, cache, Proc
  <1>1. ASSUME NEW r \in Request, Submit(r)
        PROVE  TypeOK' /\ PlanOK'
    BY <1>1 DEF Submit, Goto, PlanOK, Rows
  <1>2. ASSUME NEW r \in Request, ResolveCreate(r)
        PROVE  TypeOK' /\ PlanOK'
    <2>1. TypeOK'
      BY <1>2 DEF ResolveCreate, Goto
    <2>2. call[r] \in Calls /\ call[r].op = "create" /\ call' = call /\ target' = target
      BY <1>2 DEF ResolveCreate, PlanOK
    <2>3. 1 \in DOMAIN Rows(r)
      BY <2>2, CallFacts DEF Rows
    <2>4. PlanOK'
      BY <1>2, <2>2, <2>3 DEF ResolveCreate, Goto, PlanOK, Rows
    <2>. QED  BY <2>1, <2>4
  <1>3. ASSUME NEW r \in Request, ResolveDelete(r)
        PROVE  TypeOK' /\ PlanOK'
    BY <1>3 DEF ResolveDelete, Goto, PlanOK, Rows
  <1>4. ASSUME NEW r \in Request, ValidateRow(r)
        PROVE  TypeOK' /\ PlanOK'
    BY <1>4, CallFacts DEF ValidateRow, PlanOK, Rows
  <1>5. ASSUME NEW r \in Request, ResolveImport(r)
        PROVE  TypeOK' /\ PlanOK'
    BY <1>5 DEF ResolveImport, Goto, PlanOK, Rows
  <1>6. ASSUME NEW r \in Request, Begin(r)
        PROVE  TypeOK' /\ PlanOK'
    <2>1. \A i \in fresh[r] : Rows(r)[i].pos \in Nat
      BY RowFacts DEF PlanOK, Row
    <2>2. \A t \in target[r] : t.pos \in Nat
      BY DEF Trade
    <2>3. {Rows(r)[i].pos : i \in fresh[r]} \union {t.pos : t \in target[r]} \in SUBSET Nat
      BY <2>1, <2>2
    <2>4. TypeOK'
      BY <1>6, <2>3 DEF Begin, Goto
    <2>5. PlanOK'
      BY <1>6 DEF Begin, Goto, PlanOK, Rows
    <2>. QED  BY <2>4, <2>5
  <1>7. ASSUME NEW r \in Request, Lock(r)
        PROVE  TypeOK' /\ PlanOK'
    BY <1>7 DEF Lock, PlanOK, Rows
  <1>8. ASSUME NEW r \in Request, AllLocked(r) \/ AllInserted(r) \/ Check(r)
        PROVE  TypeOK' /\ PlanOK'
    BY <1>8 DEF AllLocked, AllInserted, Check, Goto, PlanOK, Rows
  <1>9. ASSUME NEW r \in Request, Insert(r)
        PROVE  TypeOK' /\ PlanOK'
    <2>1. PICK i \in fresh[r], tie \in 1 .. Len(Rows(r)) :
            ins' = [ins EXCEPT ![r] = @ \union {Stamp(Rows(r)[i], at[r], tie, i)}]
      BY <1>9 DEF Insert
    <2>2. Rows(r)[i] \in Row /\ i \in Nat /\ tie \in Nat /\ at[r] \in Nat
      BY RowFacts DEF PlanOK
    <2>3. Stamp(Rows(r)[i], at[r], tie, i) \in Trade
      BY <2>2, StampType
    <2>4. TypeOK'
      BY <1>9, <2>1, <2>3 DEF Insert
    <2>5. PlanOK'
      BY <1>9 DEF Insert, PlanOK, Rows
    <2>. QED  BY <2>4, <2>5
  <1>10. ASSUME NEW r \in Request, Delete(r)
        PROVE  TypeOK' /\ PlanOK'
    BY <1>10 DEF Delete, Goto, PlanOK, Rows
  <1>11. ASSUME NEW r \in Request, Drops(r)
        PROVE  TypeOK' /\ PlanOK'
    <2>1. /\ UNCHANGED <<ledger, covered, clock, plan>>
          /\ seen' = [seen EXCEPT ![r] = {}]
      BY <1>11, DropStep
    <2>2. PICK why \in Ended : Leave(r, why)
      BY <1>11, DropStep
    <2>3. TypeOK'
      BY <2>1, <2>2, LeaveType
    <2>4. pc[r] # "idle"
      BY <1>11, DropsLater
    <2>5. PlanOK'
      BY <2>1, <2>2, <2>4 DEF Leave, Goto, PlanOK, Rows
    <2>. QED  BY <2>3, <2>5
  <1>12. ASSUME NEW r \in Request, StartCut(r) \/ StartUnmark(r)
        PROVE  TypeOK' /\ PlanOK'
    <2>1. PICK phase \in Cutting, table \in {"daily_snapshots", "snapshot_days"} :
            /\ UNCHANGED <<ledger, covered, clock, plan, at, locks, ins, del, taken>>
            /\ pc[r] # "idle" /\ pc' = [pc EXCEPT ![r] = phase]
            /\ seen' = [seen EXCEPT ![r] = CachedFrom(table, r)]
      BY <1>12 DEF StartCut, StartUnmark, Goto
    <2>2. CachedFrom(table, r) \in SUBSET CacheRow
      BY DEF CachedFrom, CacheRow
    <2>3. TypeOK'
      BY <2>1, <2>2
    <2>4. PlanOK'
      BY <2>1 DEF PlanOK, Rows
    <2>. QED  BY <2>3, <2>4
  <1>13. ASSUME NEW r \in Request, TakeRow(r) \/ Invalidated(r)
        PROVE  TypeOK' /\ PlanOK'
    <2>1. TypeOK'
      BY <1>13 DEF TakeRow, Invalidated, Reached, Goto
    <2>2. PlanOK'
      BY <1>13 DEF TakeRow, Invalidated, Goto, PlanOK, Rows
    <2>. QED  BY <2>1, <2>2
  <1>14. ASSUME NEW r \in Request, Commit(r)
        PROVE  TypeOK' /\ PlanOK'
    <2>1. PICK why \in Ended : Leave(r, why)
      BY <1>14 DEF Commit
    <2>2. /\ UNCHANGED <<clock, plan>> /\ pc[r] # "idle"
          /\ ledger' \in SUBSET Trade /\ covered' \subseteq SnapshotDays
      BY <1>14 DEF Commit, View
    <2>3. seen' \in [Proc -> SUBSET CacheRow]
      BY <1>14 DEF Commit, Forget
    <2>4. TypeOK'
      BY <2>1, <2>2, <2>3, LeaveType
    <2>5. PlanOK'
      BY <2>1, <2>2 DEF Leave, Goto, PlanOK, Rows
    <2>. QED  BY <2>4, <2>5
  <1>15. ASSUME NEW n \in Runner, RunStep(n)
        PROVE  TypeOK' /\ PlanOK'
    <2>1. TypeOK'
      BY <1>15, RunSteps
    <2>2. PlanOK'
      BY <1>15, RunSteps DEF PlanOK, Rows
    <2>. QED  BY <2>1, <2>2
  <1>16. CASE UNCHANGED vars
    BY <1>16 DEF vars, PlanOK, Rows
  <1>. QED
    BY <1>1, <1>2, <1>3, <1>4, <1>5, <1>6, <1>7, <1>8, <1>9, <1>10, <1>11, <1>12,
       <1>13, <1>14, <1>15, <1>16
       DEF Next, Serve, Resolve, Write, Invalidate, Drops, RunStep, Terminated

\* Type correctness: every variable keeps its type, whatever the interleaving.
THEOREM TypeCorrect == Spec => [](TypeOK /\ PlanOK)
  <1>. QED  BY InitType, StepType, PTL DEF Spec

-----------------------------------------------------------------------------
(* Locks and uncommitted writes.                                           *)

HeldExclusive ==
    \A r, s \in Request : r # s => held[r] \intersect held[s] = {}

\* A request without a database transaction holds nothing, and one that has
\* got past its lock statements wants nothing more.
Quiet ==
    \A r \in Request :
        /\ pc[r] \notin InTx => want[r] = {} /\ held[r] = {}
        /\ pc[r] \notin InTx \/ pc[r] = "lock" => ins[r] = {} /\ del[r] = {}
        /\ pc[r] \in InTx /\ pc[r] # "lock" => want[r] = {}

\* Every position the call is going to touch is locked or about to be.
LocksCover ==
    \A r \in Request : pc[r] \in InTx =>
        /\ \A i \in fresh[r] : Rows(r)[i].pos \in want[r] \union held[r]
        /\ \A t \in target[r] : t.pos \in want[r] \union held[r]

\* What a request has written lies on positions it has locked, on the days of
\* its call, and carries the time its database transaction began.
WritesConfined ==
    \A r \in Request :
        /\ \A t \in ins[r] : /\ t.pos \in held[r]
                             /\ t.at = at[r]
                             /\ t.day \in {Rows(r)[i].day : i \in DOMAIN Rows(r)}
        /\ ins[r] # {} => fresh[r] # {}
        /\ del[r] \subseteq target[r]
        /\ \A t \in del[r] : t.pos \in held[r]

LockInv == HeldExclusive /\ LockOrder /\ Quiet /\ LocksCover /\ WritesConfined

LEMMA InitLockInv == Init => LockInv
  BY DEF Init, LockInv, HeldExclusive, LockOrder, Quiet, LocksCover, WritesConfined, InTx,
         Taking, Cutting, Proc

LEMMA StepLockInv == TypeOK /\ PlanOK /\ LockInv /\ [Next]_vars => LockInv'
  <1> SUFFICES ASSUME TypeOK, PlanOK, LockInv, [Next]_vars
               PROVE  LockInv'
    OBVIOUS
  <1> USE DEF InTx, Taking, Cutting, Ended, plan, work, locks, cache, Rows, Proc
  <1>1. ASSUME NEW r \in Request, Submit(r) \/ Resolve(r)
        PROVE  LockInv'
    <2>1. UNCHANGED work /\ pc[r] \notin InTx /\ pc'[r] \notin InTx
      BY <1>1 DEF Submit, Resolve, ResolveCreate, ResolveDelete, ValidateRow,
         ResolveImport, Goto, TypeOK
    <2>2. \A s \in Request \ {r} : /\ pc'[s] = pc[s] /\ call'[s] = call[s]
                                  /\ fresh'[s] = fresh[s] /\ target'[s] = target[s]
      BY <1>1 DEF Submit, Resolve, ResolveCreate, ResolveDelete, ValidateRow,
         ResolveImport, Goto, TypeOK
    <2>3. ins[r] = {} /\ del[r] = {}
      BY <2>1 DEF LockInv, Quiet
    <2>4. HeldExclusive' /\ LockOrder'
      BY <2>1 DEF LockInv, HeldExclusive, LockOrder
    <2>5. Quiet' /\ LocksCover'
      BY <2>1, <2>2 DEF LockInv, Quiet, LocksCover
    <2>6. WritesConfined'
      BY <2>1, <2>2, <2>3 DEF LockInv, WritesConfined
    <2>. QED  BY <2>4, <2>5, <2>6 DEF LockInv
  <1>2. ASSUME NEW r \in Request, Begin(r)
        PROVE  LockInv'
    <2>1. /\ pc[r] = "begin" /\ pc' = [pc EXCEPT ![r] = "lock"]
          /\ UNCHANGED <<held, ins, del, plan>>
          /\ at' = [at EXCEPT ![r] = clock]
          /\ want' = [want EXCEPT ![r] = {Rows(r)[i].pos : i \in fresh[r]}
                                         \union {t.pos : t \in target[r]}]
      BY <1>2 DEF Begin, Goto
    <2>2. held[r] = {} /\ ins[r] = {} /\ del[r] = {}
      BY <2>1 DEF LockInv, Quiet
    <2>3. HeldExclusive' /\ LockOrder'
      BY <2>1, <2>2 DEF LockInv, HeldExclusive, LockOrder, TypeOK
    <2>4. Quiet' /\ LocksCover'
      BY <2>1, <2>2 DEF LockInv, Quiet, LocksCover, TypeOK
    <2>5. WritesConfined'
      BY <2>1, <2>2 DEF LockInv, WritesConfined, TypeOK
    <2>. QED  BY <2>3, <2>4, <2>5 DEF LockInv
  <1>3. ASSUME NEW r \in Request, Lock(r)
        PROVE  LockInv'
    <2>1. PICK p \in want[r] :
            /\ \A q \in want[r] : p <= q
            /\ \A s \in Request : p \notin held[s]
            /\ held' = [held EXCEPT ![r] = @ \union {p}]
            /\ want' = [want EXCEPT ![r] = @ \ {p}]
      BY <1>3 DEF Lock
    <2>2. pc[r] = "lock" /\ UNCHANGED <<pc, plan, at, ins, del>>
      BY <1>3 DEF Lock
    <2>3. HeldExclusive'
      BY <2>1 DEF LockInv, HeldExclusive, TypeOK
    <2>4. LockOrder'
      BY <2>1 DEF LockInv, LockOrder, TypeOK
    <2>5. Quiet' /\ LocksCover'
      BY <2>1, <2>2 DEF LockInv, Quiet, LocksCover, TypeOK
    <2>6. WritesConfined'
      BY <2>1, <2>2 DEF LockInv, WritesConfined, TypeOK
    <2>. QED  BY <2>3, <2>4, <2>5, <2>6 DEF LockInv
  <1>4. ASSUME NEW r \in Request,
               \/ AllLocked(r) \/ AllInserted(r) \/ Check(r)
               \/ StartCut(r) \/ StartUnmark(r) \/ Invalidated(r)
        PROVE  LockInv'
    <2>1. UNCHANGED <<plan, at, want, held, ins, del>>
      BY <1>4 DEF AllLocked, AllInserted, Check, StartCut, StartUnmark, Invalidated
    <2>2. PICK phase \in InTx \ {"lock"} : pc' = [pc EXCEPT ![r] = phase]
      BY <1>4 DEF AllLocked, AllInserted, Check, StartCut, StartUnmark, Invalidated, Goto
    <2>3. pc[r] \in InTx /\ (pc[r] = "lock" => want[r] = {})
      BY <1>4 DEF AllLocked, AllInserted, Check, StartCut, StartUnmark, Invalidated
    <2>4. HeldExclusive' /\ LockOrder'
      BY <2>1 DEF LockInv, HeldExclusive, LockOrder
    <2>5. Quiet'
      BY <2>1, <2>2, <2>3 DEF LockInv, Quiet, TypeOK
    <2>6. LocksCover'
      BY <2>1, <2>2, <2>3 DEF LockInv, LocksCover, TypeOK
    <2>7. WritesConfined'
      BY <2>1 DEF LockInv, WritesConfined
    <2>. QED  BY <2>4, <2>5, <2>6, <2>7 DEF LockInv
  <1>5. ASSUME NEW r \in Request, Insert(r)
        PROVE  LockInv'
    <2>1. PICK i \in fresh[r], tie \in 1 .. Len(Rows(r)) :
            ins' = [ins EXCEPT ![r] = @ \union {Stamp(Rows(r)[i], at[r], tie, i)}]
      BY <1>5 DEF Insert
    <2>2. pc[r] = "write" /\ UNCHANGED <<pc, plan, at, want, held, del>>
      BY <1>5 DEF Insert
    <2>3. i \in DOMAIN Rows(r) /\ Rows(r)[i] \in Row /\ i \in Nat /\ tie \in Nat
      BY RowFacts DEF PlanOK
    <2> DEFINE t == Stamp(Rows(r)[i], at[r], tie, i)
    <2>4. t.pos = Rows(r)[i].pos /\ t.day = Rows(r)[i].day /\ t.at = at[r]
      BY DEF Stamp
    <2>5. t.pos \in held[r]
      BY <2>2, <2>4 DEF LockInv, Quiet, LocksCover
    <2>6. HeldExclusive' /\ LockOrder' /\ Quiet' /\ LocksCover'
      BY <2>1, <2>2 DEF LockInv, HeldExclusive, LockOrder, Quiet, LocksCover, TypeOK
    <2>7. WritesConfined'
      <3>1. ins'[r] = ins[r] \union {t} /\ \A s \in Request \ {r} : ins'[s] = ins[s]
        BY <2>1 DEF TypeOK
      <3>2. fresh'[r] # {}
        BY <2>1, <2>2
      <3>. QED
        BY <2>2, <2>3, <2>4, <2>5, <3>1, <3>2 DEF LockInv, WritesConfined
    <2>. QED  BY <2>6, <2>7 DEF LockInv
  <1>6. ASSUME NEW r \in Request, Delete(r)
        PROVE  LockInv'
    <2>1. /\ pc[r] = "write" /\ UNCHANGED <<plan, at, want, held, ins>>
          /\ pc' = [pc EXCEPT ![r] = "check"]
          /\ del' = [del EXCEPT ![r] = target[r]]
      BY <1>6 DEF Delete, Goto
    <2>2. \A t \in target[r] : t.pos \in held[r]
      BY <2>1 DEF LockInv, Quiet, LocksCover
    <2>3. HeldExclusive' /\ LockOrder' /\ Quiet' /\ LocksCover'
      BY <2>1 DEF LockInv, HeldExclusive, LockOrder, Quiet, LocksCover, TypeOK
    <2>4. WritesConfined'
      BY <2>1, <2>2 DEF LockInv, WritesConfined, TypeOK
    <2>. QED  BY <2>3, <2>4 DEF LockInv
  <1>7. ASSUME NEW r \in Request, NEW why \in Ended, Leave(r, why), UNCHANGED plan
        PROVE  LockInv'
    <2>1. /\ pc' = [pc EXCEPT ![r] = why]
          /\ want' = [want EXCEPT ![r] = {}]
          /\ held' = [held EXCEPT ![r] = {}]
          /\ ins' = [ins EXCEPT ![r] = {}]
          /\ del' = [del EXCEPT ![r] = {}]
          /\ UNCHANGED <<plan, at>>
      BY <1>7 DEF Leave, Goto
    <2>2. HeldExclusive'
      BY <2>1 DEF LockInv, HeldExclusive, TypeOK
    <2>3. LockOrder'
      BY <2>1 DEF LockInv, LockOrder, TypeOK
    <2>4. Quiet'
      BY <2>1 DEF LockInv, Quiet, TypeOK
    <2>5. LocksCover'
      BY <2>1 DEF LockInv, LocksCover, TypeOK
    <2>6. WritesConfined'
      BY <2>1 DEF LockInv, WritesConfined, TypeOK
    <2>. QED  BY <2>2, <2>3, <2>4, <2>5, <2>6 DEF LockInv
  <1>8. ASSUME NEW r \in Request, Drops(r) \/ Commit(r)
        PROVE  LockInv'
    <2>1. UNCHANGED plan
      BY <1>8, DropStep DEF Commit
    <2>2. PICK why \in Ended : Leave(r, why)
      BY <1>8, DropStep DEF Commit
    <2>. QED  BY <1>7, <2>1, <2>2
  <1>9. ASSUME UNCHANGED <<plan, at, locks, ins, del>>,
               \A s \in Request : pc'[s] = pc[s]
        PROVE  LockInv'
    BY <1>9 DEF LockInv, HeldExclusive, LockOrder, Quiet, LocksCover, WritesConfined
  <1>10. ASSUME NEW r \in Request, TakeRow(r)
        PROVE  LockInv'
    BY <1>9, <1>10 DEF TakeRow
  <1>11. ASSUME NEW n \in Runner, RunStep(n)
        PROVE  LockInv'
    BY <1>9, <1>11, RunSteps
  <1>12. CASE UNCHANGED vars
    BY <1>9, <1>12 DEF vars
  <1>. QED
    BY <1>1, <1>2, <1>3, <1>4, <1>5, <1>6, <1>8, <1>10, <1>11, <1>12
       DEF Next, Serve, Write, Invalidate, Drops, RunStep, Terminated

-----------------------------------------------------------------------------
(* The cached rows. *)

\* Runs have their one place inside a database transaction, requests another.
RunPlaces ==
    /\ \A n \in Runner : pc[n] \in {"idle", "renew", "ok", "failed"}
    /\ \A r \in Request : pc[r] # "renew"

\* Cached rows are taken on the way from the first DELETE to the commit.
TakenOnTheWay ==
    \A x \in Proc : taken[x] # {} => pc[x] \in Taking \union {"commit"}

Marker(d) == [table |-> "snapshot_days", day |-> d]

\* Past its invalidation, a request has taken the marker of every day that its
\* changes make wrong, and before that it has it before it; nothing adds a day
\* in between.
CutsEnough ==
    \A r \in Request : \A t \in ins[r] \union del[r] : \A d \in covered :
        t.day <= d => /\ pc[r] = "cutDays" => Marker(d) \in seen[r] \union taken[r]
                      /\ pc[r] = "commit" => Marker(d) \in taken[r]

CacheInv == RunPlaces /\ TakenOnTheWay /\ CutsEnough

LEMMA InitCacheInv == Init => CacheInv
  BY RunnerAssumption DEF Init, CacheInv, RunPlaces, TakenOnTheWay, CutsEnough, Proc

\* A step of one request that is not at its commit, and leaves alone the places
\* of the others and what they have in hand.
LEMMA OwnCacheStep ==
    ASSUME TypeOK, CacheInv, NEW r \in Request,
           covered' \subseteq covered,
           pc'[r] # "renew",
           taken'[r] # {} => pc'[r] \in Taking \union {"commit"},
           \A x \in Proc \ {r} : pc'[x] = pc[x] /\ taken'[x] = taken[x],
           \A s \in Request \ {r} : /\ ins'[s] = ins[s] /\ del'[s] = del[s]
                                   /\ \A d \in covered' :
                                         Marker(d) \in seen[s] => Marker(d) \in seen'[s],
           \A t \in ins'[r] \union del'[r] : \A d \in covered' :
               t.day <= d => /\ pc'[r] = "cutDays" => Marker(d) \in seen'[r] \union taken'[r]
                             /\ pc'[r] = "commit" => Marker(d) \in taken'[r]
    PROVE  CacheInv'
  <1>1. RunPlaces'
    BY RunnerAssumption DEF CacheInv, RunPlaces, Proc
  <1>2. TakenOnTheWay'
    BY DEF CacheInv, TakenOnTheWay
  <1>3. CutsEnough'
    <2> SUFFICES ASSUME NEW s \in Request, NEW t \in ins'[s] \union del'[s],
                        NEW d \in covered', t.day <= d
                 PROVE  /\ pc'[s] = "cutDays" => Marker(d) \in seen'[s] \union taken'[s]
                        /\ pc'[s] = "commit" => Marker(d) \in taken'[s]
      BY DEF CutsEnough, Marker
    <2>1. CASE s = r
      BY <2>1
    <2>2. CASE s # r
      BY <2>2 DEF CacheInv, CutsEnough, Proc
    <2>. QED  BY <2>1, <2>2
  <1>. QED  BY <1>1, <1>2, <1>3 DEF CacheInv

LEMMA StepCacheInv == TypeOK /\ LockInv /\ CacheInv /\ [Next]_vars => CacheInv'
  <1> SUFFICES ASSUME TypeOK, LockInv, CacheInv, [Next]_vars
               PROVE  CacheInv'
    OBVIOUS
  <1> USE DEF TypeOK, plan, work, locks, cache, Proc
  <1> DEFINE Early == {"idle", "resolve", "begin", "lock", "write", "check", "invalidate"}
  <1>1. ASSUME NEW r \in Request,
               \/ Submit(r) \/ Resolve(r) \/ Begin(r) \/ Lock(r) \/ AllLocked(r)
               \/ Insert(r) \/ Delete(r) \/ AllInserted(r) \/ Check(r)
        PROVE  CacheInv'
    <2>1. /\ UNCHANGED <<covered, seen, taken>>
          /\ pc[r] \in Early /\ pc'[r] \in Early \union Ended
          /\ \A x \in Proc \ {r} : pc'[x] = pc[x]
          /\ \A s \in Request \ {r} : ins'[s] = ins[s] /\ del'[s] = del[s]
      BY <1>1 DEF Submit, Resolve, ResolveCreate, ResolveDelete, ValidateRow, ResolveImport,
         Begin, Lock, AllLocked, Insert, Delete, AllInserted, Check, Goto, Ended
    <2>2. taken[r] = {}
      BY <2>1 DEF CacheInv, TakenOnTheWay, Taking, Cutting
    <2>3. pc'[r] \notin {"renew", "cutDays", "commit"}
      BY <2>1 DEF Ended
    <2>. QED  BY <2>1, <2>2, <2>3, OwnCacheStep
  <1>2. ASSUME NEW r \in Request, StartCut(r)
        PROVE  CacheInv'
    <2>1. /\ UNCHANGED <<covered, ins, del, taken>>
          /\ pc[r] = "invalidate" /\ pc' = [pc EXCEPT ![r] = "cutDaily"]
          /\ \A s \in Request \ {r} : seen'[s] = seen[s]
      BY <1>2 DEF StartCut, Goto
    <2>2. taken[r] = {}
      BY <2>1 DEF CacheInv, TakenOnTheWay, Taking, Cutting
    <2>. QED  BY <2>1, <2>2, OwnCacheStep
  <1>3. ASSUME NEW r \in Request, StartUnmark(r)
        PROVE  CacheInv'
    <2>1. /\ UNCHANGED <<covered, call, target, ins, del, taken>>
          /\ pc[r] = "cutDaily" /\ pc' = [pc EXCEPT ![r] = "cutDays"]
          /\ seen' = [seen EXCEPT ![r] = CachedFrom("snapshot_days", r)]
      BY <1>3 DEF StartUnmark, Goto
    <2>2. \A t \in ins[r] \union del[r] : t.day \in TradeDays(r)
      <3>1. \A t \in ins[r] : t.day \in {Rows(r)[i].day : i \in DOMAIN Rows(r)}
        BY DEF LockInv, WritesConfined
      <3>2. \A t \in del[r] : t \in target[r]
        BY DEF LockInv, WritesConfined
      <3>. QED  BY <3>1, <3>2 DEF TradeDays
    <2>3. ASSUME NEW t \in ins[r] \union del[r], NEW d \in covered, t.day <= d
          PROVE  Marker(d) \in seen'[r]
      <3>1. Marker(d) \in CachedFrom("snapshot_days", r)
        BY <2>2, <2>3 DEF CachedFrom, Marker
      <3>. QED  BY <2>1, <3>1
    <2>4. \A s \in Request \ {r} : seen'[s] = seen[s]
      BY <2>1
    <2>5. pc'[r] = "cutDays" /\ \A x \in Proc \ {r} : pc'[x] = pc[x]
      BY <2>1
    <2>. QED  BY <2>1, <2>3, <2>4, <2>5, OwnCacheStep DEF Taking, Cutting
  <1>4. ASSUME NEW r \in Request, TakeRow(r)
        PROVE  CacheInv'
    <2>1. PICK row \in seen[r] : /\ seen' = [seen EXCEPT ![r] = @ \ {row}]
                                /\ taken' = [taken EXCEPT ![r] = @ \union {row}]
      BY <1>4 DEF TakeRow, Reached
    <2>2. UNCHANGED <<covered, ins, del, pc>> /\ pc[r] \in Taking
      BY <1>4 DEF TakeRow
    <2>3. /\ seen'[r] \union taken'[r] = seen[r] \union taken[r]
          /\ \A x \in Proc \ {r} : seen'[x] = seen[x] /\ taken'[x] = taken[x]
      BY <2>1
    <2>4. pc[r] # "commit" /\ pc[r] # "renew"
      BY <2>2 DEF CacheInv, RunPlaces, Taking, Cutting
    <2>5. ASSUME NEW t \in ins[r] \union del[r], NEW d \in covered, t.day <= d
          PROVE  pc[r] = "cutDays" => Marker(d) \in seen'[r] \union taken'[r]
      BY <2>3, <2>5 DEF CacheInv, CutsEnough
    <2>. QED  BY <2>2, <2>3, <2>4, <2>5, OwnCacheStep
  <1>5. ASSUME NEW r \in Request, Invalidated(r)
        PROVE  CacheInv'
    <2>1. /\ UNCHANGED <<covered, ins, del, seen, taken>>
          /\ pc[r] = "cutDays" /\ seen[r] = {} /\ pc' = [pc EXCEPT ![r] = "commit"]
      BY <1>5 DEF Invalidated, Goto
    <2>2. ASSUME NEW t \in ins[r] \union del[r], NEW d \in covered, t.day <= d
          PROVE  Marker(d) \in taken[r]
      BY <2>1, <2>2 DEF CacheInv, CutsEnough
    <2>3. pc'[r] = "commit" /\ \A x \in Proc \ {r} : pc'[x] = pc[x]
      BY <2>1
    <2>. QED  BY <2>1, <2>2, <2>3, OwnCacheStep
  <1>6. ASSUME NEW r \in Request, NEW why \in Ended, Leave(r, why),
               covered' \subseteq covered,
               \A s \in Request \ {r} : \A d \in covered' :
                   Marker(d) \in seen[s] => Marker(d) \in seen'[s]
        PROVE  CacheInv'
    <2>1. /\ pc'[r] \in Ended /\ \A x \in Proc \ {r} : pc'[x] = pc[x]
          /\ taken'[r] = {} /\ \A x \in Proc \ {r} : taken'[x] = taken[x]
          /\ ins'[r] = {} /\ del'[r] = {}
          /\ \A s \in Request \ {r} : ins'[s] = ins[s] /\ del'[s] = del[s]
      BY <1>6 DEF Leave, Goto
    <2>2. pc'[r] \notin {"renew", "cutDays", "commit"}
      BY <2>1 DEF Ended
    <2>. QED  BY <1>6, <2>1, <2>2, OwnCacheStep
  <1>7. ASSUME NEW r \in Request, Drops(r)
        PROVE  CacheInv'
    <2>1. /\ UNCHANGED covered /\ seen' = [seen EXCEPT ![r] = {}]
          /\ \E why \in Ended : Leave(r, why)
      BY <1>7, DropStep
    <2>2. \A s \in Request \ {r} : seen'[s] = seen[s]
      BY <2>1
    <2>. QED  BY <1>6, <2>1, <2>2
  <1>8. ASSUME NEW r \in Request, Commit(r)
        PROVE  CacheInv'
    <2>1. /\ covered' = {d \in covered : Marker(d) \notin taken[r]}
          /\ \E why \in Ended : Leave(r, why)
      BY <1>8 DEF Commit, Ended, Marker
    <2>2. \A s \in Request \ {r} : seen'[s] = seen[s] \ taken[r]
      BY <1>8 DEF Commit, Forget
    <2>3. \A s \in Request \ {r} : \A d \in covered' :
              Marker(d) \in seen[s] => Marker(d) \in seen'[s]
      BY <2>1, <2>2
    <2>. QED  BY <1>6, <2>1, <2>3
  <1>9. ASSUME NEW n \in Runner, RunStep(n)
        PROVE  CacheInv'
    <2>1. /\ UNCHANGED <<covered, ins, del>>
          /\ \A r \in Request :
                 /\ pc'[r] = pc[r] /\ taken'[r] = taken[r]
                 /\ \A row \in seen[r] : row.table = "snapshot_days" => row \in seen'[r]
      BY <1>9, RunSteps
    <2>2. CutsEnough'
      <3>1. \A d : Marker(d).table = "snapshot_days"
        BY DEF Marker
      <3>. QED  BY <2>1, <3>1 DEF CacheInv, CutsEnough, Marker
    <2>3. /\ pc'[n] \in {"idle", "renew", "ok", "failed"}
          /\ taken'[n] # {} => pc'[n] \in Taking
          /\ \A x \in Proc \ {n} : pc'[x] = pc[x] /\ taken'[x] = taken[x]
      <3>1. pc[n] \in {"idle", "renew", "ok", "failed"} /\ n \in Proc
        BY DEF CacheInv, RunPlaces
      <3>2. CASE StartRun(n)
        <4>1. taken[n] = {}
          BY <3>1, <3>2 DEF CacheInv, TakenOnTheWay, StartRun, Taking, Cutting
        <4>. QED  BY <3>2, <4>1 DEF StartRun, Goto
      <3>3. CASE TakeRow(n)
        <4>1. PICK row : taken' = [taken EXCEPT ![n] = @ \union {row}]
          BY <3>3 DEF TakeRow
        <4>2. UNCHANGED pc /\ pc[n] \in Taking
          BY <3>3 DEF TakeRow
        <4>. QED  BY <3>1, <4>1, <4>2
      <3>4. CASE CommitRun(n) \/ FailRun(n) \/ RunAbort(n)
        BY <3>1, <3>4 DEF CommitRun, FailRun, RunAbort, Goto
      <3>. QED  BY <1>9, <3>2, <3>3, <3>4 DEF RunStep, Renew
    <2>4. RunPlaces'
      BY <2>1, <2>3 DEF CacheInv, RunPlaces
    <2>5. TakenOnTheWay'
      BY <2>3 DEF CacheInv, TakenOnTheWay
    <2>. QED  BY <2>2, <2>4, <2>5 DEF CacheInv
  <1>10. CASE UNCHANGED vars
    BY <1>10 DEF vars, CacheInv, RunPlaces, TakenOnTheWay, CutsEnough
  <1>. QED
    BY <1>1, <1>2, <1>3, <1>4, <1>5, <1>7, <1>8, <1>9, <1>10
       DEF Next, Serve, Write, Invalidate, Drops, RunStep, Terminated

-----------------------------------------------------------------------------
(* The fold. *)

\* Past its fold, a request sees histories that can be folded on every position
\* it has locked.
PastFold == {"invalidate", "commit"} \union Cutting
Folded == \A r \in Request : pc[r] \in PastFold => PositionsFit(r)

IInv == TypeOK /\ PlanOK /\ LockInv /\ CacheInv /\ NoOversell /\ Folded

\* A commit changes exactly the committer's rows, on positions it has locked.
LEMMA CommitEffect ==
    ASSUME IInv, NEW r \in Request, Commit(r)
    PROVE  /\ pc[r] = "commit"
           /\ ledger' \ ledger \subseteq ins[r]
           /\ ledger \ ledger' \subseteq del[r]
           /\ \A p : p \in held[r] => OnPosition(ledger', p) = OnPosition(View(r), p)
           /\ \A p : p \notin held[r] => OnPosition(ledger', p) = OnPosition(ledger, p)
  <1>1. pc[r] = "commit" /\ ledger' = View(r)
    BY DEF Commit
  <1>2. \A t \in ins[r] \union del[r] : t.pos \in held[r]
    BY DEF IInv, LockInv, WritesConfined
  <1>. QED  BY <1>1, <1>2 DEF View, OnPosition

\* Whatever somebody else commits, a request sees the same rows on the positions
\* it has locked.
LEMMA OthersKeepView ==
    ASSUME IInv, NEW r \in Request, NEW s \in Request, r # s, Commit(r),
           NEW p \in held[s]
    PROVE  (OnPosition(View(s), p))' = OnPosition(View(s), p)
  <1>1. p \notin held[r]
    BY DEF IInv, LockInv, HeldExclusive
  <1>2. OnPosition(ledger', p) = OnPosition(ledger, p)
    BY <1>1, CommitEffect
  <1>3. ins'[s] = ins[s] /\ del'[s] = del[s]
    BY DEF Commit, Leave, IInv, TypeOK
  <1>. QED  BY <1>2, <1>3 DEF View, OnPosition

LEMMA InitIInv == Init => IInv
  <1> SUFFICES ASSUME Init PROVE IInv
    OBVIOUS
  <1>1. NoOversell
    BY InitialAssumption DEF Init, NoOversell
  <1>2. Folded
    BY DEF Init, Folded, PastFold, Cutting, Proc
  <1>. QED  BY <1>1, <1>2, InitType, InitLockInv, InitCacheInv DEF IInv

\* A step that commits nothing leaves the committed table as it is, and can
\* disturb the fold of its own request only.
LEMMA StepWithoutCommit ==
    ASSUME IInv, NEW r \in Request,
           UNCHANGED ledger,
           \A s \in Request \ {r} : /\ pc'[s] = pc[s] /\ held'[s] = held[s]
                                   /\ ins'[s] = ins[s] /\ del'[s] = del[s],
           pc'[r] \in PastFold => PositionsFit(r)'
    PROVE  NoOversell' /\ Folded'
  <1>1. NoOversell'
    BY DEF IInv, NoOversell
  <1>2. Folded'
    BY DEF IInv, Folded, PositionsFit, View
  <1>. QED  BY <1>1, <1>2

LEMMA StepIInv == IInv /\ [Next]_vars => IInv'
  <1> SUFFICES ASSUME IInv, [Next]_vars
               PROVE  IInv'
    OBVIOUS
  <1>1. TypeOK' /\ PlanOK' /\ LockInv' /\ CacheInv'
    BY StepType, StepLockInv, StepCacheInv DEF IInv
  <1> USE DEF Ended, plan, work, locks, cache, Proc
  <1>2. ASSUME NEW r \in Request,
               Submit(r) \/ Resolve(r) \/ Begin(r) \/ Lock(r) \/ AllLocked(r)
        PROVE  NoOversell' /\ Folded'
    <2>1. /\ UNCHANGED <<ledger, ins, del>>
          /\ pc'[r] \notin PastFold
          /\ \A s \in Request \ {r} : pc'[s] = pc[s] /\ held'[s] = held[s]
      BY <1>2 DEF Submit, Resolve, ResolveCreate, ResolveDelete, ValidateRow, ResolveImport,
         Begin, Lock, AllLocked, Goto, IInv, TypeOK, PastFold, Cutting
    <2>. QED  BY <2>1, StepWithoutCommit
  <1>3. ASSUME NEW r \in Request, Insert(r) \/ Delete(r) \/ AllInserted(r)
        PROVE  NoOversell' /\ Folded'
    <2>1. /\ UNCHANGED <<ledger, held>>
          /\ pc'[r] \notin PastFold
          /\ \A s \in Request \ {r} : pc'[s] = pc[s] /\ ins'[s] = ins[s] /\ del'[s] = del[s]
      BY <1>3 DEF Insert, Delete, AllInserted, Goto, IInv, TypeOK, PastFold, Cutting
    <2>. QED  BY <2>1, StepWithoutCommit
  <1>4. ASSUME NEW r \in Request, Check(r) \/ Invalidate(r)
        PROVE  NoOversell' /\ Folded'
    <2>1. /\ UNCHANGED <<ledger, held, ins, del>>
          /\ \A s \in Request \ {r} : pc'[s] = pc[s]
      BY <1>4 DEF Check, Invalidate, StartCut, TakeRow, StartUnmark, Invalidated, Goto,
         IInv, TypeOK
    <2>2. PositionsFit(r)
      <3>1. CASE Check(r)
        BY <3>1 DEF Check
      <3>2. CASE Invalidate(r)
        <4>1. pc[r] \in PastFold
          BY <3>2 DEF Invalidate, StartCut, TakeRow, StartUnmark, Invalidated, PastFold,
             Cutting, Taking, IInv, CacheInv, RunPlaces
        <4>. QED  BY <4>1 DEF IInv, Folded
      <3>. QED  BY <1>4, <3>1, <3>2
    <2>3. PositionsFit(r)'
      BY <2>1, <2>2 DEF PositionsFit, View
    <2>. QED  BY <2>1, <2>3, StepWithoutCommit
  <1>5. ASSUME NEW r \in Request, NEW why \in Ended, Leave(r, why)
        PROVE  /\ pc'[r] \notin PastFold
               /\ \A s \in Request \ {r} : /\ pc'[s] = pc[s] /\ held'[s] = held[s]
                                           /\ ins'[s] = ins[s] /\ del'[s] = del[s]
    BY <1>5 DEF Leave, Goto, IInv, TypeOK, PastFold, Cutting
  <1>6. ASSUME NEW r \in Request, Drops(r)
        PROVE  NoOversell' /\ Folded'
    <2>1. UNCHANGED ledger /\ \E why \in Ended : Leave(r, why)
      BY <1>6, DropStep
    <2>. QED  BY <1>5, <2>1, StepWithoutCommit
  <1>7. ASSUME NEW r \in Request, Commit(r)
        PROVE  NoOversell' /\ Folded'
    <2>1. PICK why \in Ended : Leave(r, why)
      BY <1>7 DEF Commit
    <2>2. /\ pc'[r] \notin PastFold
          /\ \A s \in Request \ {r} : pc'[s] = pc[s] /\ held'[s] = held[s]
      BY <1>5, <2>1
    <2>3. NoOversell'
      <3> SUFFICES ASSUME NEW p \in Position
                   PROVE  Fits(OnPosition(ledger', p))
        BY DEF NoOversell
      <3>1. CASE p \in held[r]
        BY <1>7, <3>1, CommitEffect DEF IInv, Folded, PositionsFit, PastFold
      <3>2. CASE p \notin held[r]
        BY <1>7, <3>2, CommitEffect DEF IInv, NoOversell
      <3>. QED  BY <3>1, <3>2
    <2>4. Folded'
      <3> SUFFICES ASSUME NEW s \in Request, pc'[s] \in PastFold,
                          NEW p \in held'[s]
                   PROVE  Fits((OnPosition(View(s), p))')
        BY DEF Folded, PositionsFit, PastFold, Cutting
      <3>1. s # r /\ pc[s] \in PastFold /\ p \in held[s]
        BY <2>2
      <3>2. (OnPosition(View(s), p))' = OnPosition(View(s), p)
        BY <1>7, <3>1, OthersKeepView
      <3>. QED  BY <3>1, <3>2 DEF IInv, Folded, PositionsFit
    <2>. QED  BY <2>3, <2>4
  <1>8. ASSUME UNCHANGED <<ledger, held, ins, del>>, \A s \in Request : pc'[s] = pc[s]
        PROVE  NoOversell' /\ Folded'
    <2>1. \A s \in Request : PositionsFit(s)' = PositionsFit(s)
      BY <1>8 DEF PositionsFit, View
    <2>. QED  BY <1>8, <2>1 DEF IInv, NoOversell, Folded, PastFold
  <1>9. ASSUME NEW n \in Runner, RunStep(n)
        PROVE  NoOversell' /\ Folded'
    BY <1>8, <1>9, RunSteps DEF IInv
  <1>10. ASSUME UNCHANGED vars
         PROVE  NoOversell' /\ Folded'
    BY <1>8, <1>10 DEF vars
  <1>11. NoOversell' /\ Folded'
    BY <1>2, <1>3, <1>4, <1>6, <1>7, <1>9, <1>10
       DEF Next, Serve, Write, Drops, RunStep, Terminated
  <1>. QED  BY <1>1, <1>11 DEF IInv

LEMMA Inductive == Spec => []IInv
  <1>. QED  BY InitIInv, StepIInv, PTL DEF Spec

\* No interleaving of creates, deletes and imports commits a history in which a
\* sale exceeds what the position holds.
THEOREM NeverOversold == Spec => []NoOversell
  <1>1. IInv => NoOversell
    BY DEF IInv
  <1>. QED  BY <1>1, Inductive, PTL

\* Advisory locks are requested in ascending order by every request, which
\* rules out a cycle of requests that wait for each other's.
THEOREM LocksAscend == Spec => []LockOrder
  <1>1. IInv => LockOrder
    BY DEF IInv, LockInv
  <1>. QED  BY <1>1, Inductive, PTL

-----------------------------------------------------------------------------
(* Deadlocks. *)

\* A row that a request has inserted is one of those it has to insert.
LinesOK == \A r \in Request : \A t \in ins[r] : t.line \in fresh[r]

LEMMA StepLinesOK == IInv /\ LinesOK /\ [Next]_vars => LinesOK'
  <1> SUFFICES ASSUME IInv, LinesOK, [Next]_vars
               PROVE  LinesOK'
    OBVIOUS
  <1> USE DEF plan, work, locks, cache, IInv, TypeOK
  <1>1. ASSUME NEW r \in Request, Submit(r) \/ Resolve(r)
        PROVE  LinesOK'
    <2>1. pc[r] \notin InTx /\ UNCHANGED ins
      BY <1>1 DEF Submit, Resolve, ResolveCreate, ResolveDelete, ValidateRow, ResolveImport,
         InTx, Taking, Cutting
    <2>2. ins[r] = {}
      BY <2>1 DEF LockInv, Quiet
    <2>3. \A s \in Request \ {r} : fresh'[s] = fresh[s]
      BY <1>1 DEF Submit, Resolve, ResolveCreate, ResolveDelete, ValidateRow, ResolveImport
    <2>. QED  BY <2>1, <2>2, <2>3 DEF LinesOK
  <1>2. ASSUME fresh' = fresh, \A s \in Request : ins'[s] \subseteq ins[s]
        PROVE  LinesOK'
    BY <1>2 DEF LinesOK
  <1>3. ASSUME NEW r \in Request,
               \/ Begin(r) \/ Lock(r) \/ AllLocked(r) \/ Delete(r) \/ AllInserted(r)
               \/ Check(r) \/ Invalidate(r)
        PROVE  UNCHANGED <<fresh, ins>>
    BY <1>3 DEF Begin, Lock, AllLocked, Delete, AllInserted, Check, Invalidate, StartCut,
       TakeRow, StartUnmark, Invalidated
  <1>4. ASSUME NEW r \in Request, Drops(r) \/ Commit(r)
        PROVE  fresh' = fresh /\ ins' = [ins EXCEPT ![r] = {}]
    BY <1>4, DropStep DEF Commit, Leave
  <1>5. ASSUME NEW r \in Request, Insert(r)
        PROVE  LinesOK'
    <2>1. PICK i \in fresh[r], tie \in 1 .. Len(Rows(r)) :
            ins' = [ins EXCEPT ![r] = @ \union {Stamp(Rows(r)[i], at[r], tie, i)}]
      BY <1>5 DEF Insert
    <2>2. fresh' = fresh
      BY <1>5 DEF Insert
    <2>3. Stamp(Rows(r)[i], at[r], tie, i).line = i
      BY DEF Stamp
    <2>. QED  BY <2>1, <2>2, <2>3 DEF LinesOK
  <1>6. ASSUME NEW n \in Runner, RunStep(n)
        PROVE  UNCHANGED <<fresh, ins>>
    BY <1>6, RunSteps
  <1>7. CASE UNCHANGED vars
    BY <1>2, <1>7 DEF vars
  <1>. QED
    BY <1>1, <1>2, <1>3, <1>4, <1>5, <1>6, <1>7
       DEF Next, Serve, Write, Drops, RunStep, Terminated

\* Everybody whom `x` waits for, and whom these wait for, is in S.
Closed(S, x) == \A y \in S \union {x} : \A z \in Proc : WaitsFor(y, z) => z \in S

LEMMA NotDeadlocked ==
    ASSUME NEW x, NEW S \in SUBSET Proc, Closed(S, x), x \notin S
    PROVE  ~Deadlocked(x)
  BY DEF Deadlocked, Closed

\* Requests that are not at their locks, and runs: no wait of theirs is for a lock.
Past == {y \in Proc : pc[y] # "lock"}

\* Who is waited for has written something, or is waited for by one at its locks.
LEMMA Awaited ==
    ASSUME IInv, NEW x \in Proc, NEW y \in Proc, WaitsFor(x, y), pc[x] # "lock"
    PROVE  /\ pc[x] = "write" \/ pc[x] \in Taking
           /\ pc[x] = "write" => /\ y \in Request /\ ins[y] \union del[y] # {}
                                 /\ \E i \in fresh[x] : NextRow(x, i) /\ Rows(x)[i].ext # NoExt
           /\ pc[x] \in Taking => taken[y] # {}
           /\ pc[y] # "lock"
  <1>1. CASE pc[x] = "write"
    <2>1. /\ x \in Request /\ y \in Request
          /\ \E i \in fresh[x] : NextRow(x, i) /\ Blocks(y, Rows(x)[i])
      BY <1>1 DEF WaitsFor, Taking, Cutting
    <2>2. ins[y] \union del[y] # {}
      BY <2>1 DEF Blocks
    <2>3. pc[y] # "lock"
      BY <2>1, <2>2 DEF IInv, LockInv, Quiet
    <2>. QED  BY <1>1, <2>1, <2>2, <2>3 DEF Blocks, Taking, Cutting
  <1>2. CASE pc[x] \in Taking
    <2>1. taken[y] # {} /\ pc[x] # "write"
      BY <1>2 DEF WaitsFor, Taking, Cutting
    <2>2. pc[y] # "lock"
      BY <2>1 DEF IInv, CacheInv, TakenOnTheWay, Taking, Cutting
    <2>. QED  BY <1>2, <2>1, <2>2
  <1>. QED  BY <1>1, <1>2 DEF WaitsFor

\* Who waits for a lock is not on a cycle: it waits for requests past their locks,
\* or for such as wait for a higher position, and so do those.
LEMMA NoLockOnCycle ==
    ASSUME IInv, NEW x \in Proc, pc[x] = "lock"
    PROVE  ~Deadlocked(x)
  <1> SUFFICES ASSUME Deadlocked(x) PROVE FALSE
    OBVIOUS
  <1>1. PICK m \in want[x] : m \in Nat /\ \A q \in want[x] : m <= q
    <2>1. PICK z \in Proc : WaitsFor(x, z)
      BY DeadlockedWaits
    <2>. QED  BY <2>1 DEF WaitsFor, Taking, Cutting, IInv, TypeOK
  <1> DEFINE Above == {y \in Request : pc[y] = "lock" /\ \A q \in want[y] : m < q}
  <1>2. ASSUME NEW y \in Above \union {x}, NEW z \in Proc, WaitsFor(y, z)
        PROVE  z \in Past \union Above
    <2>1. pc[y] = "lock" /\ \A q \in want[y] : m <= q
      BY <1>1 DEF IInv, TypeOK
    <2>2. /\ y \in Request /\ z \in Request
          /\ \E p \in want[y] \intersect held[z] : \A q \in want[y] : p <= q
      BY <1>2, <2>1 DEF WaitsFor, Taking, Cutting
    <2>3. PICK p \in want[y] \intersect held[z] : TRUE
      BY <2>2
    <2>4. m <= p /\ \A q \in want[z] : p < q
      BY <2>1, <2>2, <2>3 DEF IInv, LockInv, LockOrder
    <2>5. p \in Nat /\ want[z] \in SUBSET Nat
      BY <2>2, <2>3 DEF IInv, TypeOK
    <2>6. \A q \in want[z] : m < q
      BY <1>1, <2>4, <2>5
    <2>. QED  BY <2>2, <2>6 DEF Past
  <1>3. ASSUME NEW y \in Past, NEW z \in Proc, WaitsFor(y, z)
        PROVE  z \in Past
    BY <1>3, Awaited DEF Past
  <1>4. x \notin Past \union Above
    BY <1>1 DEF Past
  <1>5. Past \union Above \in SUBSET Proc
    BY DEF Past, Proc
  <1>6. Closed(Past \union Above, x)
    BY <1>2, <1>3 DEF Closed
  <1>. QED  BY <1>4, <1>5, <1>6, NotDeadlocked

\* Who waits for the rows of another in the unique index, without having written
\* any that others wait for, is not on a cycle, nor is who has taken no cached row.
LEMMA NoFirstOnCycle ==
    ASSUME IInv, NEW x \in Proc, pc[x] # "lock", Deadlocked(x)
    PROVE  /\ pc[x] = "write" => ins[x] \union del[x] # {}
           /\ pc[x] \in Taking => taken[x] # {}
  <1> DEFINE Taken == {y \in Proc : taken[y] # {}}
             Written == {y \in Request : ins[y] \union del[y] # {} /\ pc[y] # "lock"}
  <1>1. ASSUME NEW y \in Taken, NEW z \in Proc, WaitsFor(y, z)
        PROVE  z \in Taken
    <2>1. pc[y] \in Taking \union {"commit"}
      BY DEF IInv, CacheInv, TakenOnTheWay
    <2>2. pc[y] \notin {"lock", "write"}
      BY <2>1 DEF Taking, Cutting
    <2>. QED  BY <1>1, <2>2, Awaited
  <1>2. CASE pc[x] \in Taking /\ taken[x] = {}
    <2>1. \A z \in Proc : WaitsFor(x, z) => z \in Taken
      BY <1>2, Awaited
    <2>2. Closed(Taken, x)
      BY <1>1, <2>1 DEF Closed
    <2>. QED  BY <1>2, <2>2, NotDeadlocked
  <1>3. CASE pc[x] = "write" /\ ins[x] \union del[x] = {}
    <2>1. ASSUME NEW y \in Written \union {x}, NEW z \in Proc, WaitsFor(y, z)
          PROVE  z \in Taken \union Written
      <3>1. pc[y] # "lock" /\ y \in Proc
        BY DEF Proc
      <3>. QED  BY <2>1, <3>1, Awaited
    <2>2. Closed(Taken \union Written, x)
      BY <1>1, <2>1 DEF Closed
    <2>3. x \notin Taken
      BY <1>3 DEF IInv, CacheInv, TakenOnTheWay, Taking, Cutting
    <2>4. Taken \union Written \in SUBSET Proc
      BY DEF Proc
    <2>. QED  BY <1>3, <2>2, <2>3, <2>4, NotDeadlocked
  <1>. QED  BY <1>2, <1>3 DEF Taking, Cutting

\* lock_positions in ascending order, for any number of requests and of runs: who
\* waits for an advisory lock is never the victim of a deadlock.  A victim has a
\* row inserted and another one to insert, or it is at the cached rows and has some.
THEOREM VictimsPastTheirLocks == Spec => []LockWaitersAreSafe
  <1>1. Init => LinesOK
    BY DEF Init, LinesOK
  <1>2. ASSUME IInv, LinesOK, NEW x \in Proc, Deadlocked(x)
        PROVE  \/ /\ x \in Request
                  /\ call[x].op = "import" /\ pc[x] = "write" /\ ins[x] # {}
                  /\ \E i \in fresh[x] : NextRow(x, i) /\ Rows(x)[i].ext # NoExt
               \/ pc[x] \in Taking /\ taken[x] # {}
    <2>1. pc[x] # "lock"
      BY <1>2, NoLockOnCycle
    <2>2. PICK y \in Proc : WaitsFor(x, y)
      BY <1>2, DeadlockedWaits
    <2>3. CASE pc[x] \in Taking
      BY <1>2, <2>1, <2>3, NoFirstOnCycle
    <2>4. CASE pc[x] = "write"
      <3>1. x \in Request /\ \E i \in fresh[x] : NextRow(x, i) /\ Rows(x)[i].ext # NoExt
        BY <1>2, <2>1, <2>2, <2>4, Awaited DEF WaitsFor, Taking, Cutting
      <3>2. PICK i \in fresh[x] : NextRow(x, i) /\ Rows(x)[i].ext # NoExt
        BY <3>1
      <3>3. ins[x] \union del[x] # {}
        BY <1>2, <2>1, <2>4, NoFirstOnCycle
      <3>4. /\ call[x] \in Calls /\ call[x].op # "delete"
            /\ fresh[x] \subseteq DOMAIN Rows(x) /\ target[x] = {} /\ del[x] = {}
        BY <1>2, <2>4, <3>1, <3>2 DEF IInv, PlanOK, LockInv, WritesConfined
      <3>5. call[x].op # "create"
        <4>1. PICK t \in ins[x] : t.line \in fresh[x]
          BY <1>2, <3>1, <3>3, <3>4 DEF LinesOK
        <4>2. i # t.line
          BY <3>2 DEF NextRow, ToInsert
        <4>3. call[x].op = "create" => DOMAIN Rows(x) = {1}
          BY <3>4, CallFacts DEF Rows
        <4>. QED  BY <3>2, <3>4, <4>1, <4>2, <4>3
      <3>6. call[x].op \in Op
        BY <3>4, CallFacts
      <3>. QED  BY <2>4, <3>1, <3>3, <3>4, <3>5, <3>6 DEF Op
    <2>. QED  BY <1>2, <2>1, <2>2, <2>3, <2>4, Awaited
  <1>3. IInv /\ LinesOK => LockWaitersAreSafe
    BY <1>2 DEF LockWaitersAreSafe
  <1>. QED  BY <1>1, <1>3, StepLinesOK, InitIInv, StepIInv, PTL DEF Spec

-----------------------------------------------------------------------------
(* Progress: whoever is under way, somebody can go on. *)

Under == {"resolve", "begin"} \union InTx

Ties(r) == {t.tie : t \in ins[r]}
Lines(r) == {t.line : t \in ins[r]}

\* The guards of a request's own steps, but for the detector's.
CanInsert(r) ==
    \E i \in fresh[r] :
        /\ NextRow(r, i)
        /\ \A s \in Request \ {r} : ~Blocks(s, Rows(r)[i])
        /\ (1 .. Len(Rows(r))) \ Ties(r) # {}

CanLock(r) ==
    \E p \in want[r] : (\A q \in want[r] : p <= q) /\ (\A s \in Request : p \notin held[s])

CanTake(x) == \E row \in Reached(x) : \A y \in Proc \ {x} : row \notin taken[y]

CanGoOn(x) ==
    \/ pc[x] \in {"resolve", "begin"} /\ ConnectionFree
    \/ pc[x] = "lock" /\ (want[x] = {} \/ CanLock(x))
    \/ pc[x] = "write" /\ (target[x] # {} \/ ToInsert(x) = {} \/ CanInsert(x))
    \/ pc[x] \in Taking /\ (seen[x] = {} \/ CanTake(x))
    \/ pc[x] \in {"check", "invalidate", "commit"}

\* As long as a call or a run is under way, one of them can go on, or PostgreSQL's
\* detector has a cycle to break: nothing else can hold all of them up.
SomeoneGoesOn ==
    (\E x \in Proc : pc[x] \in Under) =>
        \E y \in Proc : CanGoOn(y) \/ Deadlocked(y)

Waits(x) == \E y \in Proc : WaitsFor(x, y)

\* Of those who wait for nobody but one another, the fewest are on cycles.
LEMMA WaitersCycle ==
    ASSUME IsFiniteSet(Proc), NEW D \in SUBSET Proc, D # {},
           \A x \in D : \E y \in Proc : WaitsFor(x, y),
           \A x \in D : \A y \in Proc : WaitsFor(x, y) => y \in D
    PROVE  \E x \in Proc : Deadlocked(x)
  <1> DEFINE F == {C \in SUBSET Proc :
                     C # {} /\ C \subseteq D
                     /\ \A x \in C : \A y \in Proc : WaitsFor(x, y) => y \in C}
  <1>1. F # {} /\ F \subseteq SUBSET Proc
    OBVIOUS
  <1> HIDE DEF F
  <1>2. PICK C \in F : \A E \in F : ~ (Cardinality(E) < Cardinality(C))
    BY <1>1, SmallestSubset
  <1>3. /\ C \in SUBSET Proc /\ C # {} /\ C \subseteq D
        /\ \A x \in C : \A y \in Proc : WaitsFor(x, y) => y \in C
    BY DEF F
  <1>4. PICK x \in C : TRUE
    BY <1>3
  <1>5. ASSUME NEW S \in SUBSET Proc,
               \A y \in S \union {x} : \A z \in Proc : WaitsFor(y, z) => z \in S
        PROVE  x \in S
    <2>1. PICK y \in Proc : WaitsFor(x, y)
      BY <1>3
    <2>2. y \in S \intersect C
      BY <1>3, <1>5, <2>1
    <2>3. \A u \in S \intersect C : \A z \in Proc : WaitsFor(u, z) => z \in S \intersect C
      BY <1>3, <1>5
    <2>4. S \intersect C \in F
      BY <1>3, <2>2, <2>3 DEF F
    <2>5. IsFiniteSet(C)
      BY <1>3, FS_Subset
    <2>6. ASSUME x \notin S PROVE FALSE
      <3>1. S \intersect C \subseteq C /\ S \intersect C # C
        BY <2>6
      <3>2. /\ Cardinality(S \intersect C) <= Cardinality(C)
            /\ Cardinality(S \intersect C) # Cardinality(C)
            /\ IsFiniteSet(S \intersect C)
        BY <2>5, <3>1, FS_Subset
      <3>3. Cardinality(S \intersect C) \in Nat /\ Cardinality(C) \in Nat
        BY <2>5, <3>2, FS_CardinalityType
      <3>. QED  BY <1>2, <2>4, <3>2, <3>3
    <2>. QED  BY <2>6
  <1>. QED  BY <1>3, <1>4, <1>5 DEF Deadlocked

\* Who is waited for is in its database transaction.
LEMMA AwaitedInTx ==
    ASSUME IInv, NEW x \in Proc, NEW y \in Proc, WaitsFor(x, y)
    PROVE  pc[y] \in InTx
  <1>1. CASE pc[x] \in Taking
    <2>1. taken[y] # {}
      BY <1>1, Awaited DEF Taking, Cutting
    <2>. QED  BY <2>1 DEF IInv, CacheInv, TakenOnTheWay, InTx
  <1>2. CASE pc[x] \notin Taking
    BY <1>2 DEF IInv, LockInv, Quiet, WaitsFor, Blocks
  <1>. QED  BY <1>1, <1>2

\* The first row of those that a run still has to take.
LEMMA FirstRow ==
    ASSUME TypeOK, NEW x \in Proc, seen[x] # {}
    PROVE  Reached(x) # {}
  <1>1. CASE x \notin Runner
    BY <1>1 DEF Reached
  <1>2. CASE x \in Runner
    <2> DEFINE Rank(row) == 2 * row.day + (IF row.table = "daily_snapshots" THEN 0 ELSE 1)
               N == {Rank(row) : row \in seen[x]}
    <2>1. \A row \in seen[x] : /\ row \in CacheRow /\ row.day \in Nat
                               /\ row.table \in {"daily_snapshots", "snapshot_days"}
      <3>1. \A row \in seen[x] : row \in CacheRow
        BY DEF TypeOK
      <3>2. \A row \in CacheRow : /\ row.day \in SnapshotDays
                                  /\ row.table \in {"daily_snapshots", "snapshot_days"}
        BY DEF CacheRow
      <3>. QED  BY <3>1, <3>2, SnapshotDaysAssumption
    <2>2. N \in SUBSET Nat /\ N # {}
      BY <2>1
    <2> HIDE DEF N
    <2>3. PICK m \in N : \A n \in N : m <= n
      BY <2>2, LeastNumber
    <2> USE DEF N
    <2>4. PICK row \in seen[x] : Rank(row) = m
      BY <2>3
    <2>5. ASSUME NEW other \in seen[x] \ {row}
          PROVE  \/ row.day < other.day
                 \/ row.day = other.day /\ row.table = "daily_snapshots"
      <3>1. Rank(row) <= Rank(other)
        BY <2>3, <2>4
      <3>2. row.day <= other.day
        BY <2>1, <3>1
      <3>3. CASE row.day = other.day /\ row.table = "snapshot_days"
        <4>1. other.table = "snapshot_days"
          BY <2>1, <3>1, <3>3
        <4>2. other = row
          BY <2>1, <3>3, <4>1 DEF CacheRow
        <4>. QED  BY <4>2
      <3>. QED  BY <2>1, <3>2, <3>3
    <2>. QED  BY <1>2, <2>4, <2>5 DEF Reached
  <1>. QED  BY <1>1, <1>2

\* There are as many ids as rows, so that one is left for the next row.
TiesOK ==
    \A r \in Request : IsFiniteSet(Ties(r)) /\ Cardinality(Ties(r)) <= Cardinality(Lines(r))

LEMMA FirstNumbers ==
    ASSUME NEW n \in Nat
    PROVE  IsFiniteSet(1 .. n) /\ Cardinality(1 .. n) = n
  <1>1. Cardinality(1 .. n) = (IF 1 > n THEN 0 ELSE n - 1 + 1) /\ IsFiniteSet(1 .. n)
    BY FS_Interval
  <1>2. (IF 1 > n THEN 0 ELSE n - 1 + 1) = n
    OBVIOUS
  <1>. QED  BY <1>1, <1>2

LEMMA LinesFinite ==
    ASSUME TypeOK, PlanOK, LinesOK, NEW r \in Request
    PROVE  /\ Rows(r) \in Seq(Row) /\ Len(Rows(r)) \in Nat
           /\ Lines(r) \subseteq 1 .. Len(Rows(r)) /\ fresh[r] \subseteq 1 .. Len(Rows(r))
           /\ IsFiniteSet(Lines(r)) /\ IsFiniteSet(1 .. Len(Rows(r)))
           /\ Cardinality(1 .. Len(Rows(r))) = Len(Rows(r))
  <1>1. Rows(r) \in Seq(Row)
    <2>1. call[r] \in Calls \union {NoCall}
      BY DEF TypeOK
    <2>. QED  BY <2>1, CallFacts DEF Rows
  <1>2. Len(Rows(r)) \in Nat /\ DOMAIN Rows(r) = 1 .. Len(Rows(r))
    BY <1>1
  <1>3. fresh[r] \subseteq 1 .. Len(Rows(r))
    BY <1>2 DEF PlanOK
  <1>4. Lines(r) \subseteq 1 .. Len(Rows(r))
    BY <1>3 DEF Lines, LinesOK
  <1>5. IsFiniteSet(1 .. Len(Rows(r))) /\ Cardinality(1 .. Len(Rows(r))) = Len(Rows(r))
    BY <1>2, FirstNumbers
  <1>6. IsFiniteSet(Lines(r))
    BY <1>4, <1>5, FS_Subset
  <1>. QED  BY <1>1, <1>2, <1>3, <1>4, <1>5, <1>6

\* Who is in a database transaction and cannot go on waits for another.
LEMMA StuckWaits ==
    ASSUME IInv, LinesOK, TiesOK, NEW r \in Request, pc[r] \in InTx \ Taking, ~CanGoOn(r)
    PROVE  Waits(r)
  <1> USE DEF IInv, Proc
  <1>1. CASE pc[r] = "lock"
    <2>1. want[r] \in SUBSET Nat /\ want[r] # {}
      BY <1>1 DEF CanGoOn, TypeOK
    <2>2. PICK p \in want[r] : \A q \in want[r] : p <= q
      BY <2>1, LeastNumber
    <2>3. PICK s \in Request : p \in held[s]
      BY <1>1, <2>2 DEF CanGoOn, CanLock
    <2>. QED  BY <1>1, <2>2, <2>3 DEF Waits, WaitsFor
  <1>2. CASE pc[r] = "write"
    <2>1. ToInsert(r) # {} /\ ~CanInsert(r)
      BY <1>2 DEF CanGoOn
    <2>2. ToInsert(r) \in SUBSET Nat /\ ToInsert(r) \subseteq fresh[r]
      BY DEF ToInsert, TypeOK
    <2>3. PICK i \in ToInsert(r) : \A j \in ToInsert(r) : i <= j
      BY <2>1, <2>2, LeastNumber
    <2>4. i \in fresh[r] /\ NextRow(r, i)
      BY <2>2, <2>3 DEF NextRow
    <2>5. (1 .. Len(Rows(r))) \ Ties(r) # {}
      <3> DEFINE I == 1 .. Len(Rows(r))
      <3>1. /\ Len(Rows(r)) \in Nat /\ Lines(r) \subseteq I /\ fresh[r] \subseteq I
            /\ IsFiniteSet(Lines(r)) /\ IsFiniteSet(I)
            /\ Cardinality(I) = Len(Rows(r))
        BY LinesFinite
      <3>2. i \in I /\ i \notin Lines(r)
        BY <2>3, <2>4, <3>1 DEF ToInsert, Lines
      <3> HIDE DEF I
      <3>3. Lines(r) # I
        BY <3>2
      <3>4. Cardinality(Lines(r)) < Cardinality(I)
        <4>1. Cardinality(Lines(r)) \in Nat /\ Cardinality(I) \in Nat
          BY <3>1, FS_CardinalityType
        <4>2. Cardinality(Lines(r)) <= Cardinality(I) /\ Cardinality(Lines(r)) # Cardinality(I)
          BY <3>1, <3>3, FS_Subset
        <4>. QED  BY <4>1, <4>2
      <3>5. Cardinality(Ties(r)) < Cardinality(I)
        <4>1. Cardinality(Lines(r)) \in Nat /\ Cardinality(I) \in Nat /\ Cardinality(Ties(r)) \in Nat
          BY <3>1, FS_CardinalityType DEF TiesOK
        <4>. QED  BY <3>4, <4>1 DEF TiesOK
      <3>6. ~(I \subseteq Ties(r))
        <4>1. ASSUME I \subseteq Ties(r) PROVE Cardinality(I) <= Cardinality(Ties(r))
          BY <4>1, FS_Subset DEF TiesOK
        <4>2. Cardinality(I) \in Nat /\ Cardinality(Ties(r)) \in Nat
          BY <3>1, FS_CardinalityType DEF TiesOK
        <4>. QED  BY <3>5, <4>1, <4>2
      <3>. QED  BY <3>6 DEF I
    <2>6. PICK s \in Request \ {r} : Blocks(s, Rows(r)[i])
      BY <2>1, <2>4, <2>5 DEF CanInsert
    <2>. QED  BY <1>2, <2>4, <2>6 DEF Waits, WaitsFor
  <1>. QED  BY <1>1, <1>2 DEF InTx, CanGoOn

LEMMA StuckTaking ==
    ASSUME IInv, NEW x \in Proc, pc[x] \in Taking, ~CanGoOn(x)
    PROVE  Waits(x)
  <1>1. PICK row \in Reached(x) : TRUE
    BY FirstRow DEF CanGoOn, IInv
  <1>2. PICK y \in Proc \ {x} : row \in taken[y]
    BY <1>1 DEF CanGoOn, CanTake
  <1>. QED  BY <1>1, <1>2 DEF Waits, WaitsFor

LEMMA StepTiesOK == IInv /\ LinesOK /\ TiesOK /\ [Next]_vars => TiesOK'
  <1> SUFFICES ASSUME IInv, LinesOK, TiesOK, [Next]_vars
               PROVE  TiesOK'
    OBVIOUS
  <1> USE DEF plan, work, locks, cache
  <1>1. ASSUME NEW s \in Request, ins'[s] = ins[s]
        PROVE  IsFiniteSet(Ties(s)') /\ Cardinality(Ties(s)') <= Cardinality(Lines(s)')
    <2>1. Ties(s)' = Ties(s) /\ Lines(s)' = Lines(s)
      BY <1>1 DEF Ties, Lines
    <2>. QED  BY <2>1 DEF TiesOK
  <1>2. ASSUME NEW s \in Request, ins'[s] = {}
        PROVE  IsFiniteSet(Ties(s)') /\ Cardinality(Ties(s)') <= Cardinality(Lines(s)')
    <2>1. Ties(s)' = {} /\ Lines(s)' = {}
      BY <1>2 DEF Ties, Lines
    <2>. QED  BY <2>1, FS_EmptySet
  <1>3. ASSUME ins' = ins PROVE TiesOK'
    BY <1>1, <1>3 DEF TiesOK
  <1>4. ASSUME NEW r \in Request, ins' = [ins EXCEPT ![r] = {}] PROVE TiesOK'
    <2>1. \A s \in Request : ins'[s] = ins[s] \/ ins'[s] = {}
      BY <1>4 DEF IInv, TypeOK
    <2>. QED  BY <1>1, <1>2, <2>1 DEF TiesOK
  <1>5. ASSUME NEW r \in Request, Insert(r) PROVE TiesOK'
    <2>1. PICK i \in fresh[r], tie \in (1 .. Len(Rows(r))) \ Ties(r) :
            /\ NextRow(r, i)
            /\ ins' = [ins EXCEPT ![r] = @ \union {Stamp(Rows(r)[i], at[r], tie, i)}]
      BY <1>5 DEF Insert, Ties
    <2> DEFINE t == Stamp(Rows(r)[i], at[r], tie, i)
    <2>2. t.tie = tie /\ t.line = i
      BY DEF Stamp
    <2>3. ins'[r] = ins[r] \union {t} /\ \A s \in Request \ {r} : ins'[s] = ins[s]
      BY <2>1 DEF IInv, TypeOK
    <2> HIDE DEF t
    <2>4. Ties(r)' = Ties(r) \union {tie} /\ Lines(r)' = Lines(r) \union {i}
      BY <2>2, <2>3 DEF Ties, Lines
    <2>5. tie \notin Ties(r) /\ i \notin Lines(r)
      BY <2>1 DEF NextRow, ToInsert, Lines
    <2>6. IsFiniteSet(Ties(r)) /\ IsFiniteSet(Lines(r))
      BY LinesFinite DEF TiesOK, IInv
    <2>7. /\ IsFiniteSet(Ties(r)') /\ Cardinality(Ties(r)') = Cardinality(Ties(r)) + 1
          /\ Cardinality(Lines(r)') = Cardinality(Lines(r)) + 1
      BY <2>4, <2>5, <2>6, FS_AddElement
    <2>8. Cardinality(Ties(r)) \in Nat /\ Cardinality(Lines(r)) \in Nat
      BY <2>6, FS_CardinalityType
    <2>9. IsFiniteSet(Ties(r)') /\ Cardinality(Ties(r)') <= Cardinality(Lines(r)')
      BY <2>7, <2>8 DEF TiesOK
    <2>. QED  BY <1>1, <2>3, <2>9 DEF TiesOK
  <1>6. ASSUME NEW r \in Request,
               \/ Submit(r) \/ Resolve(r) \/ Begin(r) \/ Lock(r) \/ AllLocked(r)
               \/ Delete(r) \/ AllInserted(r) \/ Check(r) \/ Invalidate(r)
        PROVE  ins' = ins
    BY <1>6 DEF Submit, Resolve, ResolveCreate, ResolveDelete, ValidateRow, ResolveImport,
                Begin, Lock, AllLocked, Delete, AllInserted, Check, Invalidate, StartCut,
                TakeRow, StartUnmark, Invalidated
  <1>7. ASSUME NEW r \in Request, Drops(r) \/ Commit(r)
        PROVE  ins' = [ins EXCEPT ![r] = {}]
    BY <1>7, DropStep DEF Commit, Leave
  <1>8. ASSUME NEW n \in Runner, RunStep(n) PROVE ins' = ins
    BY <1>8, RunSteps DEF IInv
  <1>9. ASSUME UNCHANGED vars \/ Terminated PROVE ins' = ins
    BY <1>9 DEF vars, Terminated
  <1>. QED
    BY <1>3, <1>4, <1>5, <1>6, <1>7, <1>8, <1>9 DEF Next, Serve, Write, Drops, RunStep

LEMMA OpenPool ==
    ASSUME \A x \in Proc : pc[x] \notin InTx
    PROVE  ConnectionFree
  <1>1. {x \in Proc : pc[x] \in InTx} = {}
    OBVIOUS
  <1>. QED  BY <1>1, FS_EmptySet, PoolAssumption DEF ConnectionFree

\* The waits of the write path (for a lock, for a row with the same external id, for
\* a cached row, for a connection of the pool) never hold everybody up for good, for
\* any number of requests and runs and any size of the pool: who waits for a connection
\* waits for transactions that do not, and these wait for one another in a cycle or
\* not at all.
THEOREM NoStandstill ==
    ASSUME IsFiniteSet(Request), IsFiniteSet(Runner)
    PROVE  Spec => []SomeoneGoesOn
  <1>1. Init => LinesOK /\ TiesOK
    <2> SUFFICES ASSUME Init PROVE LinesOK /\ TiesOK
      OBVIOUS
    <2>1. \A r \in Request : ins[r] = {}
      BY DEF Init
    <2>2. \A r \in Request : Ties(r) = {} /\ Lines(r) = {}
      BY <2>1 DEF Ties, Lines
    <2>. QED  BY <2>1, <2>2, FS_EmptySet DEF LinesOK, TiesOK
  <1>2. ASSUME IInv, LinesOK, TiesOK PROVE SomeoneGoesOn
    <2> DEFINE D == {x \in Proc : pc[x] \in InTx}
    <2> SUFFICES ASSUME NEW x \in Proc, pc[x] \in Under,
                        \A y \in Proc : ~CanGoOn(y)
                 PROVE  \E y \in Proc : Deadlocked(y)
      BY DEF SomeoneGoesOn
    <2>1. ASSUME NEW y \in D PROVE \E z \in Proc : WaitsFor(y, z)
      <3>1. CASE pc[y] \in Taking
        BY <1>2, <3>1, StuckTaking DEF Waits
      <3>2. CASE pc[y] \notin Taking
        <4>1. y \in Request
          BY <1>2, <3>2 DEF IInv, CacheInv, RunPlaces, Proc, InTx, Taking, Cutting
        <4>. QED  BY <1>2, <3>2, <4>1, StuckWaits DEF Waits
      <3>. QED  BY <3>1, <3>2
    <2>2. ASSUME NEW y \in D, NEW z \in Proc, WaitsFor(y, z) PROVE z \in D
      BY <1>2, <2>2, AwaitedInTx
    <2>3. D # {}
      <3>1. CASE pc[x] \in InTx
        BY <3>1
      <3>2. CASE pc[x] \in {"resolve", "begin"}
        BY <3>2, OpenPool DEF CanGoOn
      <3>. QED  BY <3>1, <3>2 DEF Under
    <2> HIDE DEF D
    <2>4. D \in SUBSET Proc
      BY DEF D
    <2>5. IsFiniteSet(Proc)
      BY FS_Union DEF Proc
    <2>. QED  BY <2>1, <2>2, <2>3, <2>4, <2>5, WaitersCycle
  <1>3. IInv /\ LinesOK /\ TiesOK => SomeoneGoesOn
    BY <1>2
  <1>. QED  BY <1>1, <1>3, StepLinesOK, StepTiesOK, InitIInv, StepIInv, PTL DEF Spec

\* Where a request or a run is on its way.
Place ==
    [p \in Phase |->
        CASE p = "idle" -> 0 [] p = "resolve" -> 1 [] p = "begin" -> 2 [] p = "lock" -> 3
          [] p = "write" -> 4 [] p = "check" -> 5 [] p = "invalidate" -> 6
          [] p = "cutDaily" -> 7 [] p = "cutDays" -> 8 [] p = "renew" -> 8
          [] p = "commit" -> 9 [] OTHER -> 10]

\* What it has left to do there: rows to look up, positions to lock, rows to insert,
\* cached rows to take.
Left(x) ==
    CASE pc[x] = "resolve" -> Len(Rows(x)) + 1 - cursor[x]
      [] pc[x] = "lock" -> Cardinality(want[x])
      [] pc[x] = "write" -> Cardinality(ToInsert(x))
      [] OTHER -> Cardinality(seen[x])

Advances(x) ==
    \/ pc'[x] \in Phase /\ Place[pc'[x]] > Place[pc[x]]
    \/ pc'[x] = pc[x] /\ Left(x)' \in Nat /\ Left(x)' < Left(x)

CallsAdvance ==
    [][/\ \A r \in Request : Serve(r) => Advances(r)
       /\ \A n \in Runner : Renew(n) => Advances(n)]_vars

LEMMA Places ==
    /\ Place["idle"] = 0 /\ Place["resolve"] = 1 /\ Place["begin"] = 2 /\ Place["lock"] = 3
    /\ Place["write"] = 4 /\ Place["check"] = 5 /\ Place["invalidate"] = 6
    /\ Place["cutDaily"] = 7 /\ Place["cutDays"] = 8 /\ Place["renew"] = 8
    /\ Place["commit"] = 9 /\ \A p \in Ended : p \in Phase /\ Place[p] = 10
    /\ {"idle", "resolve", "begin", "lock", "write", "check", "invalidate", "cutDaily",
        "cutDays", "renew", "commit"} \subseteq Phase
  <1>1. ASSUME NEW p \in Ended
        PROVE  p \notin {"idle", "resolve", "begin", "lock", "write", "check", "invalidate",
                         "cutDaily", "cutDays", "renew", "commit"}
    BY DEF Ended
  <1>2. \A p \in Ended : p \in Phase /\ Place[p] = 10
    BY <1>1 DEF Place, Phase
  <1>3. {"idle", "resolve", "begin", "lock", "write", "check", "invalidate", "cutDaily",
         "cutDays", "renew", "commit"} \subseteq Phase
    BY DEF Phase, InTx, Taking, Cutting
  <1>. QED  BY <1>2, <1>3 DEF Place

LEMMA CacheRowsFinite ==
    ASSUME TypeOK, NEW x \in Proc
    PROVE  IsFiniteSet(seen[x])
  <1> DEFINE Of(table) == [table: {table}, day: SnapshotDays]
  <1>1. ASSUME NEW table \in {"daily_snapshots", "snapshot_days"}
        PROVE  IsFiniteSet(Of(table))
    <2> DEFINE f == [d \in SnapshotDays |-> [table |-> table, day |-> d]]
    <2>1. \A row \in Of(table) : row.day \in SnapshotDays /\ row = f[row.day]
      OBVIOUS
    <2>2. f \in Surjection(SnapshotDays, Of(table))
      BY <2>1 DEF Surjection
    <2> HIDE DEF f
    <2>. QED  BY <2>2, FS_Surjection, SnapshotDaysAssumption
  <1>2. CacheRow = Of("daily_snapshots") \union Of("snapshot_days")
    BY DEF CacheRow
  <1> HIDE DEF Of
  <1>3. IsFiniteSet(CacheRow)
    BY <1>1, <1>2, FS_Union
  <1>. QED  BY <1>3, FS_Subset DEF TypeOK

WantFinite == \A r \in Request : IsFiniteSet(want[r])

\* A request wants the positions of its rows, or of its row.
LEMMA BeginFinite ==
    ASSUME TypeOK, PlanOK, LinesOK, NEW r \in Request
    PROVE  IsFiniteSet({Rows(r)[i].pos : i \in fresh[r]} \union {t.pos : t \in target[r]})
  <1> DEFINE A == {Rows(r)[i].pos : i \in fresh[r]}
             f == [i \in fresh[r] |-> Rows(r)[i].pos]
             B == {t.pos : t \in target[r]}
  <1>1. IsFiniteSet(fresh[r])
    BY LinesFinite, FS_Subset
  <1>2. f \in Surjection(fresh[r], A)
    BY DEF Surjection
  <1>3. IsFiniteSet(B)
    <2>1. CASE target[r] = {}
      BY <2>1, FS_EmptySet
    <2>2. CASE target[r] # {}
      <3>1. PICK t \in target[r] : target[r] = {t}
        BY <2>2 DEF PlanOK
      <3>2. B = {t.pos}
        BY <3>1
      <3>. QED  BY <3>2, FS_Singleton
    <2>. QED  BY <2>1, <2>2
  <1> HIDE DEF A, f, B
  <1>4. IsFiniteSet(A)
    BY <1>1, <1>2, FS_Surjection
  <1>5. IsFiniteSet(A \union B)
    BY <1>3, <1>4, FS_Union
  <1>. QED  BY <1>5 DEF A, B

LEMMA StepWantFinite == IInv /\ LinesOK /\ WantFinite /\ [Next]_vars => WantFinite'
  <1> SUFFICES ASSUME IInv, LinesOK, WantFinite, [Next]_vars
               PROVE  WantFinite'
    OBVIOUS
  <1> USE DEF plan, work, locks, cache
  <1>1. ASSUME want' = want PROVE WantFinite'
    BY <1>1 DEF WantFinite
  <1>2. ASSUME NEW r \in Request, NEW W, IsFiniteSet(W), want' = [want EXCEPT ![r] = W]
        PROVE  WantFinite'
    BY <1>2 DEF WantFinite, IInv, TypeOK
  <1>3. ASSUME NEW r \in Request, Begin(r) PROVE WantFinite'
    <2>1. want' = [want EXCEPT ![r] = {Rows(r)[i].pos : i \in fresh[r]}
                                      \union {t.pos : t \in target[r]}]
      BY <1>3 DEF Begin
    <2>. QED  BY <1>2, <2>1, BeginFinite DEF IInv
  <1>4. ASSUME NEW r \in Request, Lock(r) PROVE WantFinite'
    <2>1. PICK p : want' = [want EXCEPT ![r] = want[r] \ {p}]
      BY <1>4 DEF Lock
    <2>2. IsFiniteSet(want[r] \ {p})
      BY FS_Subset DEF WantFinite
    <2>. QED  BY <1>2, <2>1, <2>2
  <1>5. ASSUME NEW r \in Request, Drops(r) \/ Commit(r)
        PROVE  WantFinite'
    <2>1. want' = [want EXCEPT ![r] = {}]
      BY <1>5, DropStep DEF Commit, Leave
    <2>. QED  BY <1>2, <2>1, FS_EmptySet
  <1>6. ASSUME NEW r \in Request,
               \/ Submit(r) \/ Resolve(r) \/ AllLocked(r) \/ Insert(r)
               \/ Delete(r) \/ AllInserted(r) \/ Check(r) \/ Invalidate(r)
        PROVE  want' = want
    BY <1>6 DEF Submit, Resolve, ResolveCreate, ResolveDelete, ValidateRow, ResolveImport,
                AllLocked, Insert, Delete, AllInserted, Check, Invalidate, StartCut,
                TakeRow, StartUnmark, Invalidated
  <1>7. ASSUME NEW n \in Runner, RunStep(n) PROVE want' = want
    BY <1>7, RunSteps DEF IInv
  <1>8. ASSUME UNCHANGED vars \/ Terminated PROVE want' = want
    BY <1>8 DEF vars, Terminated
  <1>. QED
    BY <1>1, <1>3, <1>4, <1>5, <1>6, <1>7, <1>8 DEF Next, Serve, Write, Drops, RunStep

\* A step that leaves its place for a later one.
LEMMA StepsOn ==
    ASSUME TypeOK, CacheInv, NEW r \in Request, Serve(r), ~ValidateRow(r), ~Lock(r),
           ~Insert(r), ~TakeRow(r)
    PROVE  pc'[r] \in Phase /\ Place[pc'[r]] > Place[pc[r]]
  <1>1. \A p : Goto(r, p) => pc'[r] = p
    BY DEF Goto, TypeOK, Proc
  <1>2. \A p : Leave(r, p) => pc'[r] = p
    BY <1>1 DEF Leave
  <1>3. CASE ResolveCreate(r) \/ ResolveDelete(r) \/ ResolveImport(r)
    <2>1. pc[r] = "resolve" /\ pc'[r] \in {"begin"} \union Ended
      BY <1>1, <1>3 DEF ResolveCreate, ResolveDelete, ResolveImport, Ended
    <2>. QED  BY <2>1, Places
  <1>4. CASE Begin(r)
    BY <1>1, <1>4, Places DEF Begin
  <1>5. CASE AllLocked(r)
    BY <1>1, <1>5, Places DEF AllLocked
  <1>6. CASE InsertConflict(r) \/ DeleteMiss(r) \/ Oversell(r) \/ DeadlockAbort(r)
    <2>1. Drops(r)
      BY <1>6 DEF Drops
    <2>2. pc[r] \in {"resolve", "begin"} \union InTx
      BY <2>1, DropsLater
    <2>3. Place[pc[r]] < 10
      BY <2>2, Places DEF InTx, Taking, Cutting
    <2>4. pc'[r] \in Ended
      BY <1>2, <2>1, DropStep
    <2>. QED  BY <2>3, <2>4, Places
  <1>7. CASE Delete(r) \/ AllInserted(r)
    BY <1>1, <1>7, Places DEF Delete, AllInserted
  <1>8. CASE Check(r)
    BY <1>1, <1>8, Places DEF Check
  <1>9. CASE StartCut(r) \/ StartUnmark(r) \/ Invalidated(r)
    BY <1>1, <1>9, Places DEF StartCut, StartUnmark, Invalidated
  <1>10. CASE Commit(r)
    <2>1. pc[r] = "commit" /\ pc'[r] \in Ended
      BY <1>2, <1>10 DEF Commit, Ended
    <2>. QED  BY <2>1, Places
  <1>. QED
    BY <1>3, <1>4, <1>5, <1>6, <1>7, <1>8, <1>9, <1>10 DEF Serve, Resolve, Write, Invalidate

LEMMA RunStepsOn ==
    ASSUME TypeOK, CacheInv, NEW n \in Runner, CommitRun(n) \/ RunAbort(n)
    PROVE  pc'[n] \in Phase /\ Place[pc'[n]] > Place[pc[n]]
  <1>1. pc[n] = "renew" /\ pc'[n] \in Ended
    BY DEF CommitRun, RunAbort, FailRun, Goto, TypeOK, Proc, Ended
  <1>. QED  BY <1>1, Places

\* One cached row fewer.
LEMMA TakesOneFewer ==
    ASSUME TypeOK, NEW x \in Proc, TakeRow(x)
    PROVE  pc'[x] = pc[x] /\ Left(x)' \in Nat /\ Left(x)' < Left(x)
  <1>1. PICK row \in seen[x] : seen'[x] = seen[x] \ {row}
    BY DEF TakeRow, Reached, TypeOK
  <1>2. pc' = pc /\ pc[x] \notin {"resolve", "lock", "write"}
    BY DEF TakeRow, Taking, Cutting
  <1>3. /\ Cardinality(seen[x] \ {row}) = Cardinality(seen[x]) - 1
        /\ Cardinality(seen[x]) \in Nat /\ Cardinality(seen[x] \ {row}) \in Nat
    BY CacheRowsFinite, FS_RemoveElement, FS_CardinalityType, FS_Subset
  <1>4. Left(x) = Cardinality(seen[x]) /\ Left(x)' = Cardinality(seen[x] \ {row})
    BY <1>1, <1>2 DEF Left
  <1>. QED  BY <1>2, <1>3, <1>4

\* One row or one position fewer.
LEMMA StepsWithin ==
    ASSUME IInv, LinesOK, WantFinite, NEW r \in Request, ValidateRow(r) \/ Lock(r) \/ Insert(r)
    PROVE  pc'[r] = pc[r] /\ Left(r)' \in Nat /\ Left(r)' < Left(r)
  <1> USE DEF plan, work, locks, cache, Proc
  <1>1. CASE ValidateRow(r)
    <2>1. /\ pc[r] = "resolve" /\ pc' = pc /\ call' = call
          /\ cursor[r] \in DOMAIN Rows(r) /\ cursor'[r] = cursor[r] + 1
      BY <1>1 DEF ValidateRow, IInv, TypeOK
    <2>2. Rows(r)' = Rows(r) /\ Len(Rows(r)) \in Nat /\ cursor[r] \in 1 .. Len(Rows(r))
      BY <2>1, LinesFinite DEF Rows, IInv
    <2>3. /\ Left(r) = Len(Rows(r)) + 1 - cursor[r]
          /\ Left(r)' = Len(Rows(r)) + 1 - (cursor[r] + 1)
      BY <2>1, <2>2 DEF Left
    <2>. QED  BY <2>1, <2>2, <2>3
  <1>2. CASE Lock(r)
    <2>1. PICK p \in want[r] : want'[r] = want[r] \ {p} /\ pc[r] = "lock" /\ pc' = pc
      BY <1>2 DEF Lock, IInv, TypeOK
    <2>2. /\ Cardinality(want[r] \ {p}) = Cardinality(want[r]) - 1
          /\ Cardinality(want[r]) \in Nat /\ Cardinality(want[r] \ {p}) \in Nat
      BY FS_RemoveElement, FS_CardinalityType, FS_Subset DEF WantFinite
    <2>3. Left(r) = Cardinality(want[r]) /\ Left(r)' = Cardinality(want[r] \ {p})
      BY <2>1 DEF Left
    <2>. QED  BY <2>1, <2>2, <2>3
  <1>3. CASE Insert(r)
    <2>1. PICK i \in fresh[r], tie \in 1 .. Len(Rows(r)) :
            /\ NextRow(r, i)
            /\ ins' = [ins EXCEPT ![r] = @ \union {Stamp(Rows(r)[i], at[r], tie, i)}]
      BY <1>3 DEF Insert
    <2>2. pc[r] = "write" /\ pc' = pc /\ fresh' = fresh
      BY <1>3 DEF Insert
    <2>3. Stamp(Rows(r)[i], at[r], tie, i).line = i
      BY DEF Stamp
    <2>4. ins'[r] = ins[r] \union {Stamp(Rows(r)[i], at[r], tie, i)}
      BY <2>1 DEF IInv, TypeOK
    <2>5. ToInsert(r)' = ToInsert(r) \ {i}
      BY <2>2, <2>3, <2>4 DEF ToInsert
    <2>6. i \in ToInsert(r) /\ IsFiniteSet(ToInsert(r))
      <3>1. IsFiniteSet(fresh[r])
        BY LinesFinite, FS_Subset DEF IInv
      <3>. QED  BY <2>1, <3>1, FS_Subset DEF NextRow, ToInsert
    <2>7. /\ Cardinality(ToInsert(r) \ {i}) = Cardinality(ToInsert(r)) - 1
          /\ Cardinality(ToInsert(r)) \in Nat /\ Cardinality(ToInsert(r) \ {i}) \in Nat
      BY <2>6, FS_RemoveElement, FS_CardinalityType, FS_Subset
    <2>8. Left(r) = Cardinality(ToInsert(r)) /\ Left(r)' = Cardinality(ToInsert(r) \ {i})
      BY <2>2, <2>5 DEF Left
    <2>. QED  BY <2>2, <2>7, <2>8
  <1>. QED  BY <1>1, <1>2, <1>3

\* Every own step of a call or of a run takes it to a later place of its handler or
\* leaves it one row or one position less to do there, and none sends it back: it ends
\* after finitely many steps of its own.  With `NoStandstill` this is what fairness needs.
THEOREM EveryStepAdvances == Spec => CallsAdvance
  <1>1. Init => LinesOK /\ WantFinite
    <2> SUFFICES ASSUME Init PROVE LinesOK /\ WantFinite
      OBVIOUS
    <2>1. \A r \in Request : ins[r] = {} /\ want[r] = {}
      BY DEF Init
    <2>. QED  BY <2>1, FS_EmptySet DEF LinesOK, WantFinite
  <1>2. ASSUME IInv, LinesOK, WantFinite, NEW r \in Request, Serve(r) PROVE Advances(r)
    <2>1. CASE ValidateRow(r) \/ Lock(r) \/ Insert(r)
      BY <1>2, <2>1, StepsWithin DEF Advances
    <2>2. CASE TakeRow(r)
      BY <1>2, <2>2, TakesOneFewer DEF Advances, IInv, Proc
    <2>3. CASE ~ValidateRow(r) /\ ~Lock(r) /\ ~Insert(r) /\ ~TakeRow(r)
      BY <1>2, <2>3, StepsOn DEF Advances, IInv
    <2>. QED  BY <2>1, <2>2, <2>3
  <1>3. ASSUME IInv, NEW n \in Runner, Renew(n) PROVE Advances(n)
    <2>1. CASE TakeRow(n)
      BY <1>3, <2>1, TakesOneFewer DEF Advances, IInv, Proc
    <2>2. CASE CommitRun(n) \/ RunAbort(n)
      BY <1>3, <2>2, RunStepsOn DEF Advances, IInv
    <2>. QED  BY <1>3, <2>1, <2>2 DEF Renew
  <1>4. IInv /\ LinesOK /\ WantFinite /\ [Next]_vars
          => [/\ \A r \in Request : Serve(r) => Advances(r)
              /\ \A n \in Runner : Renew(n) => Advances(n)]_vars
    BY <1>2, <1>3
  <1>. QED
    BY <1>1, <1>4, StepLinesOK, StepWantFinite, InitIInv, StepIInv, PTL DEF Spec, CallsAdvance

-----------------------------------------------------------------------------
(* External ids. *)

\* What is stored or about to be.
AllRows == ledger \union UNION {ins[r] : r \in Request}

\* Of the rows committed or inserted by anybody, no two carry one external id.
OneOwner == \A t, u \in AllRows : t.ext # NoExt /\ t.ext = u.ext => t = u

\* Every step but an insert only moves rows from the requests to the table, or
\* drops them.
LEMMA RowsComeFromInserts ==
    ASSUME IInv, [Next]_vars, \A r \in Request : ~Insert(r)
    PROVE  AllRows' \subseteq AllRows
  <1> USE DEF plan, work, locks, cache, IInv, TypeOK
  <1>1. ASSUME ledger' = ledger, \A s \in Request : ins'[s] \subseteq ins[s]
        PROVE  AllRows' \subseteq AllRows
    BY <1>1 DEF AllRows
  <1>2. ASSUME NEW r \in Request,
               \/ Submit(r) \/ Resolve(r) \/ Begin(r) \/ Lock(r) \/ AllLocked(r)
               \/ Delete(r) \/ AllInserted(r) \/ Check(r) \/ Invalidate(r)
        PROVE  UNCHANGED <<ledger, ins>>
    BY <1>2 DEF Submit, Resolve, ResolveCreate, ResolveDelete, ValidateRow, ResolveImport,
       Begin, Lock, AllLocked, Delete, AllInserted, Check, Invalidate, StartCut, TakeRow,
       StartUnmark, Invalidated
  <1>3. ASSUME NEW r \in Request, Drops(r)
        PROVE  ledger' = ledger /\ ins' = [ins EXCEPT ![r] = {}]
    BY <1>3, DropStep DEF Leave
  <1>4. ASSUME NEW r \in Request, Commit(r)
        PROVE  AllRows' \subseteq AllRows
    <2>1. ledger' \subseteq ledger \union ins[r] /\ ins' = [ins EXCEPT ![r] = {}]
      BY <1>4 DEF Commit, View, Leave
    <2>2. \A s \in Request : ins'[s] \subseteq ins[s]
      BY <2>1
    <2>. QED  BY <2>1, <2>2 DEF AllRows
  <1>5. ASSUME NEW n \in Runner, RunStep(n)
        PROVE  UNCHANGED <<ledger, ins>>
    BY <1>5, RunSteps
  <1>6. CASE UNCHANGED vars
    BY <1>1, <1>6 DEF vars
  <1>. QED
    BY <1>1, <1>2, <1>3, <1>4, <1>5, <1>6
       DEF Next, Serve, Write, Drops, RunStep, Terminated

\* The unique index lets a row in only when nobody else has stored or is
\* storing its external id.
LEMMA InsertKeepsOneOwner ==
    ASSUME IInv, OneOwner, NEW r \in Request, Insert(r)
    PROVE  OneOwner'
  <1> USE DEF IInv, TypeOK
  <1>1. PICK i \in fresh[r] :
          /\ \A s \in Request \ {r} : ~Blocks(s, Rows(r)[i])
          /\ ~\E t \in View(r) : Rows(r)[i].ext # NoExt /\ t.ext = Rows(r)[i].ext
          /\ \E tie \in 1 .. Len(Rows(r)) :
               ins' = [ins EXCEPT ![r] = @ \union {Stamp(Rows(r)[i], at[r], tie, i)}]
    BY DEF Insert
  <1>2. PICK tie \in 1 .. Len(Rows(r)) :
          ins' = [ins EXCEPT ![r] = @ \union {Stamp(Rows(r)[i], at[r], tie, i)}]
    BY <1>1
  <1> DEFINE new == Stamp(Rows(r)[i], at[r], tie, i)
  <1>3. new.ext = Rows(r)[i].ext
    BY DEF Stamp
  <1>4. ledger' = ledger
    BY DEF Insert
  <1> HIDE DEF new
  <1>5. AllRows' \subseteq AllRows \union {new}
    BY <1>2, <1>4 DEF AllRows, new
  <1>6. del[r] = {}
    BY <1>1 DEF PlanOK, LockInv, WritesConfined
  <1>7. ASSUME new.ext # NoExt, NEW t \in AllRows
        PROVE  t.ext # new.ext
    <2>1. CASE t \in ledger \union ins[r]
      BY <1>1, <1>3, <1>6, <1>7, <2>1 DEF View
    <2>2. ASSUME NEW s \in Request \ {r}, t \in ins[s]
          PROVE  t.ext # new.ext
      BY <1>1, <1>3, <1>7, <2>2 DEF Blocks
    <2>. QED  BY <2>1, <2>2 DEF AllRows
  <1>. QED  BY <1>5, <1>7 DEF OneOwner

LEMMA UniqueInductive == Spec => [](IInv /\ OneOwner)
  <1>1. Init => OneOwner
    BY InitialAssumption DEF Init, OneOwner, AllRows
  <1>2. IInv /\ OneOwner /\ [Next]_vars => OneOwner'
    <2> SUFFICES ASSUME IInv, OneOwner, [Next]_vars
                 PROVE  OneOwner'
      OBVIOUS
    <2>1. CASE \E r \in Request : Insert(r)
      BY <2>1, InsertKeepsOneOwner
    <2>2. CASE \A r \in Request : ~Insert(r)
      BY <2>2, RowsComeFromInserts DEF OneOwner
    <2>. QED  BY <2>1, <2>2
  <1>. QED  BY <1>1, <1>2, InitIInv, StepIInv, PTL DEF Spec

\* No two committed trades carry the same external id, however many imports of
\* the same id run at once on different positions.
THEOREM ExternalIdsUnique == Spec => []ExternalIdUnique
  <1>1. OneOwner => ExternalIdUnique
    BY DEF OneOwner, ExternalIdUnique, AllRows
  <1>. QED  BY <1>1, UniqueInductive, PTL

-----------------------------------------------------------------------------
(* What a step may do. *)

\* Only a commit changes the committed tables.
LEMMA OnlyCommitChanges ==
    ASSUME TypeOK, [Next]_vars, ~UNCHANGED <<ledger, covered>>
    PROVE  \E r \in Request : Commit(r)
  <1>. USE DEF plan, work, locks, cache
  <1>1. ASSUME NEW r \in Request, Submit(r) \/ Resolve(r) \/ Begin(r) \/ Lock(r) \/ AllLocked(r)
        PROVE  UNCHANGED <<ledger, covered>>
    BY <1>1 DEF Submit, Resolve, ResolveCreate, ResolveDelete, ValidateRow, ResolveImport,
       Begin, Lock, AllLocked
  <1>2. ASSUME NEW r \in Request,
               Insert(r) \/ Delete(r) \/ AllInserted(r) \/ Check(r) \/ Invalidate(r)
        PROVE  UNCHANGED <<ledger, covered>>
    BY <1>2 DEF Insert, Delete, AllInserted, Check, Invalidate, StartCut, TakeRow,
       StartUnmark, Invalidated
  <1>3. ASSUME NEW r \in Request, Drops(r)
        PROVE  UNCHANGED <<ledger, covered>>
    BY <1>3, DropStep
  <1>4. ASSUME NEW n \in Runner, RunStep(n)
        PROVE  UNCHANGED <<ledger, covered>>
    BY <1>4, RunSteps
  <1>. QED
    BY <1>1, <1>2, <1>3, <1>4 DEF Next, Serve, Write, Drops, RunStep, Terminated, vars

\* While a request holds a position's lock, no other request's commit changes
\* the position: what it folded is what it commits.
THEOREM LockedPositionsStable == Spec => PositionStable
  <1> DEFINE Stable ==
        \A r \in Request : \A p \in held[r] :
          OnPosition(ledger', p) # OnPosition(ledger, p)
            => pc[r] = "commit" /\ pc'[r] \in Ended
  <1>1. IInv /\ [Next]_vars => [Stable]_vars
    <2> SUFFICES ASSUME IInv, [Next]_vars, NEW r \in Request, NEW p \in held[r],
                        OnPosition(ledger', p) # OnPosition(ledger, p)
                 PROVE  pc[r] = "commit" /\ pc'[r] \in Ended
      OBVIOUS
    <2>1. ledger' # ledger
      BY DEF OnPosition
    <2>2. PICK s \in Request : Commit(s)
      BY <2>1, OnlyCommitChanges DEF IInv
    <2>3. p \in held[s]
      BY <2>2, CommitEffect
    <2>4. s = r
      BY <2>3 DEF IInv, LockInv, HeldExclusive
    <2>. QED  BY <2>2, <2>4 DEF Commit, Leave, Goto, IInv, TypeOK, Ended, Proc
  <1>2. QED  BY <1>1, Inductive, PTL DEF Spec, PositionStable

\* A commit never leaves a cached snapshot of a day that its trades change.
LEMMA CommitCuts ==
    ASSUME IInv, IInv', NEW r \in Request, Commit(r)
    PROVE  \A t \in (ledger' \ ledger) \union (ledger \ ledger') :
               \A d \in covered' : d < t.day
  <1> SUFFICES ASSUME NEW t \in (ledger' \ ledger) \union (ledger \ ledger'),
                      NEW d \in covered'
               PROVE  d < t.day
    OBVIOUS
  <1>1. t \in ins[r] \union del[r] /\ pc[r] = "commit"
    BY CommitEffect
  <1>2. d \in covered /\ Marker(d) \notin taken[r]
    BY DEF Commit, Marker
  <1>3. ~(t.day <= d)
    BY <1>1, <1>2 DEF IInv, CacheInv, CutsEnough
  <1>4. t.day \in Nat /\ d \in Nat
    BY SnapshotDaysAssumption DEF IInv, TypeOK, Trade
  <1>. QED  BY <1>3, <1>4

THEOREM CommitsInvalidate == Spec => CommitInvalidates
  <1> DEFINE Cuts ==
        \A t \in (ledger' \ ledger) \union (ledger \ ledger') :
            \A d \in covered' : d < t.day
  <1>1. IInv /\ IInv' /\ [Next]_vars => [Cuts]_vars
    <2> SUFFICES ASSUME IInv, IInv', [Next]_vars
                 PROVE  Cuts
      OBVIOUS
    <2>1. CASE UNCHANGED <<ledger, covered>>
      BY <2>1
    <2>2. CASE ~UNCHANGED <<ledger, covered>>
      BY <2>2, OnlyCommitChanges, CommitCuts DEF IInv
    <2>. QED  BY <2>1, <2>2
  <1>2. QED  BY <1>1, Inductive, PTL DEF Spec, CommitInvalidates

\* The interleaved write path implements the table that changes one accepted
\* call at a time.
THEOREM LedgerImplementsAtomicLedger == Spec => ImplementsAtomicLedger
  <1>1. Init => Atomic!Init
    BY DEF Init, Atomic!Init
  <1>2. IInv /\ IInv' /\ [Next]_vars => [Atomic!Change]_<<ledger, covered>>
    <2> SUFFICES ASSUME IInv, IInv', [Next]_vars, ~UNCHANGED <<ledger, covered>>
                 PROVE  Atomic!Change
      OBVIOUS
    <2>1. PICK r \in Request : Commit(r)
      BY OnlyCommitChanges DEF IInv
    <2>2. Atomic!AddRows \/ Atomic!RemoveRow
      <3>1. CASE ins[r] = {}
        BY <2>1, <3>1, CommitEffect DEF IInv, LockInv, WritesConfined, PlanOK, Atomic!RemoveRow,
           Commit, View
      <3>2. CASE ins[r] # {}
        <4>1. del[r] = {}
          BY <3>2 DEF IInv, LockInv, WritesConfined, PlanOK
        <4>2. \A t, u \in ins[r] : t.at = u.at
          BY DEF IInv, LockInv, WritesConfined
        <4>3. ledger \subseteq ledger' /\ ledger' \ ledger \subseteq ins[r]
          BY <2>1, <4>1 DEF Commit, View
        <4>. QED  BY <4>2, <4>3 DEF Atomic!AddRows
      <3>. QED  BY <3>1, <3>2
    <2>3. \A p \in Position : Fits(OnPosition(ledger', p))
      BY DEF IInv, NoOversell
    <2>4. covered' \subseteq covered
      BY <2>1 DEF Commit
    <2>. QED
      BY <2>1, <2>2, <2>3, <2>4, CommitCuts
         DEF Atomic!Change, OnPosition
  <1>. QED  BY <1>1, <1>2, Inductive, PTL DEF Spec, ImplementsAtomicLedger, Atomic!Spec
=============================================================================

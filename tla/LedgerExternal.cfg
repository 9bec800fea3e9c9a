SPECIFICATION FairSpec
CONSTANTS
    r1 = r1
    r2 = r2
    r3 = r3
    n1 = n1
    e1 = e1
    e2 = e2
    NoExt = NoExt
    Ext = {e1, e2}
    Request = {r1, r2}
    Runner = {n1}
    Position = {1, 2}
    Calls <- CrossingCalls
    Today = 3
    PoolSize = 2
    InitialLedger <- OneShare
    SnapshotDays = {1, 2}
INVARIANTS
    LockWaitersAreSafe
PROPERTIES
    
    EveryCallEnds

SPECIFICATION Spec
CONSTANTS
    r1 = r1
    r2 = r2
    r3 = r3
    n1 = n1
    e1 = e1
    e2 = e2
    NoExt = NoExt
    Ext = {e1, e2}
    Request = {r1, r2, r3}
    Runner = {}
    Position = {1, 2}
    Calls <- MixedCalls
    Today = 3
    PoolSize = 2
    InitialLedger <- OneShare
    SnapshotDays = {1, 2}
SYMMETRY MCSymmetry
INVARIANTS
    TypeOK
    NoOversell
    ExternalIdUnique
PROPERTIES
    PositionStable
    ImplementsAtomicLedger

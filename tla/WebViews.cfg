SPECIFICATION FairSpec
CONSTANTS
    w1 = w1
    w2 = w2
    Write = {w1}
    Kinds = {"updateAsset", "upsertPrices", "createTransaction", "import"}
    Pages = {"assets", "pricing", "transactions", "holdings"}
    MaxVisits = 3
    MaxTrouble = 1
INVARIANTS
    FreshIsCurrent
    ShownIsCurrent
PROPERTIES
    EveryWriteEnds
CHECK_DEADLOCK FALSE

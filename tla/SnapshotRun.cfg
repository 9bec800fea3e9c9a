SPECIFICATION Spec
CONSTANTS
    w1 = w1
    n1 = n1
    n2 = n2
    q1 = q1
    NoRun = NoRun
    Position = {1, 2}
    LastDay = 2
    Writer = {w1}
    Runner = {n1, n2}
    Overlap = FALSE
    Reader = {q1}
    Changes = {"create", "delete"}
    InitialTrades <- OnePurchase
    MaxQuote = 1
INVARIANTS
    DayIsWhole
    RunRepairs
    AnswerDaysAreWhole
SYMMETRY Runs

SPECIFICATION MCSpec
CONSTANTS
    NoExt = NoExt
    Ext = {}
    PriceUnit = 3
    Deals <- SmallDeals
    MaxTrades = 4
    Class <- FourClasses
    Value <- SmallValues
    TOTAL_UNITS = 10000
    Years = {2023, 2024, 2025}
    MAX_POINTS = 2000
    LastDay = 3
    MaxQty = 2
    MaxFolded = 4
    Position <- SharedAsset
    Values = {1}
    Unit = 2
    LastDate = 2
    Account = {1, 2}
    Asset = {1, 2}
    Folded <- OpenOrClosed
    Price = {3}
    Currency = {"JPY", "USD"}
INVARIANTS
    EveryPresetIsAnswered
CHECK_DEADLOCK FALSE

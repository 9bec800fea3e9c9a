SPECIFICATION MCSpec
CONSTANTS
    c1 = c1
    c2 = c2
    Caller = {c1, c2}
    LastDay = 56
    FirstToday = 55
    Weekend <- Weekends
    Holidays = {30, 31}
    MaxCalendarDays = 4
    MaxBusinessDays = 2
    MaxAttempts = 1
    Wanted = {3, 36, 48, 55}
    Ranges <- TwoRanges
    Leftovers <- TwoTables
    MaxGapDays = 7
    SeedLookbackDays = 30
    MaxTailDays = 4
INVARIANTS
    TodayIsNewest
    NeverTooOld
    JudgedDaysAreFresh
PROPERTIES
    EveryCallEnds
CHECK_DEADLOCK FALSE

SPECIFICATION MCSpec
CONSTANTS
    Row = {"a", "b"}
    Texts <- SomeTexts
    Garbled <- AllBad
    MaxRows = 3
    MaxEdits = 2
    MaxRequests = 3
    TTL = 3
    Skew = 2
    Leeway = 1
    MaxTime = 5
    MaxSends = 2
    Text = {"", "c"}
    Names = {"a", "b"}
    MaxForms = 2
    MaxSent = 2
    MaxSteps = 2
    Option = {"x", "y"}
    Query = {"s", "t"}
    Delay = 2
    MaxChoices = 3
INVARIANTS
    TypeOK
    ReportIsOfItsCsv
    DoneIsStored
    RowsOnce
    RefusedOnlyWhenSlow
    RefusedIsGuest
    PatchIsWhatWasTyped
    ErrorIsOfItsForm
    OncePerForm
    ShownIsSelected
    NoDeadEnd
PROPERTIES
    SearchIsTheText
CHECK_DEADLOCK FALSE

SPECIFICATION FairSpec
CONSTANTS
    Procs = {p1}
    LOADS <- BothTables
    Modes = {TRUE, FALSE}
    Lookback = 1
    MaxLate = 1
    Retention = 2
    Lingers = TRUE
    LastDay = 3
    MaxSpans = 2
    MaxFailures = 2
INVARIANTS
    LagIsReachable
    NeverOverstates
    CompletedRefreshIsUpToDate
PROPERTY
    AgreesAgain

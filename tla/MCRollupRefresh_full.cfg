SPECIFICATION Spec
CONSTANTS
    Procs = {p1}
    LOADS <- OneTable
    Modes = {TRUE, FALSE}
    Lookback = 1
    MaxLate = 1
    Retention = 3
    Lingers = FALSE
    LastDay = 3
    MaxSpans = 2
    MaxFailures = 1
INVARIANT
    BringsUpToDate

SPECIFICATION Spec
CONSTANTS
    Procs = {p1}
    LOADS <- OneTable
    Modes = {FALSE}
    Lookback = 1
    MaxLate = 1
    Retention = 2
    Lingers = TRUE
    LastDay = 3
    MaxSpans = 2
    MaxFailures = 1
INVARIANT
    SafeToRerun

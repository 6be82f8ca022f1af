SPECIFICATION Spec
SYMMETRY Interchangeable
CONSTANTS
    a = a
    b = b
    c = c
    Procs = {p1, p2}
    Commits <- AB
    TrueWork <- ABWork
    Slow = {}
    Failing = {}
    Views <- ABViews
    Methods = {"GET"}
    HypIds = {h1, h2}
    MaxDeploys = 2
    MaxOpens = 2
    MaxVerifs = 1
    None = None
CHECK_DEADLOCK FALSE
INVARIANT
    OneClaimPerIncident

SPECIFICATION Spec
SYMMETRY Interchangeable
CONSTANTS
    a = a
    b = b
    c = c
    Procs = {p1}
    Commits <- ABC
    TrueWork <- ABCWork
    Slow = {c}
    Failing = {c}
    Views <- ABCViews
    Methods = {"GET", "POST"}
    HypIds = {h1, h2, h3}
    MaxDeploys = 2
    MaxOpens = 2
    MaxVerifs = 1
    None = None
CHECK_DEADLOCK FALSE
INVARIANTS
    LatencyIsReproducible
    OneClaimPerIncident
    SendsOnlySafeRequests

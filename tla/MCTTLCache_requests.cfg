SPECIFICATION FairSpec
CONSTANTS
    Callers = {c1, c2, c3}
    Keys = {k1, k2}
    TTL = 1
    MaxEntries = 1
    MaxLoad = 1
    MaxTime = 2
    None = None
CHECK_DEADLOCK FALSE
INVARIANTS
    NobodyIsStranded
    HitsAreFresh
PROPERTIES
    SharesLoads
    EveryCallerReturns

SPECIFICATION FairSpec
CONSTANTS
    Experiments <- Some
    Repeat = 2
    Settle = 2
    Patience = 3
    Threshold = 3
    Allowance = 0
    Checks = 1
    MaxFailures = 0
    MaxFaults = 0
INVARIANTS
    RootsAreAccountedFor

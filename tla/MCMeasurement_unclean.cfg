SPECIFICATION FairSpec
CONSTANTS
    Experiments <- Worse
    Repeat = 2
    Settle = 2
    Patience = 3
    Threshold = 3
    Allowance = 0
    Checks = 0
    MaxFailures = 2
    MaxFaults = 0
INVARIANTS
    ConclusionsAreTrustworthy

SPECIFICATION FairSpec
CONSTANTS
    Experiments <- Some
    Repeat = 2
    Settle = 2
    Patience = 4
    Threshold = 3
    Allowance = 0
    Checks = 1
    MaxFailures = 1
    MaxFaults = 1
INVARIANTS
    MeasuresItsOwn
    VerdictIsTrue
PROPERTY
    EveryExperimentEnds

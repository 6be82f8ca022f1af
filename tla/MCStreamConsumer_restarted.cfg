SPECIFICATION FairSpec
CONSTANTS
    v1 = v1
    v2 = v2
    Versions <- Two
    TrueWork <- Work
    Slow = {v2}
    Failing = {}
    Junk = {"malformed", "not_an_object"}
    FromBeginning = TRUE
    MaxSamples = 1
    MinSamples = 1
    EvaluateEvery = 2
    MaxSpans = 3
    MaxLog = 4
    MaxDeploys = 2
    MaxStarts = 2
    None = None
CHECK_DEADLOCK FALSE
INVARIANTS
    NothingIsSkipped
    WindowsAreExact
    NewestLast
    FinalVerdictIsTold
PROPERTIES
    DeliversInOrder
    KeepsUp

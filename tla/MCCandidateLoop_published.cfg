SPECIFICATION Spec
CONSTANTS
    Workers = {w1}
    MaxIncidents = 2
    Spans <- Evidences
    Outcomes <- Tests
    Repairs <- Fixes
    MaxAttempts = 2
    MaxRuns = 2
    Faults = {"expiry"}
    MaxFaults = 1
    Nothing = Nothing
INVARIANT
    PublishedIsSound

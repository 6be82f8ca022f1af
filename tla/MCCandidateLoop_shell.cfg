SPECIFICATION FairSpec
CONSTANTS
    Workers = {w1}
    MaxIncidents = 2
    Spans <- Evidences
    Outcomes <- Tests
    Repairs <- Fixes
    MaxAttempts = 2
    MaxRuns = 2
    Faults = {"kill", "expiry", "sandbox", "generation", "short"}
    MaxFaults = 1
    Nothing = Nothing
INVARIANTS
    CertifiedUnlessBroken
    EvidenceIsSound
    CitesItsOwnIncident
    PublishedUnlessInterrupted
    JudgedByTheCertified
PROPERTIES
    NothingRejectedIsKept
    EveryCommandEnds

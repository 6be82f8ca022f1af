SPECIFICATION Spec
CONSTANTS
    u1 = u1
    u2 = u2
    bad = bad
    fix = fix
    Users = {u1, u2}
    Commits = {bad, fix}
    Patched = {fix}
    Uses <- SomeUses
    Keepers = {u1}
    MaxRuns = 2
    MaxKills = 0
    MaxFaults = 0
INVARIANTS
    UnclaimedIsCollectable
CHECK_DEADLOCK FALSE

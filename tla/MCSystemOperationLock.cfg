SPECIFICATION LockSpec
CONSTANTS
    Runners = {p1, p2}
    Fingerprints = {o1, o2}
    TTL = 3
    ProcessingTimeout = 2
    MaxTime = 5
SYMMETRY Symmetry
INVARIANTS
    ExclusiveOperation

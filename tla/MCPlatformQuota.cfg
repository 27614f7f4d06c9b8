SPECIFICATION Spec
CONSTANTS
    Requests = {r1, r2}
    Writers = {g1, g2}
    Limit = 2
    Origins = {"registered", "legacy"}
    Faults = TRUE
    LastWindow = 2
    MaxSpent = 2
SYMMETRY Symmetry
INVARIANTS
    PersistedUsageExact
PROPERTY
    NeverRejectedEarly

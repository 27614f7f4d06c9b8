SPECIFICATION BreakerSpec
CONSTANTS
    Handlers = {r1, r2, r3, r4, r5}
    FailureThreshold = 3
    HalfOpenRequests = 3
INVARIANTS
    ProbesPending
    ClosedBelowThreshold
PROPERTY
    Recovers

SPECIFICATION Spec
CONSTANTS
    Callers = {c1, c2}
    Fingerprints = {f1, f2}
    TTL = 3
    ProcessingTimeout = 2
    FailedRetryBackoff = 1
    MaxTime = 5
SYMMETRY Symmetry
INVARIANTS
    ExclusiveExecution
    RepliesMatchRequest
PROPERTY
    NoRepeatWithinTTL

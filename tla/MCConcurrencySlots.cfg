SPECIFICATION Spec
CONSTANTS
    Requests = {r1, r2}
    Processes = {p1, p2, p3}
    First = p1
    Faults = TRUE
    MaxConcurrency = 1
    MaxWait = 1
    SlotTTL = 2
    MaxTime = 4
INVARIANTS
    ConcurrencyLimit
    NoSlotLeak
    WaitCountExact
PROPERTY
    RequestsEnd
CHECK_DEADLOCK FALSE

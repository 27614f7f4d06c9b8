SPECIFICATION Spec
CONSTANTS
    r1 = r1
    r2 = r2
    Requests = {r1, r2}
    Cost <- MCCost
    InitialBalance = 1
    TopUpAmount = 4
    Faults = TRUE
INVARIANTS
    TypeOK
    ErrorExplained
PROPERTY
    StopDrains
CHECK_DEADLOCK FALSE

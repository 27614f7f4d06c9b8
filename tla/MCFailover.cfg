SPECIFICATION Spec
CONSTANTS
    a1 = a1
    a2 = a2
    NoAccount = NoAccount
    Accounts <- const_Accounts
    Antigravity <- const_Antigravity
    MaxSwitches = 2
    MaxSameAccountRetries = 1
INVARIANTS
    AttemptsBounded
    NoStreamSplicing
    SlotOnlyWhileForwarding
    UsageMatchesOutcome
PROPERTIES
    UnscheduledAfterRetries
    Terminates
CHECK_DEADLOCK FALSE

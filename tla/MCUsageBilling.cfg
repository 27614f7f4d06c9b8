SPECIFICATION BillingSpec
CONSTANTS
    d1 = d1
    d2 = d2
    d3 = d3
    d4 = d4
    d5 = d5
    r1 = r1
    r2 = r2
    f1 = f1
    f2 = f2
    Deliveries = {d1, d2, d3, d4, d5}
    Requests = {r1, r2}
    Fingerprints = {f1, f2}
    Req <- MCReq
    Fp <- MCFp
    Cost <- MCCost
    InitialBalance = 3
    KeyQuota = 2
    AccountLimit = 4
INVARIANTS
    CacheToldOnce
    ExhaustedByOneCharge
    SchedulerTold
PROPERTIES
    AtMostOnce
    DeliveriesEnd
CHECK_DEADLOCK FALSE

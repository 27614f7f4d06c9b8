SPECIFICATION Spec
CONSTANTS
    w1 = w1
    w2 = w2
    r1 = r1
    i1 = i1
    i2 = i2
    Workers = {w1}
    Requests = {r1}
    Instances = {i1, i2}
    Home <- Apart
    MaxRetries = 2
    MaxGen = 2
    MaxFaults = 2
PROPERTIES
    TokenRefreshed
INVARIANTS
    TypeOK
    ExclusiveRefresh
    CredentialsKept
    ErrorExplained
    CacheCurrent

SPECIFICATION Spec
CONSTANTS
    Requests = {r1, r2}
    Modes = {"any", "force", "new"}
    MaxConns = 2
    MaxIdle = 1
    MinIdle = 1
    QueueLimit = 1
    Utilization = 70
    MaxDials = 3
SYMMETRY Sym
INVARIANTS
    ExclusiveLease
    CapacityKept
    NoConnLeak
    LeaseKept

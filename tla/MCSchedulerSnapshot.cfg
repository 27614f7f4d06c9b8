SPECIFICATION Spec
CONSTANTS
    Writers = {w1}
    Billers = {t1}
    Pollers = {p1}
    Rebuilders = {b1}
    Readers = {r1}
    Kinds = {"account"}
    MaxVersion = 2
    MaxEvents = 2
    MaxFaults = 0
    EmptyVersions = {1}
    Gone = {}
    BatchLimit = 2
INVARIANTS
    StaleExplained

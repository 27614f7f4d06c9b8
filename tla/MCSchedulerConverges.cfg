SPECIFICATION Spec
CONSTANTS
    Writers = {w1}
    Billers = {t1}
    Pollers = {p1}
    Rebuilders = {b1}
    Readers = {r1}
    Kinds = {"account", "groups", "group", "full", "used"}
    MaxVersion = 2
    MaxEvents = 1
    MaxFaults = 1
    EmptyVersions = {2}
    Gone = {2}
    BatchLimit = 2

    
PROPERTIES
    Converges

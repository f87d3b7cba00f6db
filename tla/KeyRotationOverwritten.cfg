SPECIFICATION Spec
CONSTANTS
    p1 = p1
    p2 = p2
    d1 = d1
    d2 = d2
    None = None
    Procs = {p1, p2}
    Docs = {d1}
    MaxKeys = 2
    MaxCrashes = 1
    MaxFaults = 0
    Torn = FALSE
INVARIANTS
    WritesKept

SPECIFICATION FairSpec
CONSTANTS
    p1 = p1
    p2 = p2
    d1 = d1
    d2 = d2
    None = None
    Procs = {p1}
    Docs = {d1, d2}
    MaxKeys = 3
    MaxCrashes = 2
    MaxFaults = 1
    Torn = FALSE
INVARIANTS
    TypeOK
    VaultWhole
    RetiredKeyGone
    CorruptOnlyAfterFault
PROPERTIES
    ImplementsVault
    OperationEnds

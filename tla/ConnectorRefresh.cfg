SPECIFICATION Spec
CONSTANTS
    c1 = c1
    home = home
    elsewhere = elsewhere
    Conns = {c1}
    Vaults = {home, elsewhere}
    Home = home
    MaxAttempts = 2
    MaxUnlocks = 2
    Faults = {"lost", "write"}
INVARIANTS
    OneWalkPerConnection
    CancelledRunWroteNothing
    CommitHoldsVault
PROPERTIES
    RequestStopsCommit
    LedgerRunNeverCancelled

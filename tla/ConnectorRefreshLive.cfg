SPECIFICATION FairSpec
CONSTANTS
    c1 = c1
    home = home
    elsewhere = elsewhere
    Conns = {c1}
    Vaults = {home}
    Home = home
    MaxAttempts = 2
    MaxUnlocks = 2
    Faults = {"write"}
PROPERTIES
    NoRowStuckRunning
    SlotFreed
CHECK_DEADLOCK FALSE

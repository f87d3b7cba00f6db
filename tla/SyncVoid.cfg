SPECIFICATION Spec
CONSTANTS
    None = None
    MaxSeq = 4
    MaxShown = 1
    Versions <- Builds
    Logs <- MCLogs
INVARIANTS
    LedgerParses
    LogDecides
    SpamNeverBlocks

SPECIFICATION FairSpec
CONSTANTS
    backup = backup
    other = other
    Jobs = {backup, other}
    BackupJob = backup
    OnceJobs = {other}
    MaxAttempts = 2
    MaxUnlocks = 2
    Faults = {"export"}
PROPERTIES
    CancelIsFinal
    NoRowStuckRunning

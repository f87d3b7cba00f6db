SPECIFICATION Spec
CONSTANTS
    backup = backup
    other = other
    Jobs = {backup}
    BackupJob = backup
    OnceJobs = {}
    MaxAttempts = 2
    MaxUnlocks = 3
    Faults = {"watch", "store", "receipt", "export"}
INVARIANTS
    CancelLeavesDestination
    AttemptBudget
    ClaimIsHeld
PROPERTIES
    RecordedOutcomeIsTrue

SPECIFICATION Spec
CONSTANTS
    a1 = a1
    a2 = a2
    None = None
    Attempts = {a1, a2}
    MaxFailed = 2
    MaxAge = 1
    MaxClock = 1
    MaxKeys = 2
    MaxStops = 1
SYMMETRY AttemptSymmetry
INVARIANTS
    MarkersCarryPassword
    OfferedItemOpens
    RetiredItemGone
PROPERTIES
    PromptRule

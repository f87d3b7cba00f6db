SPECIFICATION MCSpec
CONSTANTS
    None = None
    account = account
    Rows = {account}
    MaxLocal = 3
    MaxDispatch = 2
    MaxRemote = 1
    MaxImages = 2
INVARIANTS
    TypeOK
    BaseIsServerState
    NothingUnaccounted
    PlanIsLeastClosure
    RebuiltVaultIsWhole

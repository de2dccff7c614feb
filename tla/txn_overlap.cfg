SPECIFICATION FairSpec
CONSTANTS
    patch = patch
    other = other
    undo = undo
    NoTxn = NoTxn
    Base = Base
    Edit = Edit
    Txns = {patch}
    RollbackOf <- Inverses
    Members = 2
    MaxReconcile = 2
    MaxEdits = 1
    MaxCrashes = 1
    StorageErrors = TRUE
    LeaseMayExpire = TRUE
    Overlap = TRUE
INVARIANTS
    LedgerFollowsDisk
PROPERTIES
    StartedIsSettled
CHECK_DEADLOCK FALSE

SPECIFICATION Spec
CONSTANTS
    patch = patch
    other = other
    undo = undo
    NoTxn = NoTxn
    Base = Base
    Edit = Edit
    Txns = {patch, other}
    RollbackOf <- Inverses
    Members = 2
    MaxReconcile = 1
    MaxEdits = 0
    MaxCrashes = 1
    StorageErrors = TRUE
    LeaseMayExpire = TRUE
    Overlap = FALSE
INVARIANTS
    OutcomeIsTruthful
    OneWriter
CHECK_DEADLOCK FALSE

SPECIFICATION Spec
CONSTANTS
    patch = patch
    other = other
    undo = undo
    NoTxn = NoTxn
    Base = Base
    Edit = Edit
    Txns = {patch, undo}
    RollbackOf <- Inverses
    Members = 2
    MaxReconcile = 1
    MaxEdits = 2
    MaxCrashes = 1
    StorageErrors = TRUE
    LeaseMayExpire = FALSE
    Overlap = FALSE
INVARIANTS
    OutcomeIsTruthful
PROPERTIES
    WritesOverBefore
CHECK_DEADLOCK FALSE

SPECIFICATION Spec
CONSTANTS
    MaxReconcile = 3
    MaxExits = 2
    CallsDetach = TRUE
    LinesDrop = TRUE
INVARIANTS
    PushedAtMostOnce
    SuccessIsReal
    ReportedFailureIsDefinite
PROPERTIES
    NeverOverwritesOthers
CHECK_DEADLOCK FALSE

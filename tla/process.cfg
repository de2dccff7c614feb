SPECIFICATION FairSpec
CONSTANTS
    MaxReceipts = 2
    MaxFaults = 2
    OwnerMayDie = TRUE
INVARIANTS
    LeaseIsTrue
    ReportIsTrue
PROPERTIES
    TerminalIsFinal
    GroupIsReaped
    LeaseSettles
CHECK_DEADLOCK FALSE

SPECIFICATION Spec
CONSTANTS
    write = write
    read = read
    deny = deny
    NoHost = NoHost
    Hosts = {h1, h2}
    Plans = {write}
    FactsOf <- PlanFacts
    Members = 2
    MaxReconcile = 2
    MaxSequence = 256
    MaxFaults = 3
    LockMayBeLost = TRUE
INVARIANTS
    LedgerMatchesRoute
    EffectAtMostOnce
    OpenRuntimeOwesNothing
PROPERTIES
    FencedLedger
CHECK_DEADLOCK FALSE

SPECIFICATION FairSpec
CONSTANTS
    write = write
    read = read
    deny = deny
    NoHost = NoHost
    Hosts = {h1}
    Plans = {write, read, deny}
    FactsOf <- PlanFacts
    Members = 2
    MaxReconcile = 2
    MaxSequence = 9
    MaxFaults = 2
    LockMayBeLost = FALSE
INVARIANTS
    TypeOK
    StoresAgreeOnApproval
    NoEffectBeforeApproval
    AuditChainAccountsForLedger
    UnsettledRouteCanAppend
    OpenCatalogueIsExact
PROPERTIES
    ReopensEventually
    ImplementsContract
CHECK_DEADLOCK FALSE

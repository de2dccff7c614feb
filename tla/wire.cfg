SPECIFICATION FairSpec
CONSTANTS
    first = first
    again = again
    other = other
    NoCall = NoCall
    Calls = {first, again, other}
    IdOf <- SharedId
    MaxPendingRequests = 2
    ServerPending = 1
    MaxOutbound = 1
    PipeSize = 1
    MaxCancels = 1
    MaxFaults = 1
INVARIANTS
    AnswersAreOwn
    SlotsAreAccountedFor
PROPERTIES
    RegisteredCallEnds
    CloseSettles
CHECK_DEADLOCK FALSE

SPECIFICATION Spec
CONSTANTS
    MaxTurns = 1
    MaxFresh = 1
    MaxSteps = 2
    MaxAttempts = 2
    MaxParallelTools = 2
    Prompt = "prompt"
    Steers = {"steer"}
    Responses <- EveryKind
    MaxFaults = 1
    Cancels = TRUE
    Expires = TRUE
    Failures = TRUE
    Retries = FALSE
INVARIANTS TypeOK SteeringReachesModel EffectNeedsBothLedgers ReportsAreTrue TerminalTurnIsClosed
PROPERTIES NothingAfterTheEnd
CHECK_DEADLOCK FALSE

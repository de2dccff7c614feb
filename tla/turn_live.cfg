SPECIFICATION FairSpec
CONSTANTS
    MaxTurns = 2
    MaxFresh = 1
    MaxSteps = 2
    MaxAttempts = 1
    MaxParallelTools = 2
    Prompt = "prompt"
    Steers = {}
    Responses <- GatewayCalls
    MaxFaults = 1
    Cancels = FALSE
    Expires = FALSE
    Failures = FALSE
    Retries = TRUE
INVARIANTS RetryIsSafe
PROPERTIES TurnProgresses ImplementsContract
CHECK_DEADLOCK FALSE

SPECIFICATION FairSpec
CONSTANTS
    MaxTurns = 1
    MaxFresh = 1
    MaxSteps = 2
    MaxAttempts = 1
    MaxParallelTools = 2
    Prompt = "prompt"
    Steers = {}
    Responses <- OneAction
    MaxFaults = 1
    Cancels = FALSE
    Expires = FALSE
    Failures = FALSE
    Retries = FALSE
PROPERTIES NoModelStepInDoubt
CHECK_DEADLOCK FALSE

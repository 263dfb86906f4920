SPECIFICATION Spec
CONSTANTS
    Callers = {c1}
    Reconcilers = {r1}
    ReusesModelRun = FALSE
    BridgeStalls = TRUE
    StalledRetryable = TRUE
    Retries = 1
    ReemissionLimit = 2
    ProbeAttempts = 1
    MaxGeneration = 1
    MaxAttempt = 2
    MaxCrashes = 0
    MaxDrops = 0
    MaxLapses = 0
    MaxCancels = 0
    MaxTurns = 0
CHECK_DEADLOCK FALSE
INVARIANT OneUnresolvedSubmission

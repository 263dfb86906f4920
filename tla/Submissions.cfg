SPECIFICATION Spec
CONSTANTS
    Callers = {c1, c2}
    Reconcilers = {r1, r2}
    ReusesModelRun = TRUE
    BridgeStalls = TRUE
    StalledRetryable = FALSE
    Retries = 1
    ReemissionLimit = 2
    ProbeAttempts = 2
    MaxGeneration = 1
    MaxAttempt = 2
    MaxCrashes = 2
    MaxDrops = 1
    MaxLapses = 1
    MaxCancels = 1
    MaxTurns = 1
CHECK_DEADLOCK FALSE
INVARIANTS TypeOK FirstGenerationSubmitsOnce ResumedAnswerIsArchived
PROPERTY ArchivedAnswerStays
CONSTRAINT Scenario
SYMMETRY Symmetry

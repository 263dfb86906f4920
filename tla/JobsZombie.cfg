CONSTANTS
    j1 = j1
    j2 = j2
    w1 = w1
    w2 = w2
    NoJob = NoJob
    JobIds = {j1}
    Workers = {w1, w2}
    MaxAttempts <- TwoAttempts
    DurableKinds = {j1}
    ResumableKinds = {j1}
    ProductionJobs = {j1}
    LossyDispatch = FALSE
    MaxMessages = 2
    MaxExpirations = 2
    MaxRefunds = 2
SPECIFICATION FairSpec
INVARIANTS TypeOK AttemptAccounting QueuedIsClaimable SoleExecutor NoStrandedJob
PROPERTIES CancellationWins PauseHolds EveryJobSettles
CHECK_DEADLOCK FALSE

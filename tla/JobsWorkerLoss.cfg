CONSTANTS
    j1 = j1
    j2 = j2
    w1 = w1
    w2 = w2
    NoJob = NoJob
    JobIds = {j1}
    Workers = {w1}
    MaxAttempts <- OneAttempt
    DurableKinds = {}
    ResumableKinds = {j1}
    ProductionJobs = {j1}
    LossyDispatch = FALSE
    MaxMessages = 1
    MaxExpirations = 1
    MaxRefunds = 0
SPECIFICATION Spec
INVARIANTS WorkerLossIsSurvived
CHECK_DEADLOCK FALSE

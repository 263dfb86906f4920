CONSTANTS
    j1 = j1
    j2 = j2
    w1 = w1
    w2 = w2
    NoJob = NoJob
    JobIds = {j1, j2}
    Workers = {w1, w2}
    MaxAttempts <- MixedAttempts
    DurableKinds = {j1}
    ResumableKinds = {j1}
    ProductionJobs = {}
    LossyDispatch = TRUE
    MaxMessages = 1
    MaxExpirations = 1
    MaxRefunds = 0
SPECIFICATION Spec
SYMMETRY WorkerSymmetry
PROPERTIES ImplementsLifecycle
CHECK_DEADLOCK FALSE

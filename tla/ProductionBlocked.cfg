SPECIFICATION FairSpec
CONSTANTS
    alice = alice
    bob = bob
    Order <- TwoSubjects
    LastStage = 1
    MaxAttempts = 1
    Clients = {alice}
    MaxRequests = 1
    MaxGeneration = 0
    MaxRestarts = 0
    MaxCrashes = 1
    MaxAborts = 0
CHECK_DEADLOCK FALSE
PROPERTY BatchSettles

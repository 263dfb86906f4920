SPECIFICATION FairSpec
CONSTANTS
    alice = alice
    bob = bob
    Order <- TwoSubjects
    LastStage = 2
    MaxAttempts = 2
    Clients = {alice}
    MaxRequests = 1
    MaxGeneration = 1
    MaxRestarts = 0
    MaxCrashes = 0
    MaxAborts = 0
CHECK_DEADLOCK FALSE
PROPERTY BatchSettles

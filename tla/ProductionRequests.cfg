SPECIFICATION Spec
CONSTANTS
    alice = alice
    bob = bob
    Order <- TwoSubjects
    LastStage = 1
    MaxAttempts = 1
    Clients = {alice, bob}
    MaxRequests = 3
    MaxGeneration = 1
    MaxRestarts = 1
    MaxCrashes = 1
    MaxAborts = 1
CHECK_DEADLOCK FALSE
SYMMETRY Symmetry
INVARIANTS TypeOK FirstPassInOrder ClosedBatchIsQuiet
PROPERTIES CancelledStays
CONSTRAINT Scenario

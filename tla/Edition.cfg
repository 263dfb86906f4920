SPECIFICATION Spec
CONSTANTS
    k1 = k1
    k2 = k2
    Subjects = {s1, s2}
    Keys = {k1, k2}
    Requests = {p1, p2}
    Workers = {w1, w2}
    MaxAttempts = 2
    MaxGeneration = 2
    MaxDocument = 2
    MaxEdition = 2
    MaxDecisions = 2
    MaxManifests = 2
    MaxJobs = 2
    MaxLosses = 1
INVARIANTS
    TypeOK
    OneLiveJob
PROPERTIES
    ReleaseIsAsReviewed
    RepeatIsAnswered
CHECK_DEADLOCK FALSE
SYMMETRY Symmetry
CONSTRAINT Scenario

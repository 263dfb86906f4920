SPECIFICATION FairReadSpec
CONSTANTS
    r1 = r1
    i1 = i1
    i2 = i2
    other = other
    NoCall = NoCall
    NoInvocation = NoInvocation
    Readers = {r1}
    Invocations = {i1, i2}
    MaxRequests = 2
    CallOf <- Itself
    Calls <- ReaderAndOther
    Keys <- ReaderCalls
    KeyOf <- OccurrenceOf
    InvocationOf <- InvocationOfCall
    FamilyOf <- Reads
    Deferred <- FirstAttempts
    MaxVersion = 1
INVARIANTS
    SendsWithinReservation
    ReadersTypeOK
    ProvenRefusalSentNothing
    AmbiguityIsContained
PROPERTIES
    EveryReadEnds
CONSTRAINT
    Scenario

SPECIFICATION Spec
CONSTANTS
    c1 = c1
    c2 = c2
    c3 = c3
    m1 = m1
    k1 = k1
    k2 = k2
    i1 = i1
    i2 = i2
    i3 = i3
    NoCall = NoCall
    NoInvocation = NoInvocation
    Calls = {c1, c2, c3, m1}
    Keys = {k1, k2}
    Invocations = {i1, i2, i3}
    KeyOf <- ReadAndModel
    InvocationOf <- ThreeInvocations
    FamilyOf <- Families
    Deferred = {}
    MaxVersion = 2
INVARIANTS
    TypeOK
    AtMostOnce
    ClaimIsTruthful
    AmbiguityIsContained
    OwnSendIsNotReuse
PROPERTIES
    SealedIsBarrier
    ImplementsOnceOnly
CONSTRAINT
    Scenario

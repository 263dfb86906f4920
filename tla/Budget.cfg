SPECIFICATION Spec
CONSTANTS
    t0 = t0
    t1 = t1
    r1 = r1
    a1 = a1
    x1 = x1
    l1 = l1
    Turns = {t0, t1}
    Tools = {r1, a1, x1, l1}
    Kind <- MCKind
    Attempt <- MCAttempt
    Cost <- MCCost
    Dims <- MCDims
    ExternalDims <- MCExternalDims
    Dim <- MCDim
    Limit <- MCLimit
    MaxLimit = 2
    MaxDecisions = 1
    MaxRuns = 2
CHECK_DEADLOCK FALSE
INVARIANTS TypeOK ToolsStayCharged NoStrandedReservation
PROPERTIES NoOvercommit FundedSend SettlementIsFinal
CONSTRAINT Scenario

CONSTANTS
    Clients = {c1, c2}
    c1 = c1
    c2 = c2
    MaxIssued = 2
    MaxRevisions = 1
    MaxReissues = 1
    MaxFaults = 1
SPECIFICATION FairSpec
PROPERTY DecisionFinal
PROPERTY DecisionLeavesGate
PROPERTY LapseEscalates
CHECK_DEADLOCK FALSE

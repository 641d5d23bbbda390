CONSTANTS
    Workers = {w1}
    Clients = {c1}
    Actions = {a1, a2, a3}
    w1 = w1
    c1 = c1
    a1 = a1
    a2 = a2
    a3 = a3
    NoAction = NoAction
    MaxRevisions = 1
    MaxRecs = 1
    MaxRequests = 2
    MaxCrashes = 1
    MaxFaults = 1
    Patient = FALSE
SPECIFICATION FairSpec
PROPERTY TransientStatusLeft
PROPERTY ConfirmedBriefLeavesGate
CHECK_DEADLOCK FALSE

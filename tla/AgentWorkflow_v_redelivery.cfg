CONSTANTS
    Workers = {w1}
    Clients = {c1}
    Actions = {a1, a2}
    w1 = w1
    c1 = c1
    a1 = a1
    a2 = a2
    NoAction = NoAction
    MaxRevisions = 1
    MaxRecs = 1
    MaxRequests = 1
    MaxCrashes = 1
    MaxFaults = 0
    Patient = TRUE
SPECIFICATION Spec
SYMMETRY Symmetry
INVARIANT ExportFollowsApproval
CHECK_DEADLOCK FALSE

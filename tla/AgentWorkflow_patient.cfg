CONSTANTS
    Workers = {w1, w2}
    Clients = {c1, c2}
    Actions = {a1, a2, a3}
    w1 = w1
    w2 = w2
    c1 = c1
    c2 = c2
    a1 = a1
    a2 = a2
    a3 = a3
    NoAction = NoAction
    MaxRevisions = 1
    MaxRecs = 1
    MaxRequests = 4
    MaxCrashes = 0
    MaxFaults = 1
    Patient = TRUE
SPECIFICATION Spec
SYMMETRY Symmetry
INVARIANT RouteMatchesAnswer
INVARIANT ExportFollowsApproval
CHECK_DEADLOCK FALSE

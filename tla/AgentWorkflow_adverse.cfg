CONSTANTS
    Workers = {w1}
    Clients = {c1, c2}
    Actions = {a1, a2, a3}
    w1 = w1
    c1 = c1
    c2 = c2
    a1 = a1
    a2 = a2
    a3 = a3
    NoAction = NoAction
    MaxRevisions = 1
    MaxRecs = 1
    MaxRequests = 3
    MaxCrashes = 1
    MaxFaults = 1
    Patient = FALSE
SPECIFICATION Spec
SYMMETRY Symmetry
INVARIANT ArtefactsExist
INVARIANT ApprovalPauseHasDraft
INVARIANT RevisionBound
INVARIANT WorkNotStranded
CHECK_DEADLOCK FALSE

CONSTANTS
    Docs = {d1, d2}
    d1 = d1
    d2 = d2
    NoDoc = NoDoc
    Scanned = {}
    Twins = {}
    Stages = {"defined_terms", "deadlines"}
    MaxRetries = 0
    MaxReprocess = 0
    MaxErrors = 0
    MaxOutages = 0
    MaxCrashes = 0
SPECIFICATION Spec
INVARIANT ConflictsSwept
CHECK_DEADLOCK FALSE

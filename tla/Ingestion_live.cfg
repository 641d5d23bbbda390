CONSTANTS
    Docs = {d1, d2}
    d1 = d1
    d2 = d2
    NoDoc = NoDoc
    Scanned = {d2}
    Twins = {d1, d2}
    Stages = {"deadlines"}
    MaxRetries = 1
    MaxReprocess = 0
    MaxErrors = 0
    MaxOutages = 1
    MaxCrashes = 0
SPECIFICATION FairSpec
PROPERTY DocumentSettles
CHECK_DEADLOCK FALSE

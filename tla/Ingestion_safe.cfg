CONSTANTS
    Docs = {d1}
    d1 = d1
    NoDoc = NoDoc
    Scanned = {d1}
    Twins = {}
    Stages = {"deadlines"}
    MaxRetries = 1
    MaxReprocess = 2
    MaxErrors = 1
    MaxOutages = 0
    MaxCrashes = 1
SPECIFICATION Spec
INVARIANT PendingIsPursued
PROPERTY ReadyFallsBack
CHECK_DEADLOCK FALSE

SPECIFICATION Spec
CONSTANTS
    d1 = d1
    d2 = d2
    d3 = d3
    Docs <- MCDocs
    NameOf <- MCNameOf
    HomeOf <- MCHomeOf
    Chunks <- MCChunks
    TopK = 2
    Interpreters = {s1, s2}
    MaxJobs = 1
    Chosen <- MCChosen
    Workspace = "home"
    Selections <- MCSelections
    Clients = {c1, c2}
    Requests = {r1, r2}
    TTL = 2
    MaxRotations = 2
    Goals = {g1}
    Articles = 1
    Numbers = 2
    Limit = 5
    Lengths = {1, 2, 6}
    MaxWords = 2
    MaxSentences = 3
    Parts = {p1, p2}
    ExecutionDates <- MCExecutionDates
    Items <- MCItems
    MaxItems = 2
    MaxEvents = 5
    QueueSize = 2
    BatchSize = 2
    MaxFaults = 2
INVARIANTS
    IndexedIsFound
    CopiesBounded
    AnswerInScope
    KeyExpires
    RefusedOnlyAfterRotation
    ReportIsWhole
    PathIsTrue
    ChunksHoldText
    DeadlinesAreDue
    FlaggedIffConflicting
    LostByOverflow
PROPERTIES
    ClosedStays
    KeepsPromise
    AcceptedIsSettled
\* Goals, sessions and documents come to an end for good.
CHECK_DEADLOCK FALSE

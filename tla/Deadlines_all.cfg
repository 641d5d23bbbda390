CONSTANTS
    Deadlines = {d1, d2}
    d1 = d1
    d2 = d2
    Scanners = {s1, s2}
    s1 = s1
    s2 = s2
    DueTimes = {5, 64}
    NoDate = NoDate
    TicksPerDay = 2
    MaxTime = 66
    MaxFaults = 1
SPECIFICATION FairSpec
CHECK_DEADLOCK FALSE
 
INVARIANT OverdueWithinDay
PROPERTY UrgencyNeverFalls
PROPERTY PassedIsMarked

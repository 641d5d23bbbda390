CONSTANTS
    Callers = {c1, c2, c3}
    Leases = {l1, l2, l3, l4}
    c1 = c1
    c2 = c2
    c3 = c3
    l1 = l1
    l2 = l2
    l3 = l3
    l4 = l4
    NoLease = NoLease
    MaxSlots = 1
    LeaseTime = 2
    KeyTime = 5
    MaxStall = 1
    MaxCrashes = 1
SPECIFICATION FairSpec
INVARIANT SlotBound
INVARIANT YoungLeaseHeld
PROPERTY SlotsComeBack

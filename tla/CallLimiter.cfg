SPECIFICATION Spec
CONSTANTS
    p1 = p1
    p2 = p2
    c1 = c1
    c2 = c2
    c3 = c3
    Proc = {p1, p2}
    Lease = {l1, l2}
    Free = Free
    Limit = 1
    Call = {c1, c2, c3}
    Home <- MCHome
    NoCall = NoCall
    NoLease = NoLease
    MaxSize = 1
    MaxQueue = 1
    DrainLimit = 1
    CompactThreshold = 0
    CompactBatch = 2
    MaxTroubles = 1
    Stops = {p1}
SYMMETRY Symmetry
INVARIANTS SlotInv WithinLimit CountersMatch NoLostWakeup NoCallLost SlotsAccounted
PROPERTIES WarnedFirst
CHECK_DEADLOCK FALSE

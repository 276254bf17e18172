SPECIFICATION FairSpec
CONSTANTS
    p1 = p1
    p2 = p2
    s = s
    t = t
    u = u
    c = c
    Proc = {p1, p2}
    Scans = {s, t}
    Uploads = {u}
    Clears = {c}
    Home <- MCHome
    Capacity = 1
    MaxTroubles = 1
INVARIANTS Handover
PROPERTIES StatusHonest NothingLingers
CHECK_DEADLOCK FALSE

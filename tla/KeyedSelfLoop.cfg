SPECIFICATION FairSpec
CONSTANTS
    p1 = p1
    p2 = p2
    c3 = c3
    Proc = {p1, p2}
    Coroutine = {c1, c2}
    Home <- MCHome
    Nobody = Nobody
    Entity = {1, 2}
    SelfLoops = TRUE
    MaxTroubles = 0
PROPERTIES EnterEnds
CHECK_DEADLOCK FALSE

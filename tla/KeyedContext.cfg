SPECIFICATION FairSpec
CONSTANTS
    p1 = p1
    p2 = p2
    c3 = c3
    Proc = {p1, p2}
    Coroutine = {c1, c2, c3}
    Home <- MCHome
    Nobody = Nobody
    Entity = {1, 2}
    SelfLoops = FALSE
    MaxTroubles = 2
INVARIANTS CountsMatch KeyExclusion
PROPERTIES ExitReleases EnterEnds

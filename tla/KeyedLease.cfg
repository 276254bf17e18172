SPECIFICATION FairSpec
CONSTANTS
    Pid = {p1, p2}
    Lease = {l1, l2, l3}
    MaxStart = 2
    NoPid = NoPid
    NoLease = NoLease
    ZombieIsDead = FALSE
    Unreadable = FALSE
    EarlyReuse = FALSE
INVARIANTS MutualExclusion LiveHolderKeepsRecord HolderInv
PROPERTIES LeaseExclusion DeadHolderReclaimed
CHECK_DEADLOCK FALSE

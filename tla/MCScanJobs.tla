----------------------------- MODULE MCScanJobs -----------------------------
EXTENDS ScanJobs, TLC

CONSTANTS p1, p2, s, t, u, c

MCHome == [r \in Request |-> IF r \in {s, u} THEN p1 ELSE p2]
=============================================================================

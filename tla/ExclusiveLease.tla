--------------------------- MODULE ExclusiveLease ---------------------------
(***************************************************************************)
(* What a keyed lock that survives the death of its holders promises: one  *)
(* current lease at a time, which ends only by its own release or after    *)
(* its owner's death.                                                      *)
(***************************************************************************)
CONSTANTS Lease, NoLease

VARIABLES drawn,    \* the leases a worker has asked for
          dead,     \* the leases whose owner has died
          leaving,  \* the leases whose release has been requested
          current   \* the lease that holds the key, or NoLease

vars == <<drawn, dead, leaving, current>>

Init == drawn = {} /\ dead = {} /\ leaving = {} /\ current = NoLease

\* A worker draws a fresh lease.
Draw == \E l \in Lease \ drawn :
            drawn' = drawn \cup {l} /\ UNCHANGED <<dead, leaving, current>>

\* A free key, or the key of a dead worker, goes to a lease somebody has drawn.
Grant == /\ current = NoLease \/ current \in dead
         /\ \E l \in drawn : current' = l
         /\ UNCHANGED <<drawn, dead, leaving>>

\* The owner of a lease asks for its release.
Leave == \E l \in drawn :
            leaving' = leaving \cup {l} /\ UNCHANGED <<drawn, dead, current>>

\* A requested release frees the key if the lease still holds it.
Release == \E l \in leaving :
              /\ leaving' = leaving \ {l}
              /\ current' = IF current = l THEN NoLease ELSE current
              /\ UNCHANGED <<drawn, dead>>

\* A worker dies, and with it every lease it drew.
Die == \E ls \in SUBSET drawn : dead' = dead \cup ls /\ UNCHANGED <<drawn, leaving, current>>

Next == Draw \/ Grant \/ Leave \/ Release \/ Die

Spec == Init /\ [][Next]_vars
=============================================================================

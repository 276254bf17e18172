----------------------------- MODULE GlobalSlots -----------------------------
(***************************************************************************)
(* The cross-worker concurrency gate of one group (ontorag/kg/             *)
(* shared_storage.py, ns[group] of the "concurrency_leases" namespace): a  *)
(* table of slot leases that is read, reaped and replaced as a whole under *)
(* the group's keyed lock, so that each call is one atomic step on it.     *)
(*                                                                         *)
(* Time is what the reaper distinguishes: a heartbeat within its TTL or    *)
(* expired, a suspect within its grace or past it.  The waiter records     *)
(* only choose how long a refused process sleeps and are left out.         *)
(***************************************************************************)
EXTENDS Naturals, FiniteSets

CONSTANTS
    Proc,    \* worker processes
    Lease,   \* lease ids; an id nobody refers to any more stands for a new uuid
    Free,
    Limit    \* the group's global limit

ASSUME LimitAssumption == Limit \in Nat \ {0}

Slot == [owner : Proc, beat : {"fresh", "expired"}, mark : {"none", "suspect", "over"}]
ASSUME FreeAssumption == Free \notin Slot

VARIABLES
    mode,    \* mode[p]: running, dead, or ghost (killed, but its pid looks alive)
    table,   \* table[l]: the entry of lease l
    warned,  \* leases marked suspect since they were last renewed (history)
    lapsed,  \* leases reclaimed although their owner runs, and not yet released (history)
    lost     \* leases in the table whose owner never learnt their id (history)

gate == <<table, warned, lapsed, lost>>

NewSlot(p) == [owner |-> p, beat |-> "fresh", mark |-> "none"]

\* _reap_gate_state: whose lease goes, and the mark of one that stays.
Reclaimed(l) ==
    /\ table[l] # Free
    /\ \/ mode[table[l].owner] = "dead"
       \/ table[l].beat = "expired" /\ table[l].mark = "over"
Remark(slot) ==
    [slot EXCEPT !.mark = IF slot.beat = "fresh" THEN "none"
                          ELSE IF @ = "none" THEN "suspect" ELSE @]
Reaped == [l \in Lease |-> IF table[l] = Free \/ Reclaimed(l) THEN Free ELSE Remark(table[l])]

InUse(t) == {l \in Lease : t[l] # Free}
\* Mutant: a suspect does not count against the limit during its grace.
HasRoomOverSuspects == Cardinality({l \in InUse(Reaped) : Reaped[l].mark = "none"}) < Limit
\* What stays in the table counts, suspect or not.
HasRoom == Cardinality(InUse(Reaped)) < Limit

\* The histories after a reap.
Warned == warned \cup {l \in InUse(Reaped) : table[l].mark = "none" /\ Reaped[l].mark = "suspect"}
Lapsed == lapsed \cup {l \in Lease : Reclaimed(l) /\ mode[table[l].owner] = "running"}

Lost == lost \cap InUse(Reaped)

\* _acquire_global_slot when there is room; the id gets back to the caller, or not.
Grant(p, l, told) ==
    /\ HasRoom
    /\ table' = [Reaped EXCEPT ![l] = NewSlot(p)]
    /\ warned' = Warned \ {l}
    /\ lapsed' = Lapsed \ {l}
    /\ lost' = IF told THEN Lost ELSE Lost \cup {l}

\* reconcile_global_slots, and what an acquire does to a full table.
Reap ==
    /\ table' = Reaped
    /\ warned' = Warned
    /\ lapsed' = Lapsed
    /\ lost' = Lost

\* release_global_slot, for every lease of L.
ReleaseSlots(L) ==
    /\ table' = [l \in Lease |-> IF l \in L THEN Free ELSE table[l]]
    /\ warned' = warned \ L
    /\ lapsed' = lapsed \ L
    /\ UNCHANGED lost

\* Mutant: a renewal leaves the suspect mark.
RenewBeatOnly(p, L) ==
    /\ table' = [l \in Lease |->
                   IF l \in L /\ table[l] # Free THEN [table[l] EXCEPT !.beat = "fresh"] ELSE table[l]]
    /\ warned' = warned \ L
    /\ UNCHANGED <<lapsed, lost>>
\* renew_global_slots rewrites what is still in the table.
RenewSlots(p, L) ==
    /\ table' = [l \in Lease |-> IF l \in L /\ table[l] # Free THEN NewSlot(p) ELSE table[l]]
    /\ warned' = warned \ L
    /\ UNCHANGED <<lapsed, lost>>

\* The clock passes the TTL of a heartbeat, or the grace of a suspect.
HeartbeatExpires(l) ==
    /\ table[l] # Free /\ table[l].beat = "fresh"
    /\ table' = [table EXCEPT ![l].beat = "expired"]
    /\ UNCHANGED <<warned, lapsed, lost>>
GraceEnds(l) ==
    /\ table[l] # Free /\ table[l].mark = "suspect"
    /\ table' = [table EXCEPT ![l].mark = "over"]
    /\ UNCHANGED <<warned, lapsed, lost>>
=============================================================================

---------------------------- MODULE DirectDelete ----------------------------
(***************************************************************************)
(* adelete_by_doc_id (ontorag/ontorag.py), called by a program that embeds *)
(* the library beside the tasks of Pipeline.  With the slot free it takes  *)
(* busy for one document; while a batch delete holds the slot it joins in. *)
(* On its way out it hands the slot to a drive if the mailbox has work,    *)
(* exactly as an insert of custom chunks does.                             *)
(*                                                                         *)
(* It looks at busy and at nothing else, so it is kept out of Pipeline:    *)
(* the invariant FlagsInv of that module does not hold beside it.          *)
(***************************************************************************)
EXTENDS Pipeline

\* The job name of a batch delete, and of no other job.
IsBatchDelete(s) == s.destructive /\ s.busyOwner.kind = "delete"

DeleteById(t) ==
    LET s == Reconcile(status, Dead)
        takes == ~ Fenced(s) /\ ~ s.busy
        joins == ~ Fenced(s) /\ s.busy /\ IsBatchDelete(s)
    IN  /\ t \in Deletes /\ At(t, "new")
        /\ status' = IF takes THEN TakeDirect(s, t, "delete") ELSE s
        /\ Goto(t, IF takes THEN "removing" ELSE IF joins THEN "joined" ELSE "done")
        /\ UNCHANGED <<mailbox, row, ghosts>>

\* The row goes last; a call that is refused or fails before that leaves it as it was.
RemoveDocument(t) ==
    /\ At(t, "removing") \/ At(t, "joined")
    /\ row' \in {row} \cup {[row EXCEPT ![d] = "none"] : d \in Rows(RowState \ {"none"})}
    /\ Goto(t, IF At(t, "removing") THEN "leave_slot" ELSE "done")
    /\ UNCHANGED <<status, mailbox, ghosts>>

NextWithDelete == Next \/ \E t \in Worker : DeleteById(t) \/ RemoveDocument(t)

SpecWithDelete     == Init /\ [][NextWithDelete]_vars
FairSpecWithDelete == SpecWithDelete /\ \A t \in Worker : WF_vars(Step(t) \/ RemoveDocument(t))

-----------------------------------------------------------------------------
\* "A scan's classification phase mutates doc_status; a new processor must not
\* read/process concurrently or it races those rewrites. A handed-off run took the
\* slot before scanning could start, so it is exempt" (acquire_processing_reservation).
ScanAlone ==
    \A s, t \in Worker : s # t /\ Classifying(s) => ~ Processing(t) /\ ~ Resetting(t)
=============================================================================

------------------------------ MODULE Pipeline ------------------------------
(***************************************************************************)
(* Everything that competes for one workspace's document pipeline: uploads *)
(* and inserts that enqueue and then drive, manual retries, scans, deletes *)
(* and clears (ontorag/api/routers/document_routes.py and pipeline.py),    *)
(* inserts that bring their own chunks (ontorag/ontorag.py), each a task   *)
(* in a worker process of its own, plus cancellations, force resets and    *)
(* SIGKILLs of workers.                                                    *)
(***************************************************************************)
EXTENDS PipelineDrive

CONSTANTS
    PendingDocs, ActiveDocs, JournalDocs, FailedDocs,   \* the rows found at start
    MaxKills, MaxCancels, MaxFaults, MaxResets,         \* bounds: see budget
    Killable                                            \* the tasks whose worker may die

\* Every task stores at most one document, always the newest.
Backlog == PendingDocs \cup ActiveDocs \cup JournalDocs \cup FailedDocs
ASSUME BacklogAssumption ==
    /\ Backlog \subseteq Doc
    /\ {MaxKills, MaxCancels, MaxFaults, MaxResets} \subseteq Nat
    /\ Killable \subseteq Worker

Init ==
    /\ status = IdleStatus
    /\ mailbox = EmptyMailbox
    /\ row = [d \in Doc |-> IF d \in PendingDocs THEN "pending"
                            ELSE IF d \in ActiveDocs THEN "active"
                            ELSE IF d \in JournalDocs THEN "journal"
                            ELSE IF d \in FailedDocs THEN "failed" ELSE "none"]
    /\ task = [t \in Worker |-> [IdleTask EXCEPT !.stage =
                                   IF t \in Scans THEN "reset" ELSE "drive"]]
    /\ budget = [kill |-> MaxKills, cancel |-> MaxCancels, fault |-> MaxFaults,
                 reset |-> MaxResets]
    /\ halfDone = {}

-----------------------------------------------------------------------------
(* Enqueueing one document: reserve, write, give the reservation back,     *)
(* publish.                                                                *)

\* The endpoint reserves before the body is read, and answers 409 or 503.
ReserveSlot(t) ==
    LET s == Reconcile(status, Dead)
        refused == Fenced(s) \/ EnqueueRefused(s, FALSE)
    IN  /\ t \in Uploads /\ At(t, "new")
        /\ status' = IF refused THEN s ELSE TakeToken(s, t)
        /\ Goto(t, IF refused THEN "done" ELSE "reserved")
        /\ UNCHANGED <<mailbox, row, ghosts>>

\* After a refusal there is nothing to drive; a scan goes on.
Rejected(t) == IF t \in Uploads THEN "leaving" ELSE IF t \in Scans THEN "transition" ELSE "done"

\* Inside enqueue_serialize_lock.  A registered token passes every fence but the
\* recovery one, the scan holds the fences itself, anyone else reserves now.
AdmitEnqueue(t) ==
    LET s == Reconcile(status, Dead)
        refused == Fenced(s) \/ (t \notin s.tokens /\ EnqueueRefused(s, t \in Scans))
    IN  /\ \/ t \in Uploads /\ At(t, "reserved")
           \/ t \in Inserts /\ At(t, "new")
           \/ t \in Scans /\ At(t, "enqueue")
        /\ \A u \in Worker \ {t} : ~ At(u, "writing")
        /\ status' = IF refused \/ t \in Scans THEN s ELSE TakeToken(s, t)
        /\ Goto(t, IF refused THEN Rejected(t) ELSE "writing")
        /\ UNCHANGED <<mailbox, row, ghosts>>

\* The row a new document gets: created_at is stamped under the lock.
NewDoc == Newest(Rows(RowState \ {"none"})) + 1

\* Content first: if that fails there is no row.  A failed upsert of the row may or
\* may not have committed it.  Bound: LastDoc.
StoreRow(t) ==
    /\ At(t, "writing")
    /\ NewDoc \in Doc
    /\ \/ /\ row' = [row EXCEPT ![NewDoc] = "pending"]
          /\ task' = [task EXCEPT ![t].pc = "stored", ![t].docs = {NewDoc}]
          /\ UNCHANGED ghosts
       \/ /\ Fault
          /\ row' \in {row, [row EXCEPT ![NewDoc] = "pending"]}
          /\ Goto(t, "upsert_failed")
       \/ Fault /\ Goto(t, "raise") /\ UNCHANGED row
    /\ UNCHANGED <<status, mailbox>>

\* A reservation minted by the enqueue itself goes with its lock.
ReleaseMinted(s, t) == IF t \in Inserts THEN ReleaseToken(s, t) ELSE s

\* The failure is compensated under the lock: the flag, and when idle a drive.
ArmAfterFault(t) ==
    /\ At(t, "upsert_failed")
    /\ mailbox' = RequestAutoRescan(mailbox)
    /\ Goto(t, IF status.busy THEN "raise" ELSE "rescue")
    /\ UNCHANGED <<status, row, ghosts>>

LeaveSerializeLock(t) ==
    /\ \/ At(t, "stored") /\ Goto(t, "publishing")
       \/ At(t, "rescue") /\ Goto(t, "acquire")
       \/ At(t, "raise")  /\ Goto(t, Done(t))
    /\ status' = ReleaseMinted(status, t)
    /\ UNCHANGED <<mailbox, row, ghosts>>

\* Under the lock of the quiescence decision; a failed publish arms the flag.
Publish(t) ==
    /\ At(t, "publishing")
    /\ \/ /\ mailbox' = PutDocuments(mailbox, <<CHOOSE d \in Doc : d \in task[t].docs>>)
          /\ UNCHANGED ghosts
       \/ Fault /\ mailbox' = RequestAutoRescan(mailbox)
    /\ task' = [task EXCEPT ![t].docs = {}, ![t].pc = IF t \in Scans THEN "transition" ELSE "acquire"]
    /\ UNCHANGED <<status, row>>

\* The endpoint's reservation is held until its background task ends, which is
\* after the drive it runs itself.
ReleaseSlot(t) ==
    /\ At(t, "leaving")
    /\ status' = ReleaseToken(status, t)
    /\ Goto(t, "done")
    /\ UNCHANGED <<mailbox, row, ghosts>>

EnqueueStep(t) ==
    \/ StoreRow(t) \/ ArmAfterFault(t) \/ LeaveSerializeLock(t) \/ Publish(t) \/ ReleaseSlot(t)
    \/ t \notin Inserts /\ AdmitEnqueue(t)

-----------------------------------------------------------------------------
(* A manual retry.                                                         *)

\* commit_manual_retry_request, then the drive that serves the request.
CommitRetry(t) ==
    LET s == Reconcile(status, Dead)
        refused == Fenced(s) \/ s.destructive
    IN  /\ t \in Retries /\ At(t, "new")
        /\ status' = s
        /\ mailbox' = IF refused THEN mailbox ELSE RequestManualRetry(mailbox, t)
        /\ Goto(t, IF refused \/ PublishResult(mailbox, t) # "accepted" THEN "done" ELSE "acquire")
        /\ UNCHANGED <<row, ghosts>>

-----------------------------------------------------------------------------
(* A scan: reserve, publish its own retry, reset FAILED rows alone, enqueue *)
(* what it found, drive, and drive again for those its fence turned away.  *)

ReserveScan(t) ==
    LET s == Reconcile(status, Dead)
        refused == Fenced(s) \/ ScanRefused(s) \/ mailbox.manual # <<>>
    IN  /\ t \in Scans /\ At(t, "new")
        /\ status' = IF refused THEN s ELSE TakeScanning(s, t)
        /\ Goto(t, IF refused THEN "done" ELSE "publish")
        /\ UNCHANGED <<mailbox, row, ghosts>>

\* The job store may refuse before the commit, and the mailbox in it.  Either way
\* the endpoint gives the reservation back.
CommitScan(t) ==
    /\ At(t, "publish")
    /\ \/ /\ mailbox' = RequestManualRetry(mailbox, t)
          /\ Goto(t, IF PublishResult(mailbox, t) = "accepted" THEN "rollback" ELSE "refused")
          /\ UNCHANGED ghosts
       \/ Fault /\ Goto(t, "refused") /\ UNCHANGED mailbox
    /\ UNCHANGED <<status, row>>

RefuseScan(t) ==
    /\ At(t, "refused")
    /\ status' = ReleaseScanning(status, t)
    /\ Goto(t, "done")
    /\ UNCHANGED <<mailbox, row, ghosts>>

\* Unfinished custom-chunk operations are rolled back; an error keeps the journal
\* for the next scan and does not end this one.
RollBackJournals(t) ==
    /\ At(t, "rollback")
    /\ \/ /\ row' \in {[d \in Doc |-> IF row[d] \in Journaled THEN restored ELSE row[d]] :
                         restored \in {"processed", "none"}}
          /\ UNCHANGED ghosts
       \/ Fault /\ UNCHANGED row
    /\ Goto(t, "scan_acquire")
    /\ UNCHANGED <<status, mailbox>>

\* apipeline_reset_failed_for_scan takes busy under its own scanning fence.
AcquireForReset(t) ==
    LET s == Reconcile(status, Dead)
        fenced == s.exclusive /\ s.scanOwner # t
        refused == Fenced(s) \/ fenced \/ s.busy
    IN  /\ At(t, "scan_acquire")
        /\ status' = IF Fenced(s) THEN s ELSE IF fenced THEN Defer(s)
                     ELSE IF s.busy THEN s ELSE TakeProcessing(s, t, s.scanOwner = t)
        /\ mailbox' = IF ~ Fenced(s) /\ ~ fenced /\ s.busy THEN RequestAutoRescan(mailbox) ELSE mailbox
        /\ Goto(t, IF refused THEN "leave_scan" ELSE "scan_begin")
        /\ UNCHANGED <<row, ghosts>>

BeginScanDrain(t) ==
    /\ At(t, "scan_begin")
    /\ status' = BeginDrain(status, t, t)
    /\ Goto(t, IF Owns(status, t) THEN "scan_confirm" ELSE "abandon_reset")
    /\ UNCHANGED <<mailbox, row, ghosts>>

\* Only enqueues in flight are waited for, and not for ever; the backlog is inert.
ConfirmScanDrain(t) ==
    LET s == IF status.tokens = {} THEN status ELSE Reconcile(status, Dead) IN
    /\ At(t, "scan_confirm")
    /\ status' = s
    /\ Goto(t, IF s.tokens = {} THEN "enter" ELSE "abandon_reset")
    /\ UNCHANGED <<mailbox, row, ghosts>>

ReleaseReset(t) ==
    /\ At(t, "release_reset") \/ At(t, "abandon_reset")
    /\ status' = ReleaseRun(status, t)
    /\ Goto(t, IF At(t, "release_reset") THEN "classify" ELSE "leave_scan")
    /\ UNCHANGED <<mailbox, row, ghosts>>

\* Discovery finds a new file, or none, or fails.
Classify(t) ==
    /\ At(t, "classify")
    /\ \/ Goto(t, "enqueue") /\ UNCHANGED ghosts
       \/ Goto(t, "transition") /\ UNCHANGED ghosts
       \/ Fault /\ Goto(t, "leave_scan")
    /\ UNCHANGED <<status, mailbox, row>>

\* Uploads are admitted again, and the scan drives what it has found.
EndScanClassification(t) ==
    /\ At(t, "transition")
    /\ status' = EndClassification(status, t)
    /\ task' = [task EXCEPT ![t].pc = "acquire", ![t].stage = "drive"]
    /\ UNCHANGED <<mailbox, row, ghosts>>

LeaveScan(t) ==
    /\ At(t, "leave_scan")
    /\ status' = ReleaseScanning(status, t)
    /\ Goto(t, "check_deferred")
    /\ UNCHANGED <<mailbox, row, ghosts>>

\* A drive for those turned away, or the first one if the scan did not get there.
CheckDeferred(t) ==
    /\ At(t, "check_deferred")
    /\ task' = [task EXCEPT ![t].stage = "last",
                  ![t].pc = IF status.deferred \/ InReset(t) THEN "acquire" ELSE "done"]
    /\ UNCHANGED <<status, mailbox, row, ghosts>>

ScanStep(t) ==
    \/ CommitScan(t) \/ RefuseScan(t) \/ RollBackJournals(t) \/ AcquireForReset(t)
    \/ BeginScanDrain(t) \/ ConfirmScanDrain(t) \/ ReleaseReset(t) \/ Classify(t)
    \/ EndScanClassification(t) \/ LeaveScan(t) \/ CheckDeferred(t)

-----------------------------------------------------------------------------
(* An insert that brings its own chunks (ainsert_custom_chunks): it writes  *)
(* the graph itself, under busy, and hands the slot to a drive if anything *)
(* was published meanwhile.                                                *)

InsertCustomChunks(t) ==
    LET s == Reconcile(status, Dead)
        refused == Fenced(s) \/ ChunksRefused(s)
    IN  /\ t \in Inserts /\ At(t, "new")
        /\ status' = IF refused THEN s ELSE TakeDirect(s, t, "custom_chunks")
        /\ Goto(t, IF refused THEN "done" ELSE "preparing")
        /\ UNCHANGED <<mailbox, row, ghosts>>

\* The journal first: a new document, one that is PROCESSED, or one with the same
\* operation unfinished.  Any other document, and nothing new to add, ends the call.
PrepareOperation(t) ==
    /\ At(t, "preparing")
    /\ \/ \E d \in (Rows(Journaled \cup {"processed"}) \cup {NewDoc}) \cap Doc :
            /\ row' = [row EXCEPT ![d] = "journal"]
            /\ task' = [task EXCEPT ![t].pc = "applying", ![t].docs = {d}]
       \/ Goto(t, "leave_slot") /\ UNCHANGED row
    /\ UNCHANGED <<status, mailbox, ghosts>>

\* Committed, or FAILED with the journal kept; the write of FAILED may fail as well.
ApplyOperation(t) ==
    /\ At(t, "applying")
    /\ \E end \in Journaled \cup {"processed"} :
         row' = [d \in Doc |-> IF d \in task[t].docs THEN end ELSE row[d]]
    /\ task' = [task EXCEPT ![t].pc = "leave_slot", ![t].docs = {}]
    /\ UNCHANGED <<status, mailbox, ghosts>>

\* Mutant: the slot is given back over whatever was published meanwhile.
HandsOffNothing(t) == FALSE

\* The mailbox is probed in the section that gives the slot back.
HandsOff(t) == Owns(status, t) /\ HasWork(mailbox)

LeaveSlot(t) ==
    /\ At(t, "leave_slot")
    /\ status' = IF HandsOff(t) THEN [status EXCEPT !.cancel = "no"] ELSE ReleaseDelete(status, t)
    /\ Goto(t, IF HandsOff(t) THEN "handoff" ELSE "done")
    /\ UNCHANGED <<mailbox, row, ghosts>>

\* A drive that takes over a slot it already holds looks at no fence but recovery.
TakeOver(t) ==
    LET s == Reconcile(status, Dead) IN
    /\ At(t, "handoff")
    /\ status' = IF Fenced(s) THEN ReleaseDelete(s, t) ELSE TakeProcessing(s, t, FALSE)
    /\ Goto(t, IF Fenced(s) THEN "done" ELSE "peek")
    /\ UNCHANGED <<mailbox, row, ghosts>>

ChunksStep(t) == PrepareOperation(t) \/ ApplyOperation(t) \/ LeaveSlot(t) \/ TakeOver(t)

-----------------------------------------------------------------------------
(* Delete and clear.                                                       *)

AcquireDestructive(t) ==
    LET s == Reconcile(status, Dead)
        refused == Fenced(s) \/ DestructiveRefused(s)
    IN  /\ t \in Deletes \cup Clears /\ At(t, "new")
        /\ status' = IF refused THEN s
                     ELSE TakeDestructive(s, t, IF t \in Deletes THEN "delete" ELSE "clear")
        /\ \/ refused /\ Goto(t, "done")
           \/ ~ refused /\ t \in Clears /\ Goto(t, "clearing")
           \/ /\ ~ refused /\ t \in Deletes
              /\ \E docs \in SUBSET Rows(RowState \ {"none"}) :
                   task' = [task EXCEPT ![t].pc = "deleting", ![t].docs = docs]
        /\ UNCHANGED <<mailbox, row, ghosts>>

\* A document is deleted, or cannot be and is reported.
DeleteDocument(t, d) ==
    /\ At(t, "deleting") /\ d \in task[t].docs
    /\ status.cancel = "no"
    /\ task' = [task EXCEPT ![t].docs = @ \ {d}]
    /\ \/ row' = [row EXCEPT ![d] = "none"] /\ UNCHANGED ghosts
       \/ Fault /\ UNCHANGED row
    /\ UNCHANGED <<status, mailbox>>

\* All are done, or a cancellation keeps the rest.
EndDelete(t) ==
    /\ At(t, "deleting")
    /\ status.cancel # "no" \/ task[t].docs = {}
    /\ Goto(t, "leave_delete")
    /\ UNCHANGED <<status, mailbox, row, ghosts>>

\* The release probes the mailbox in its own section.
LeaveDelete(t) ==
    /\ At(t, "leave_delete")
    /\ status' = ReleaseDelete(status, t)
    /\ Leave(t, IF Owns(status, t) /\ HasWork(mailbox) THEN "acquire" ELSE "done")
    /\ UNCHANGED <<mailbox, row, ghosts>>

ClearIngress(t) ==
    /\ At(t, "clearing")
    /\ \/ mailbox' = ClearMailbox(mailbox) /\ UNCHANGED ghosts
       \/ Fault /\ UNCHANGED mailbox
    /\ Goto(t, "dropping")
    /\ UNCHANGED <<status, row>>

\* A storage that cannot be dropped is reported and stays as it is.
DropStorages(t) ==
    /\ At(t, "dropping")
    /\ \/ row' = [d \in Doc |-> "none"] /\ UNCHANGED ghosts
       \/ Fault /\ UNCHANGED row
    /\ Goto(t, "leave_clear")
    /\ UNCHANGED <<status, mailbox>>

LeaveClear(t) ==
    /\ At(t, "leave_clear")
    /\ status' = ReleaseClear(status, t)
    /\ Goto(t, "done")
    /\ UNCHANGED <<mailbox, row, ghosts>>

DestructiveStep(t) ==
    \/ EndDelete(t) \/ LeaveDelete(t) \/ ClearIngress(t) \/ DropStorages(t) \/ LeaveClear(t)
    \/ \E d \in Doc : DeleteDocument(t, d)

-----------------------------------------------------------------------------
(* Operators, and the death of workers.                                    *)

\* /documents/cancel_pipeline; bound: MaxCancels.
CancelPipeline ==
    /\ status.busy
    /\ budget.cancel > 0
    /\ budget' = [budget EXCEPT !.cancel = @ - 1]
    /\ status' = [status EXCEPT !.cancel = IF @ = "internal" THEN @ ELSE "user"]
    /\ UNCHANGED <<mailbox, row, task, halfDone>>

\* /documents/recovery/force_reset; bound: MaxResets.
ForceReset ==
    /\ Fenced(status)
    /\ budget.reset > 0
    /\ budget' = [budget EXCEPT !.reset = @ - 1]
    /\ mailbox' = CancelManualRetries(mailbox)
    /\ status' = Unfence(status)
    /\ halfDone' = {}
    /\ UNCHANGED <<row, task>>

\* Where a clear or a delete may have committed a part of its work.
Destroying(t) == task[t].pc \in {"deleting", "leave_delete", "clearing", "dropping", "leave_clear"}
Active(t)     == task[t].pc \notin {"new", "done", "dead"}

\* A worker is killed wherever its task stands; bound: MaxKills.
Kill(t) ==
    /\ Active(t) /\ t \in Killable
    /\ budget.kill > 0
    /\ budget' = [budget EXCEPT !.kill = @ - 1]
    /\ halfDone' = IF Destroying(t) THEN halfDone \cup {t} ELSE halfDone
    /\ task' = [task EXCEPT ![t] = [IdleTask EXCEPT !.pc = "dead"]]
    /\ UNCHANGED <<status, mailbox, row>>

-----------------------------------------------------------------------------
\* What a client asks for, and what then happens by itself.
Request(t) == \/ ReserveSlot(t) \/ CommitRetry(t) \/ ReserveScan(t) \/ AcquireDestructive(t)
              \/ t \in Inserts /\ AdmitEnqueue(t)
              \/ InsertCustomChunks(t)
Step(t)    == DriveStep(t) \/ EnqueueStep(t) \/ ScanStep(t) \/ ChunksStep(t) \/ DestructiveStep(t)

\* Everything that was asked for has ended; more may be asked for later.
Finished == (\A t \in Worker : ~ Active(t)) /\ UNCHANGED vars

Next == \/ \E t \in Worker : Request(t) \/ Step(t) \/ Kill(t)
        \/ CancelPipeline \/ ForceReset \/ Finished

Spec == Init /\ [][Next]_vars

\* The event loops run the tasks they have; nobody has to ask for anything.
FairSpec == Spec /\ \A t \in Worker : WF_vars(Step(t))

-----------------------------------------------------------------------------
(* Type correctness.                                                       *)

DrivePc == {"acquire", "peek", "first_page", "entry", "decide", "top", "validate", "batch",
            "sweep", "manual", "drain_mailbox", "fresh", "wait", "confirm", "enter",
            "reset_page", "ack", "end_drain", "finalize", "released"}
OtherPc == {"new", "reserved", "writing", "stored", "upsert_failed", "raise", "rescue",
            "publishing", "leaving", "publish", "refused", "rollback", "scan_acquire",
            "scan_begin", "scan_confirm", "release_reset", "abandon_reset", "classify",
            "enqueue", "transition", "leave_scan", "check_deferred", "deleting",
            "leave_delete", "clearing", "dropping", "leave_clear", "preparing", "applying",
            "leave_slot", "handoff", "done", "dead"}

TaskState == [pc : DrivePc \cup OtherPc, stage : {"reset", "drive", "last"},
              docs : SUBSET Doc, cursor : Start..End,
              wake : {"none", "auto", "documents"}, drained : Seq(Doc),
              routed : SUBSET Doc, stalled : SUBSET Doc, repeats : 0..StallRounds]

TypeOK ==
    /\ status \in Status
    /\ mailbox \in [documents : Seq(Doc), auto : BOOLEAN, manual : Seq(Worker),
                    terminal : Seq([id : Worker, state : {"acked", "cancelled"}])]
    /\ row \in [Doc -> RowState]
    /\ task \in [Worker -> TaskState]
    /\ budget \in [kill : 0..MaxKills, cancel : 0..MaxCancels,
                   fault : 0..MaxFaults, reset : 0..MaxResets]
    /\ halfDone \subseteq Worker

-----------------------------------------------------------------------------
(* Safety.                                                                 *)

Storing(t)     == At(t, "writing")
Processing(t)  == task[t].pc \in {"validate", "batch"}
Resetting(t)   == At(t, "reset_page")
Classifying(t) == task[t].pc \in {"rollback", "classify", "enqueue", "transition"}
Patching(t)    == task[t].pc \in {"preparing", "applying"}

\* Those who rewrite rows of doc_status, each on what it believes nobody else
\* touches.  An enqueue only adds a row, so it may run beside a batch.
Conflict(t, u) ==
    \/ Destroying(t) /\ (Destroying(u) \/ Storing(u) \/ Processing(u) \/ Resetting(u) \/ Classifying(u))
    \/ Resetting(t)  /\ (Resetting(u) \/ Storing(u) \/ Processing(u) \/ Classifying(u))
    \/ Processing(t) /\ (Processing(u) \/ Classifying(u))
    \/ Patching(t)   /\ (Patching(u) \/ Destroying(u) \/ Resetting(u) \/ Processing(u) \/ Classifying(u))
    \/ Classifying(t) /\ (Classifying(u) \/ (Storing(u) /\ u \notin Scans))

\* No two tasks are ever inside conflicting phases: the flags of pipeline_status,
\* taken and given back in many places, add up to mutual exclusion ("the exclusive
\* FAILED->PENDING reset cannot begin between this check and the last write below").
WritersExclude == \A t, u \in Worker : t # u => ~ Conflict(t, u)

\* "Never a True freeze flag with no owner" (_begin_manual_drain): the freeze belongs to the run that
\* holds busy, through kills, force resets and handovers.
FreezeIsOwned ==
    status.phase # "idle" => /\ status.busy
                             /\ status.busyOwner.kind = "processing"
                             /\ status.manualOwner.task = status.busyOwner.task

\* After a clear or a delete was killed part way, nothing writes to the half
\* dropped storages until an operator has reset the fence.
HalfDoneIsFenced ==
    halfDone # {} => \A t \in Worker : ~ (Destroying(t) \/ Storing(t) \/ Processing(t)
                                            \/ Resetting(t) \/ Classifying(t))

\* A reservation is given up by its owner, by the reaper of a dead owner or by an
\* operator's force reset, never by a stale run on its way out.
OwnerReleases ==
    \A t \in Worker :
        /\ status.busyOwner.task = t
        /\ status'.busyOwner.task # t
        => task'[t] # task[t] \/ At(t, "dead") \/ (Fenced(status) /\ ~ Fenced(status'))
OwnerReleasesOnly == [][OwnerReleases]_vars

\* "ACK only after every FAILED -> PENDING write persisted": a request is retired
\* as acked when no FAILED row with content is left.
AckMeansReset ==
    [][\A i \in DOMAIN mailbox'.terminal :
         /\ mailbox'.terminal[i].state = "acked"
         /\ ~ IsTerminal(mailbox, mailbox'.terminal[i].id)
         => Rows({"failed"}) \subseteq Unreadable]_vars

\* "Strict confirmation that the AUTO set is empty": the reset of a drive starts with
\* no unfinished row and no enqueue in flight.  A scan's reset starts with none in
\* flight; its backlog is inert behind the classification fence.
ResetStartsDrained ==
    [][status.phase = "drain" /\ status'.phase = "reset" =>
         /\ status.tokens = {}
         /\ Rows(AutoStates) = {} \/ InReset(status.busyOwner.task)]_vars

\* "Own the absorbed signal from the instant of consumption": a wake-up that a drive
\* has taken off the mailbox reaches the validator, finds nothing to do, leads on
\* to a further page, or is put back as the rescan flag, whatever ends the drive.
SignalKept ==
    [][\A t \in Worker :
         task[t].wake # "none" /\ task'[t].wake = "none" =>
           \/ At(t, "validate") /\ task'[t].pc \in {"batch", "decide"}
           \/ task'[t].docs = {} /\ task'[t].pc \in {"entry", "top"}
                 /\ (Rows(Routable) = {} \/ task'[t].cursor # End)
           \/ mailbox'.auto
           \/ task'[t].pc = "dead"]_vars

\* No worker was killed, no call failed, nobody interfered, no drain was blocked; no
\* unfinished document with content was there at the start; no request overflows.
Undisturbed ==
    /\ budget = [kill |-> MaxKills, cancel |-> MaxCancels, fault |-> MaxFaults, reset |-> MaxResets]
    /\ ~ Fenced(status)
    /\ PendingDocs \cup ActiveDocs \subseteq Unreadable
    /\ IsFiniteSet(Retries \cup Scans) /\ Cardinality(Retries \cup Scans) <= ManualCapacity

\* When every task has ended by itself no document is left that a run would have
\* taken, and no signal that nobody will read: whoever is refused the slot leaves
\* a trace that its holder finds before it goes.
NoWorkStranded ==
    Undisturbed /\ (\A t \in Worker : task[t].pc \in {"new", "done"}) =>
        /\ Rows(Routable) \subseteq Unreadable
        /\ mailbox.manual = <<>>

-----------------------------------------------------------------------------
(* The inductive invariant: what the flags of pipeline_status promise to a  *)
(* task that stands at a given step.                                        *)

DestroyingPc == {"deleting", "leave_delete", "clearing", "dropping", "leave_clear"}
ChunksPc == {"preparing", "applying", "leave_slot", "handoff"}
SweepPc == {"peek", "first_page", "entry", "decide", "top", "validate", "batch", "sweep",
            "manual", "drain_mailbox", "fresh", "wait", "confirm"}
ResetPc == {"enter", "reset_page", "ack"}
ScanPc  == {"publish", "refused", "rollback", "scan_acquire", "scan_begin", "scan_confirm",
            "release_reset", "abandon_reset", "classify", "enqueue", "transition"}

\* Between taking busy and giving it back; a finalizer looks whether it still has it.
HoldingPc == DestroyingPc \cup ChunksPc \cup SweepPc \cup ResetPc
               \cup {"end_drain", "scan_begin", "scan_confirm", "release_reset", "abandon_reset"}

\* A scan between its reservation and its drive, at state r.
Fencing(r) == r.stage = "reset" /\ r.pc \notin {"new", "leave_scan", "check_deferred", "done", "dead"}

\* The types of the fields the invariant speaks of; the others are left open.
HasTaskFields(r) ==
    r \in [pc : DrivePc \cup OtherPc, stage : {"reset", "drive", "last"}, docs : {r.docs},
           cursor : {r.cursor}, wake : {r.wake}, drained : {r.drained},
           routed : {r.routed}, stalled : {r.stalled}, repeats : {r.repeats}]

HasStatusFields(s) ==
    s \in [busy : BOOLEAN, destructive : BOOLEAN, busyOwner : Owner \cup {NoOwner},
           scanning : BOOLEAN, exclusive : BOOLEAN, scanOwner : Worker \cup {NoWorker},
           tokens : SUBSET Worker, phase : Phase, manualOwner : {s.manualOwner},
           cancel : {"no", "user", "internal"}, deferred : BOOLEAN, recovery : Recovery]

\* The slot.
OwnerOK(s) ==
    /\ s.busy <=> s.busyOwner # NoOwner
    /\ s.destructive <=> s.busyOwner.kind \in {"delete", "clear"}

\* A fence no enqueue was in flight behind: only custom chunks work beside enqueues.
Sealed(s) == s.recovery \notin {"no", "custom_chunks"}

\* What goes with a destructive job, a freeze, a classification, a recovery fence.
FlagsOK(s) ==
    /\ s.destructive => s.tokens = {}
    /\ s.busyOwner.kind \in {"delete", "clear", "custom_chunks"} => ~ s.scanning
    /\ s.phase # "idle" => /\ s.busyOwner.kind = "processing"
                           /\ s.manualOwner.task = s.busyOwner.task
    /\ s.exclusive => /\ s.scanning
                      /\ s.tokens = {}
                      /\ s.busy => s.busyOwner.task = s.scanOwner
    /\ Fenced(s) => ~ s.exclusive /\ s.busyOwner.kind \in {"processing", "none"}
    /\ Sealed(s) => s.tokens = {}

StatusOK(s) == HasStatusFields(s) /\ OwnerOK(s) /\ FlagsOK(s)

\* The slot as task t sees it at state r.
SlotOK(s, t, r) ==
    /\ r.pc \in HoldingPc => Owns(s, t) /\ ~ Fenced(s)
    /\ Owns(s, t) => r.pc \in HoldingPc \cup {"finalize", "dead"}
    /\ Owns(s, t) /\ r.pc # "dead" => (s.destructive <=> r.pc \in DestroyingPc)
    /\ Owns(s, t) /\ r.pc # "dead" => (s.busyOwner.kind = "custom_chunks" <=> r.pc \in ChunksPc)

\* The freeze, and the enqueues it has waited for.
PhaseOK(s, r) ==
    /\ r.pc \in {"confirm", "enter", "scan_confirm"} => s.phase = "drain"
    /\ r.pc \in {"reset_page", "ack", "end_drain", "release_reset"} => s.phase = "reset"
    /\ r.pc \in SweepPc => s.phase # "reset"
    /\ r.pc \in ResetPc \cup {"confirm"} => s.tokens = {}

\* The tokens of those who write, the fence of a scan.
EntryOK(s, t, r) ==
    /\ r.pc = "writing" /\ t \notin Scans => t \in s.tokens
    /\ r.pc \in {"new", "writing", "stored", "publishing"} /\ t \in Scans => r.stage = "reset"
    /\ r.stage = "reset" => t \in Scans
    /\ r.pc \in ScanPc => r.stage = "reset"
    /\ r.pc \in SweepPc \cup ChunksPc \cup {"end_drain", "finalize", "leaving"} => r.stage # "reset"
    /\ Fencing(r) => s.exclusive /\ s.scanOwner = t
    /\ s.exclusive /\ s.scanOwner = t => Fencing(r) \/ r.pc \in {"leave_scan", "dead"}

TaskOK(s, t, r) == HasTaskFields(r) /\ SlotOK(s, t, r) /\ PhaseOK(s, r) /\ EntryOK(s, t, r)

\* A half-done job still holds the slot in the name of the dead, or is fenced.
HalfOK ==
    /\ halfDone \subseteq Dead
    /\ halfDone # {} => Sealed(status) \/ (status.destructive /\ status.busyOwner.task \in halfDone)

FlagsInv ==
    /\ StatusOK(status)
    /\ task = [t \in Worker |-> task[t]]
    /\ \A t \in Worker : TaskOK(status, t, task[t])
    /\ HalfOK

\* A signal that was taken off the mailbox is on its way to a page, to the validator
\* or back.
WakeOK(r) ==
    r.wake # "none" => \/ r.pc \in {"first_page", "fresh", "validate", "finalize", "dead"}
                       \/ r.pc = "top" /\ r.docs # {}

\* What the rows and the mailbox owe to a task that stands at r: the enqueue knows
\* its row, the drain its request; no unfinished row is left when a drive resets,
\* and behind the cursor of a reset no FAILED row that has content.
LocalsOK(r) ==
    /\ WakeOK(r)
    /\ r.pc \in {"stored", "publishing"} => r.docs # {}
    /\ r.pc = "manual" => mailbox.manual # <<>>
    /\ r.pc = "enter" /\ r.stage # "reset" => Rows(AutoStates) = {}
    /\ r.pc = "reset_page" => \A d \in Rows({"failed"}) \ Unreadable : d > r.cursor
    /\ r.pc = "ack" => Rows({"failed"}) \subseteq Unreadable

RowsInv == FlagsInv /\ TypeOK /\ \A t \in Worker : LocalsOK(task[t])

\* A task that is on its way to the slot, whatever it then finds.
Coming(r) == \/ r.pc \in {"stored", "publishing", "acquire"}
             \/ r.stage = "reset" /\ r.pc \notin {"new", "refused", "done", "dead"}

\* What the holder of the slot at r will still read: all rows, and so does any drain,
\* or those beyond the cursor, those in hand, those the mailbox announces.
Rereads == {"peek", "first_page", "manual", "drain_mailbox", "fresh", "confirm", "enter",
            "reset_page", "ack", "end_drain", "handoff", "clearing", "dropping"}
Announced(m, d) == m.auto \/ Occurs(m.documents, d)
Ahead(r, d) ==
    /\ r.pc \in HoldingPc
    /\ \/ r.pc \in Rereads \/ status.phase = "drain"
       \/ Announced(mailbox, d)
       \/ r.pc \in {"top", "validate", "batch"} /\ d \in r.docs
       \/ r.pc \in {"entry", "decide", "top", "validate", "batch", "sweep", "wait"} /\ d > r.cursor

\* Nothing is without somebody who will come for it.
Waits    == Rows(Routable) \ Unreadable
RowsMet  == \A d \in Waits : \E t \in Worker : Coming(task[t]) \/ Ahead(task[t], d)
AskedMet == mailbox.manual # <<>> =>
               \E t \in Worker : Coming(task[t]) \/ task[t].pc \in HoldingPc

\* A batch has in hand what it has begun.
BatchOK(r) ==
    r.pc = "batch" => \A d \in r.routed : row[d] # "none" /\ (d \in Waits => d \in r.docs)
Begun == \A d \in Waits : row[d] = "active" =>
            \E t \in Worker : At(t, "batch") /\ d \in task[t].docs

\* A clear leaves no row and no request behind.
ClearedOK(r) ==
    /\ r.pc \in {"dropping", "leave_clear"} => mailbox.manual = <<>>
    /\ r.pc = "leave_clear" => Waits = {}

\* The mailbox knows a request only from its own task, and queues it once.
Asked(t) == t \in Retries \cup Scans /\ task[t].pc \notin {"new", "publish"}
RequestsOK ==
    /\ \A i \in DOMAIN mailbox.manual : Asked(mailbox.manual[i])
    /\ \A i, j \in DOMAIN mailbox.manual : mailbox.manual[i] = mailbox.manual[j] => i = j
    /\ \A t \in TerminalIds(mailbox) : Asked(t)
    /\ status.manualOwner # NoManualOwner => Asked(status.manualOwner.request)

\* The classification fence belongs to a scan that has yet to drive.
FenceMet == status.exclusive => \E t \in Worker : status.scanOwner = t /\ task[t].stage = "reset"

Calm ==
    /\ status.cancel = "no"
    /\ \A t \in Worker : task[t].pc \notin {"finalize", "refused", "dead"}
    /\ \A t \in Worker : BatchOK(task[t]) /\ ClearedOK(task[t])
    /\ Begun /\ RowsMet /\ AskedMet /\ RequestsOK /\ FenceMet

\* While nothing has gone wrong, for every document that waits for a run, and for a queued
\* request, some task is on its way to the slot or holds it and will read them: at each of
\* its refusals and exits a task leaves a trace that its successor cannot miss.
CalmInv == Undisturbed => Calm

-----------------------------------------------------------------------------
(* Liveness.                                                               *)

\* An accepted retry is served, unless a worker was killed or the drain found a
\* row it cannot advance and fenced the workspace.
RetryServed ==
    \A r \in Worker : Pending(mailbox, r) ~>
                        (IsTerminal(mailbox, r) \/ Dead # {} \/ Fenced(status))

\* "The bounded freeze window": a live run does not refuse uploads for ever.
FreezeEnds ==
    \A t \in Worker : (status.manualOwner.task = t /\ ~ At(t, "dead")) ~>
                        (status.manualOwner.task # t \/ At(t, "dead"))
=============================================================================

--------------------------- MODULE PipelineStatus ---------------------------
(***************************************************************************)
(* The reservations of one workspace's shared pipeline_status dictionary   *)
(* (ontorag/kg/shared_storage.py), as operators on a record.  Each         *)
(* operator is the body of one pipeline_status_lock critical section: one  *)
(* snapshot, one decision and one status.update.                           *)
(*                                                                         *)
(*   busy, busyOwner      the single processing / destructive slot         *)
(*   destructive          destructive_busy                                 *)
(*   scanning, exclusive, scanOwner   the scan reservation and its         *)
(*                        classification phase                             *)
(*   tokens               pending_enqueue_tokens (their number is          *)
(*                        pending_enqueues, written in the same update)    *)
(*   phase, manualOwner   manual_phase; manual_freeze_requested is         *)
(*                        phase # "idle" and manual_resetting is           *)
(*                        phase = "reset": the code sets them together     *)
(*   cancel               cancellation_requested and its reason            *)
(*   deferred             scan_deferred_processing                         *)
(*   recovery             recovery_required: the kind it names, or "no"    *)
(***************************************************************************)
CONSTANTS Worker, NoWorker

ASSUME NoWorkerAssumption == NoWorker \notin Worker

\* A task stands for the worker process it runs in, for its uuid4 token and,
\* as a manual retry, for its request id.
BusyKind == {"processing", "delete", "clear", "custom_chunks"}
Phase    == {"idle", "drain", "reset"}
Recovery == {"no", "delete", "clear", "custom_chunks", "drain_blocked", "drain_stalled"}

Owner   == [task : Worker, kind : BusyKind]
NoOwner == [task |-> NoWorker, kind |-> "none"]
ManualOwner   == [task : Worker, request : Worker]
NoManualOwner == [task |-> NoWorker, request |-> NoWorker]

Status == [busy : BOOLEAN, destructive : BOOLEAN, busyOwner : Owner \cup {NoOwner},
           scanning : BOOLEAN, exclusive : BOOLEAN,
           scanOwner : Worker \cup {NoWorker},
           tokens : SUBSET Worker,
           phase : Phase, manualOwner : ManualOwner \cup {NoManualOwner},
           cancel : {"no", "user", "internal"},
           deferred : BOOLEAN, recovery : Recovery]

IdleStatus ==
    [busy |-> FALSE, destructive |-> FALSE, busyOwner |-> NoOwner,
     scanning |-> FALSE, exclusive |-> FALSE, scanOwner |-> NoWorker,
     tokens |-> {}, phase |-> "idle", manualOwner |-> NoManualOwner,
     cancel |-> "no", deferred |-> FALSE, recovery |-> "no"]

Owns(s, t) == s.busyOwner.task = t
Fenced(s)  == s.recovery # "no"

(***************************************************************************)
(* Reclaiming the reservations of dead processes.  The owner of a          *)
(* processing run or of a scan can be run again; any other may have half-  *)
(* committed, so the workspace is fenced.                                  *)
(***************************************************************************)
Rerunnable == {"processing"}

\* A mutant: every dead owner is taken for one whose work can be run again.
ReapUnfenced(s, dead) ==
    IF s.busyOwner.task \in dead /\ (s.busy \/ s.destructive)
    THEN [s EXCEPT !.busy = FALSE, !.destructive = FALSE, !.busyOwner = NoOwner,
                   !.phase = "idle", !.manualOwner = NoManualOwner]
    ELSE s

\* A mutant: the dead run's manual freeze is left in place.
ReapKeepingFreeze(s, dead) ==
    IF s.busyOwner.task \in dead /\ (s.busy \/ s.destructive)
    THEN [s EXCEPT !.busy = FALSE, !.destructive = FALSE, !.busyOwner = NoOwner,
                   !.recovery = IF s.busyOwner.kind \in Rerunnable
                                THEN @ ELSE s.busyOwner.kind]
    ELSE s

ReapBusy(s, dead) ==
    IF s.busyOwner.task \in dead /\ (s.busy \/ s.destructive)
    THEN [s EXCEPT !.busy = FALSE, !.destructive = FALSE, !.busyOwner = NoOwner,
                   !.phase = "idle", !.manualOwner = NoManualOwner,
                   !.recovery = IF s.busyOwner.kind \in Rerunnable
                                THEN @ ELSE s.busyOwner.kind]
    ELSE s

ReapScanning(s, dead) ==
    IF s.scanOwner \in dead /\ (s.scanning \/ s.exclusive)
    THEN [s EXCEPT !.scanning = FALSE, !.exclusive = FALSE,
                   !.scanOwner = NoWorker]
    ELSE s

\* _dead_pipeline_reservation_updates: one update for all of them.
Reconcile(s, dead) ==
    [ReapScanning(ReapBusy(s, dead), dead) EXCEPT !.tokens = @ \ dead]

(***************************************************************************)
(* What each acquire refuses (its reject_when), on a reconciled snapshot.  *)
(***************************************************************************)
\* A mutant: clear and delete do not look at the enqueues in flight.
DestructiveOverEnqueue(s) == s.busy \/ s.scanning

DestructiveRefused(s) == s.busy \/ s.scanning \/ s.tokens # {}

ScanRefused(s) ==
    s.busy \/ s.scanning \/ s.tokens # {} \/ s.phase # "idle"

\* A mutant: custom chunks do not look at the scan.
ChunksOverScan(s) == s.busy

\* Custom chunks write the graph, but leave the enqueues in flight alone.
ChunksRefused(s) == s.busy \/ s.scanning

\* Every fence but destructive_busy is lifted for the scan's own enqueues.
EnqueueRefused(s, fromScan) ==
    s.destructive \/ (~ fromScan /\ (s.exclusive \/ s.phase # "idle"))

(***************************************************************************)
(* The state changes.                                                      *)
(***************************************************************************)
TakeDestructive(s, t, kind) ==
    [s EXCEPT !.busy = TRUE, !.destructive = TRUE,
              !.busyOwner = [task |-> t, kind |-> kind]]

\* The slot of a direct call of the library: enqueues are admitted beside it.
TakeDirect(s, t, kind) ==
    [s EXCEPT !.busy = TRUE, !.busyOwner = [task |-> t, kind |-> kind], !.cancel = "no"]

TakeScanning(s, t) ==
    [s EXCEPT !.scanning = TRUE, !.exclusive = TRUE, !.scanOwner = t]

TakeToken(s, t)    == [s EXCEPT !.tokens = @ \cup {t}]
ReleaseToken(s, t) == [s EXCEPT !.tokens = @ \ {t}]

\* The cancellation flags are the only ones a run resets when it takes over;
\* the scan's own exclusive reset leaves the deferred request to its drive.
TakeProcessing(s, t, scanReset) ==
    [s EXCEPT !.busy = TRUE,
              !.busyOwner = [task |-> t, kind |-> "processing"],
              !.cancel = "no",
              !.deferred = scanReset /\ @]

\* The scan drives the queue for whoever its fence turned away.
Defer(s) == [s EXCEPT !.deferred = TRUE]

\* transition_scanning_reservation, owner-checked.
EndClassification(s, t) ==
    IF s.scanOwner = t THEN [s EXCEPT !.exclusive = FALSE] ELSE s

ReleaseScanning(s, t) ==
    IF s.scanOwner = t
    THEN [s EXCEPT !.scanning = FALSE, !.exclusive = FALSE, !.scanOwner = NoWorker]
    ELSE s

BeginDrain(s, t, r) ==
    IF Owns(s, t)
    THEN [s EXCEPT !.phase = "drain", !.manualOwner = [task |-> t, request |-> r]]
    ELSE s

\* A mutant: the transition forgets whose freeze it is.
EnterResetUnowned(s, t) ==
    IF Owns(s, t) THEN [s EXCEPT !.phase = "reset", !.manualOwner = NoManualOwner] ELSE s

EnterReset(s, t) == IF Owns(s, t) THEN [s EXCEPT !.phase = "reset"] ELSE s

\* A mutant: the freeze loses its owner but stays.
EndDrainLate(s, t) ==
    IF Owns(s, t) THEN [s EXCEPT !.manualOwner = NoManualOwner] ELSE s

EndDrain(s, t) ==
    IF Owns(s, t) THEN [s EXCEPT !.phase = "idle", !.manualOwner = NoManualOwner]
    ELSE s

\* A mutant: the slot is released without looking at its owner.
ReleaseAnyRun(s, t) ==
    [s EXCEPT !.busy = FALSE, !.busyOwner = NoOwner,
              !.phase = "idle", !.manualOwner = NoManualOwner]

\* The release of a run, with the manual state it may still hold.
ReleaseRun(s, t) ==
    IF Owns(s, t)
    THEN [s EXCEPT !.busy = FALSE, !.busyOwner = NoOwner,
                   !.phase = "idle", !.manualOwner = NoManualOwner]
    ELSE s

ReleaseClear(s, t) ==
    IF Owns(s, t)
    THEN [s EXCEPT !.busy = FALSE, !.destructive = FALSE, !.busyOwner = NoOwner]
    ELSE s

ReleaseDelete(s, t) ==
    IF Owns(s, t)
    THEN [s EXCEPT !.busy = FALSE, !.destructive = FALSE, !.busyOwner = NoOwner,
                   !.cancel = "no"]
    ELSE s

\* fence_workspace_for_recovery: the first fence stays.
Fence(s, kind) == IF Fenced(s) THEN s ELSE [s EXCEPT !.recovery = kind]

\* /documents/recovery/force_reset: owner-agnostic.
Unfence(s) ==
    [s EXCEPT !.recovery = "no", !.busy = FALSE, !.destructive = FALSE,
              !.busyOwner = NoOwner, !.scanning = FALSE, !.exclusive = FALSE,
              !.scanOwner = NoWorker, !.phase = "idle",
              !.manualOwner = NoManualOwner]
=============================================================================

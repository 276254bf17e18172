--------------------------- MODULE PipelineDrive ---------------------------
(***************************************************************************)
(* One call of apipeline_process_enqueue_documents (ontorag/pipeline.py),  *)
(* the drive of the document queue, as the steps of a background task t.   *)
(* A drive takes the busy slot, pages through the unfinished rows of       *)
(* doc_status, processes them in batches, and before it releases the slot  *)
(* looks for whatever was published meanwhile: a manual retry makes it     *)
(* freeze the enqueues, drain to idle and reset the FAILED rows alone.     *)
(*                                                                         *)
(* Each action is one pipeline_status_lock section, one mailbox call, one  *)
(* storage call, or a sequence of them nobody else can come between.       *)
(***************************************************************************)
EXTENDS IngressMailbox, PipelineStatus, FiniteSets

CONSTANTS
    Uploads,      \* background tasks of /documents/upload and /documents/text
    Inserts,      \* SDK ainsert calls
    Retries,      \* /documents/reprocess_failed
    Scans,        \* /documents/scan
    Deletes,      \* /documents/delete_document
    Clears,       \* DELETE /documents
    LastDoc,      \* bound: documents are 1..LastDoc, oldest created_at first
    PageSize,     \* PIPELINE_SCHEDULING_PAGE_SIZE, 0 for a single scan
    StallRounds,  \* _MANUAL_DRAIN_STALL_ROUNDS
    Unreadable,   \* documents whose full_docs content is missing
    StrictReads   \* full_docs.supports_strict_point_reads

ASSUME TaskAssumption ==
    /\ Worker = Uploads \cup Inserts \cup Retries \cup Scans \cup Deletes \cup Clears
    /\ Scans \cap (Uploads \cup Inserts \cup Retries \cup Deletes \cup Clears) = {}
ASSUME DocAssumption ==
    LastDoc \in Nat /\ PageSize \in Nat /\ StallRounds \in Nat \ {0} /\ StrictReads \in BOOLEAN

VARIABLES
    status,     \* pipeline_status
    mailbox,    \* the workspace's ingress mailbox
    row,        \* row[d]: the doc_status row of document d
    task,       \* task[t]: where task t is, and the locals of its drive
    budget,     \* how many kills, cancels, storage faults and force resets are left
    halfDone    \* history: killed tasks that may have left a storage half dropped

vars   == <<status, mailbox, row, task, budget, halfDone>>
ghosts == <<budget, halfDone>>

Doc   == 1..LastDoc
Start == 0
End   == LastDoc + 1

\* "active" stands for PARSING, ANALYZING and PROCESSING, "journal" for such a
\* row with an unfinished custom-chunk operation, "failed_journal" for a FAILED one.
RowState   == {"none", "pending", "active", "journal", "processed", "failed", "failed_journal"}
AutoStates == {"pending", "active", "journal"}
Routable   == {"pending", "active"}
Journaled  == {"journal", "failed_journal"}

\* stage: a scan is before ("reset"), in ("drive") or past ("last") its own drive.
\* wake: the signal this drive has consumed and no batch has taken over.
\* drained: the notifications it took off the mailbox and has not routed.
\* routed: the documents of the current batch.  stalled, repeats: drain_progress.
IdleTask == [pc |-> "new", stage |-> "drive", docs |-> {}, cursor |-> End,
             wake |-> "none", drained |-> <<>>, routed |-> {},
             stalled |-> {}, repeats |-> 0]

At(t, l)   == task[t].pc = l
Goto(t, l) == task' = [task EXCEPT ![t].pc = l]
Dead       == {t \in Worker : At(t, "dead")}
InReset(t) == task[t].stage = "reset"

\* The locals of a drive end with it.
Leave(t, l) ==
    task' = [task EXCEPT ![t] = [IdleTask EXCEPT !.pc = l, !.stage = task[t].stage]]
\* A scan passes over what it could not enqueue.
Done(t) == IF t \in Uploads THEN "leaving"
           ELSE IF t \in Scans /\ InReset(t) THEN "transition"
           ELSE IF t \in Scans /\ task[t].stage = "drive" THEN "leave_scan" ELSE "done"

\* A storage or Manager call that raises; bound: budget.fault of them.
Fault == /\ budget.fault > 0
         /\ budget' = [budget EXCEPT !.fault = @ - 1]
         /\ UNCHANGED halfDone

-----------------------------------------------------------------------------
(* doc_status pages.                                                       *)

Rows(S) == {d \in Doc : row[d] \in S}
Oldest(S) == CHOOSE d \in S : \A e \in S : d <= e
Newest(S) == CHOOSE d \in S \cup {0} : \A e \in S : e <= d
Newer(S, c) == {d \in S : d > c}

\* The cursor after a page: only a short page proves that the set is exhausted.
CursorAfter(page) ==
    IF PageSize = 0 \/ Cardinality(page) < PageSize THEN End ELSE Newest(page)

FirstOf(S) == IF PageSize = 0 THEN S
              ELSE {d \in S : Cardinality({e \in S : e <= d}) <= PageSize}

\* A page of rows in S after cursor c, restricted to the rows of T.
Page(S, T, c) ==
    LET page == FirstOf(Newer(Rows(S), c))
    IN  [docs |-> page \cap Rows(T), next |-> CursorAfter(page)]

SchedulingPage(c) == Page(AutoStates, Routable, c)

\* _confirm_auto_drained: pages to the first one with a routable row, or to End.
Block(d) == (Cardinality({e \in Rows(AutoStates) : e <= d}) + PageSize - 1) \div PageSize
ConfirmedPage ==
    IF Rows(Routable) = {} THEN [docs |-> {}, next |-> End]
    ELSE LET page == IF PageSize = 0 THEN Rows(AutoStates)
                     ELSE {d \in Rows(AutoStates) : Block(d) = Block(Oldest(Rows(Routable)))}
         IN  [docs |-> page \cap Rows(Routable), next |-> CursorAfter(page)]

-----------------------------------------------------------------------------
(* Taking the slot and the first page.                                     *)

AcquireProcessing(t) ==
    LET s == Reconcile(status, Dead) IN
    /\ At(t, "acquire")
    /\ \/ /\ Fenced(s)
          /\ status' = s
          /\ Leave(t, Done(t))
          /\ UNCHANGED mailbox
       \/ /\ ~ Fenced(s) /\ s.exclusive
          /\ status' = Defer(s)
          /\ Leave(t, Done(t))
          /\ UNCHANGED mailbox
       \/ /\ ~ Fenced(s) /\ ~ s.exclusive /\ s.busy
          /\ status' = s
          /\ mailbox' = RequestAutoRescan(mailbox)
          /\ Leave(t, Done(t))
       \/ /\ ~ Fenced(s) /\ ~ s.exclusive /\ ~ s.busy
          /\ status' = TakeProcessing(s, t, FALSE)
          /\ Goto(t, "peek")
          /\ UNCHANGED mailbox
    /\ UNCHANGED <<row, ghosts>>

\* The oldest manual request begins a drain; without one this run is the rescan.
PeekRequest(t) ==
    /\ At(t, "peek")
    /\ IF mailbox.manual # <<>>
         THEN /\ status' = BeginDrain(status, t, Head(mailbox.manual))
              /\ Goto(t, "first_page")
              /\ UNCHANGED mailbox
         ELSE /\ mailbox' = ConsumeAutoRescan(mailbox)
              /\ task' = [task EXCEPT ![t].pc = "first_page",
                                      ![t].wake = IF mailbox.auto THEN "auto" ELSE "none"]
              /\ UNCHANGED status
    /\ UNCHANGED <<row, ghosts>>

\* The locals after a page was read; an empty page has served the signal.
Take(t, page, l) ==
    task' = [task EXCEPT ![t].docs = page.docs, ![t].cursor = page.next, ![t].pc = l,
                         ![t].drained = <<>>,
                         ![t].wake = IF page.docs = {} THEN "none" ELSE @]

FirstPage(t) ==
    LET page == SchedulingPage(Start) IN
    /\ At(t, "first_page")
    /\ \/ /\ Take(t, page, IF page.docs = {} THEN "entry" ELSE "top")
          /\ UNCHANGED ghosts
       \/ Fault /\ Goto(t, "finalize")
    /\ UNCHANGED <<status, mailbox, row>>

-----------------------------------------------------------------------------
(* The quiescence decision, at the entry (nothing found) and in the loop.  *)

Continue(t, l) == Goto(t, l) /\ UNCHANGED <<status, mailbox>>

\* The signal is consumed in the section that decides.
ContinueAuto(t) ==
    /\ mailbox.auto
    /\ mailbox' = ConsumeAutoRescan(mailbox)
    /\ task' = [task EXCEPT ![t].pc = "fresh", ![t].wake = "auto"]
    /\ UNCHANGED status

ContinueDocument(t) ==
    /\ ~ mailbox.auto
    /\ mailbox.documents # <<>>
    /\ Continue(t, "drain_mailbox")

\* At the entry nothing was done and the slot is given back without a trace.
Released(t) ==
    /\ status' = [status EXCEPT !.busy = FALSE, !.busyOwner = NoOwner]
    /\ IF At(t, "entry") THEN Leave(t, Done(t)) ELSE Goto(t, "released")
    /\ UNCHANGED mailbox

\* Mutant: the drain does not wait for the enqueues that were admitted before it.
NoWait(s) == TRUE

\* The enqueues whose reservation precedes the freeze have finished.
EnqueuesFinished(s) == s.tokens = {}

\* Mutant: the loop does not look for a manual request before it releases.
ManualOverlooked(m) == FALSE

ManualWaiting(m) == m.manual # <<>>

\* Advance the drain this run owns.  A second request is not looked at.
DecideDraining(t) ==
    \/ task[t].cursor # End /\ Continue(t, "sweep")
    \/ /\ task[t].cursor = End
       /\ \/ ContinueAuto(t)
          \/ ContinueDocument(t)
          \/ /\ ~ mailbox.auto /\ mailbox.documents = <<>>
             /\ Continue(t, IF EnqueuesFinished(status) THEN "confirm" ELSE "wait")

DecideIdle(t) ==
    \/ ManualWaiting(mailbox) /\ Continue(t, "manual")
    \/ /\ ~ ManualWaiting(mailbox)
       /\ \/ task[t].cursor # End /\ Continue(t, "sweep")
          \/ /\ task[t].cursor = End
             /\ \/ ContinueAuto(t)
                \/ ContinueDocument(t)
                \/ ~ mailbox.auto /\ mailbox.documents = <<>> /\ Released(t)

\* A cancellation stops the whole run and consumes nothing.
DecideCancelled(t) ==
    Continue(t, IF At(t, "entry") \/ status.cancel = "internal" THEN "finalize" ELSE "top")

Decide(t) ==
    /\ At(t, "entry") \/ At(t, "decide")
    /\ \/ status.cancel # "no" /\ DecideCancelled(t)
       \/ status.cancel = "no" /\ status.phase = "drain" /\ DecideDraining(t)
       \/ status.cancel = "no" /\ status.phase # "drain" /\ DecideIdle(t)
    /\ UNCHANGED <<row, ghosts>>

-----------------------------------------------------------------------------
(* The loop: cancellation check, validation, one batch.                    *)

\* The cancellation is handled here: its flags go, the run ends.
Top(t) ==
    /\ At(t, "top")
    /\ IF status.cancel # "no"
         THEN status' = [status EXCEPT !.cancel = "no"] /\ Goto(t, "finalize")
         ELSE /\ Goto(t, IF task[t].docs = {} THEN "decide" ELSE "validate")
              /\ UNCHANGED status
    /\ UNCHANGED <<mailbox, row, ghosts>>

\* Interrupted rows become PENDING.  A row without content is deleted if the
\* backend can confirm the absence, and otherwise kept out of the batch.
Validate(t) ==
    LET docs == task[t].docs \ Unreadable IN
    /\ At(t, "validate")
    /\ \/ /\ row' = [d \in Doc |->
                       IF d \in docs THEN "pending"
                       ELSE IF d \in task[t].docs /\ StrictReads THEN "none" ELSE row[d]]
          /\ task' = [task EXCEPT ![t].docs = docs, ![t].wake = "none", ![t].routed = docs,
                                  ![t].pc = IF docs = {} THEN "decide" ELSE "batch"]
          /\ UNCHANGED ghosts
       \/ Fault /\ Goto(t, "finalize") /\ UNCHANGED row
    /\ UNCHANGED <<status, mailbox>>

Route(t, d) == task' = [task EXCEPT ![t].docs = @ \cup {d}, ![t].routed = @ \cup {d}]

\* The write of a run that is no longer the owner is discarded.
WriteRow(t, d, state) == row' = IF Owns(status, t) THEN [row EXCEPT ![d] = state] ELSE row
Finish(t, d, state) ==
    /\ WriteRow(t, d, state)
    /\ task' = [task EXCEPT ![t].docs = @ \ {d}]

\* Workers take a document up, unless the run is cancelled or it is gone: a worker
\* writes the whole row, so one that was deleted meanwhile comes back.
StartDocument(t, d) ==
    /\ At(t, "batch") /\ d \in task[t].docs /\ row[d] \in {"pending", "none"}
    /\ IF status.cancel = "no" /\ row[d] = "pending"
         THEN WriteRow(t, d, "active") /\ UNCHANGED task
         ELSE Finish(t, d, "failed")
    /\ UNCHANGED <<status, mailbox, ghosts>>

\* A document fails on its own, or with the storage its run shares with the others.
FinishDocument(t, d) ==
    /\ At(t, "batch") /\ d \in task[t].docs /\ row[d] \in {"active", "none"}
    /\ \/ /\ \/ Finish(t, d, "processed")
             \/ status.cancel # "no" /\ Finish(t, d, "failed")
          /\ UNCHANGED <<status, ghosts>>
       \/ /\ Fault
          /\ Finish(t, d, "failed")
          /\ status' \in {status, [status EXCEPT !.cancel = "internal"]}
    /\ UNCHANGED mailbox

EpochFull(t) == PageSize > 0 /\ Cardinality(task[t].routed) >= PageSize

\* The feeder routes a document that was published during the batch.  It yields
\* to a cancellation, to a manual request and, in an unbounded epoch, to `auto`.
FeedDocument(t) ==
    LET d == Head(mailbox.documents) IN
    /\ At(t, "batch")
    /\ mailbox.documents # <<>>
    /\ status.cancel = "no" /\ mailbox.manual = <<>> /\ ~ EpochFull(t)
    /\ PageSize = 0 => ~ mailbox.auto
    /\ \/ /\ d \in task[t].routed \/ row[d] # "pending"
          /\ mailbox' = NextDocumentTaken(mailbox)
          /\ UNCHANGED task
       \/ /\ d \notin task[t].routed /\ row[d] = "pending" /\ d \notin Unreadable
          /\ mailbox' = NextDocumentTaken(mailbox)
          /\ Route(t, d)
       \/ /\ d \notin task[t].routed /\ row[d] = "pending" /\ d \in Unreadable
          /\ mailbox' = RequestAutoRescan(NextDocumentTaken(mailbox))
          /\ task' = [task EXCEPT ![t].drained = Append(@, d)]
    /\ UNCHANGED <<status, row, ghosts>>

\* The batch ends when its queues are empty, or by an orchestrator error; the
\* notifications the feeder could not route go back to the mailbox.
EndBatch(t) ==
    /\ At(t, "batch")
    /\ mailbox' = PutDocuments(mailbox, task[t].drained)
    /\ \/ /\ task[t].docs = {}
          /\ task' = [task EXCEPT ![t].pc = "decide", ![t].drained = <<>>, ![t].routed = {}]
          /\ UNCHANGED ghosts
       \/ /\ Fault
          /\ task' = [task EXCEPT ![t].pc = "finalize", ![t].drained = <<>>]
    /\ UNCHANGED <<status, row>>

-----------------------------------------------------------------------------
(* What follows a decision to continue.                                    *)

\* The next page of the same sweep; a fault leaves the rest to the next rescan.
Sweep(t) ==
    /\ At(t, "sweep")
    /\ \/ /\ Take(t, SchedulingPage(task[t].cursor), "top")
          /\ UNCHANGED <<mailbox, ghosts>>
       \/ /\ Fault
          /\ mailbox' = RequestAutoRescan(mailbox)
          /\ Goto(t, "finalize")
    /\ UNCHANGED <<status, row>>

\* A run whose slot or freeze is gone ends over an empty batch.
WindDown(t) == task' = [task EXCEPT ![t].pc = "top", ![t].docs = {}, ![t].cursor = End]

\* A manual request becomes a drain: freeze first, then a fresh sweep.
StartDrain(t) ==
    /\ At(t, "manual")
    /\ IF Owns(status, t)
         THEN /\ status' = BeginDrain(status, t, Head(mailbox.manual))
              /\ Goto(t, "fresh")
         ELSE WindDown(t) /\ UNCHANGED status
    /\ UNCHANGED <<mailbox, row, ghosts>>

\* The notifications are drained before the sweep that finds their rows.
DrainMailbox(t) ==
    /\ At(t, "drain_mailbox")
    /\ task' = [task EXCEPT ![t].pc = "fresh", ![t].wake = "documents",
                            ![t].drained = mailbox.documents]
    /\ mailbox' = DrainDocuments(mailbox)
    /\ UNCHANGED <<status, row, ghosts>>

\* Mutant: a fault loses the signal the decision has consumed.
RearmNothing(m, t) == m

\* What a fault puts back: the notifications, and the flag behind any signal.
Rearm(m, t) ==
    IF task[t].wake = "none" THEN m
    ELSE RequestAutoRescan(PutDocuments(m, task[t].drained))

\* The first page of a fresh sweep.
Fresh(t) ==
    /\ At(t, "fresh")
    /\ \/ /\ Take(t, SchedulingPage(Start), "top")
          /\ UNCHANGED <<mailbox, ghosts>>
       \/ /\ Fault
          /\ mailbox' = Rearm(mailbox, t)
          /\ task' = [task EXCEPT ![t].pc = "finalize", ![t].wake = "none", ![t].drained = <<>>]
    /\ UNCHANGED <<status, row>>

\* Mutant: the wait does not reclaim the enqueues of killed workers.
WaitUnreaped(t) ==
    /\ At(t, "wait")
    /\ Goto(t, "top")
    /\ UNCHANGED <<status, mailbox, row, ghosts>>

\* Reap, sleep, look again.
WaitForEnqueues(t) ==
    /\ At(t, "wait")
    /\ status' = Reconcile(status, Dead)
    /\ Goto(t, "top")
    /\ UNCHANGED <<mailbox, row, ghosts>>

\* Mutant: every round is the first one.
RepeatsForgotten(t, docs) == 1

\* _ManualDrainProgress.observe
Repeats(t, docs) == IF docs = task[t].stalled THEN task[t].repeats + 1 ELSE 1

\* The last proof before the reset, from the unfiltered rows.  A drain that cannot
\* advance fences the workspace instead of spinning.
ConfirmDrained(t) ==
    LET page == ConfirmedPage IN
    /\ At(t, "confirm")
    /\ \/ /\ page.docs # {} /\ (Repeats(t, page.docs) < StallRounds \/ page.docs # task[t].stalled)
          /\ task' = [task EXCEPT ![t].pc = "top", ![t].docs = page.docs,
                                  ![t].cursor = page.next, ![t].stalled = page.docs,
                                  ![t].repeats = Repeats(t, page.docs)]
          /\ UNCHANGED <<status, ghosts>>
       \/ /\ page.docs # {} /\ page.docs = task[t].stalled /\ Repeats(t, page.docs) >= StallRounds
          /\ status' = Fence(status, "drain_stalled")
          /\ Goto(t, "finalize")
          /\ UNCHANGED ghosts
       \/ /\ page.docs = {} /\ Rows({"journal"}) # {}
          /\ status' = Fence(status, "drain_blocked")
          /\ Goto(t, "finalize")
          /\ UNCHANGED ghosts
       \/ /\ page.docs = {} /\ Rows({"journal"}) = {}
          /\ Goto(t, "enter")
          /\ UNCHANGED <<status, ghosts>>
       \/ Fault /\ Goto(t, "finalize") /\ UNCHANGED status
    /\ UNCHANGED <<mailbox, row>>

-----------------------------------------------------------------------------
(* The exclusive FAILED -> PENDING reset, of a drive or of a scan.         *)

\* Where a reset ends whose storage failed, and one that has lost the freeze.
Abandon(t) == IF InReset(t) THEN "abandon_reset" ELSE "finalize"
Lost(t)    == IF InReset(t) THEN "abandon_reset" ELSE "fresh"

EnterExclusiveReset(t) ==
    /\ At(t, "enter")
    /\ IF status.manualOwner = NoManualOwner /\ ~ InReset(t)
         THEN WindDown(t) /\ UNCHANGED status
         ELSE /\ status' = EnterReset(status, t)
              /\ task' = [task EXCEPT ![t].cursor = Start,
                            ![t].pc = IF Owns(status, t) THEN "reset_page" ELSE Lost(t)]
    /\ UNCHANGED <<mailbox, row, ghosts>>

\* Mutant: only the first page of FAILED rows is reset.
FailedFirstPage(c) == [docs |-> Page({"failed", "failed_journal"}, {"failed"}, c).docs, next |-> End]

\* An unfinished custom-chunk operation is left to its caller and to the scan.
FailedPage(c) == Page({"failed", "failed_journal"}, {"failed"}, c)

\* One page; a row without content stays FAILED.  Ownership is checked before
\* the page is read and again before it is written.
ResetPage(t) ==
    LET page == FailedPage(task[t].cursor) IN
    /\ At(t, "reset_page")
    /\ \/ /\ row' = IF Owns(status, t)
                    THEN [d \in Doc |-> IF d \in page.docs \ Unreadable THEN "pending" ELSE row[d]]
                    ELSE row
          /\ task' = [task EXCEPT ![t].cursor = page.next,
                        ![t].pc = IF ~ Owns(status, t) THEN Lost(t)
                                  ELSE IF page.next = End THEN "ack" ELSE "reset_page"]
          /\ UNCHANGED ghosts
       \/ Fault /\ Goto(t, Abandon(t)) /\ UNCHANGED row
    /\ UNCHANGED <<status, mailbox>>

\* The request that froze the pipeline is retired once every page is written.
AckRequest(t) ==
    /\ At(t, "ack")
    /\ mailbox' = AckManualRetry(mailbox,
                    IF InReset(t) THEN t ELSE status.manualOwner.request)
    /\ Goto(t, IF InReset(t) THEN "release_reset" ELSE "end_drain")
    /\ UNCHANGED <<status, row, ghosts>>

EndManualDrain(t) ==
    /\ At(t, "end_drain")
    /\ status' = EndDrain(status, t)
    /\ Goto(t, "fresh")
    /\ UNCHANGED <<mailbox, row, ghosts>>

-----------------------------------------------------------------------------
(* The end of a run (_finalize), whatever ended it.                        *)

\* The slot and the freeze go together, and only if they are still this run's.
Finalize(t) ==
    /\ At(t, "finalize")
    /\ mailbox' = Rearm(mailbox, t)
    /\ status' = [ReleaseRun(status, t) EXCEPT !.cancel = IF Owns(status, t) THEN "no" ELSE @]
    /\ Leave(t, Done(t))
    /\ UNCHANGED <<row, ghosts>>

\* The decision has released the slot; its next owner's cancellation stays.
FinalizeReleased(t) ==
    /\ At(t, "released")
    /\ status' = [status EXCEPT !.cancel =
                    IF status.busyOwner.task \in {NoWorker, t} THEN "no" ELSE @]
    /\ Leave(t, Done(t))
    /\ UNCHANGED <<mailbox, row, ghosts>>

DriveStep(t) ==
    \/ AcquireProcessing(t) \/ PeekRequest(t) \/ FirstPage(t) \/ Decide(t) \/ Top(t)
    \/ Validate(t) \/ FeedDocument(t) \/ EndBatch(t)
    \/ \E d \in Doc : StartDocument(t, d) \/ FinishDocument(t, d)
    \/ Sweep(t) \/ StartDrain(t) \/ DrainMailbox(t) \/ Fresh(t) \/ WaitForEnqueues(t)
    \/ ConfirmDrained(t) \/ EnterExclusiveReset(t) \/ ResetPage(t) \/ AckRequest(t)
    \/ EndManualDrain(t) \/ Finalize(t) \/ FinalizeReleased(t)
=============================================================================

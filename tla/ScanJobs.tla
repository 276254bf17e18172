------------------------------ MODULE ScanJobs ------------------------------
(***************************************************************************)
(* How a request hands its reservation to a background task, and what a    *)
(* scan reports about itself (ontorag/kg/shared_storage.py,                *)
(* ontorag/api/routers/document_routes.py, ontorag/kg/scan_job_store.py).  *)
(*                                                                         *)
(* The endpoint (the caller) reserves, starts a task (the child) and waits *)
(* until it has taken over; either may be cancelled at every suspension,   *)
(* and exactly one of them has to give the reservation back.  An upload    *)
(* uses start_reserved_background_task: a cancelled caller takes its child *)
(* down.  A scan uses start_committed_background_task: once the child has  *)
(* published the scan's manual request nobody but a shutdown cancels it.   *)
(* A scan also keeps a job record in the store of the Manager, with a      *)
(* lease that its reporter renews; a clear retires the records nobody owns.*)
(*                                                                         *)
(* A step is a stretch without a suspension.  The store's calls are        *)
(* synchronous, so a stretch may contain several; other processes reach    *)
(* only the store and pipeline_status, whose sections are atomic.  Tokens  *)
(* and track ids are drawn per request: the request's name stands for      *)
(* them, and the store's owner checks compare a name with itself.          *)
(***************************************************************************)
EXTENDS Naturals, FiniteSets

CONSTANTS
    Proc,        \* worker processes
    Scans, Uploads, Clears,
    Home,        \* Home[r]: the process that serves request r
    Capacity,    \* capacity: records of a store
    MaxTroubles  \* bound: cancelled callers, processes killed or shut down, calls to
                 \* the store that raise, leases that lapse under a heartbeat

Request == Scans \cup Uploads \cup Clears

ASSUME KindAssumption ==
    /\ Scans \cap Uploads = {} /\ Scans \cap Clears = {} /\ Uploads \cap Clears = {}
    /\ Home \in [Request -> Proc]
ASSUME BoundAssumption == Capacity \in Nat \ {0} /\ MaxTroubles \in Nat

VARIABLES
    mode,        \* mode[p]: up, draining (shutdown has cancelled the tasks), down
    holds,       \* holds[r]: what r has reserved in pipeline_status
    caller,      \* caller[r]: where the endpoint is
    interrupted, \* callers with a cancellation on its way
    child,       \* child[r]: where the task is
    cancelled,   \* children with a cancellation on its way
    begun,       \* children that have set `started'
    committed,   \* scans that are committed (state["committed"], takeover)
    intents,     \* scans whose manual request is in the mailbox
    job,         \* job[s]: the status of the record, expired when it is running and its
                 \* lease is over; none if there is no record
    reporter,    \* scans whose reporter still has its store; the heartbeat of the lease
                 \* runs as long, or one beat longer than its task
    outcome,     \* outcome[s]: the scan's job_status
    budget       \* what is left of MaxTroubles

tasks == <<caller, interrupted, child, cancelled, begun>>
startup == <<committed, intents>>
report == <<reporter, outcome>>
vars == <<mode, holds, tasks, startup, job, report, budget>>

\* An enqueue token, and a scan that processes, share; a scan that classifies and a
\* clear do not.
Holding == {"none", "shared", "exclusive"}
CallerPlace == {"new", "reserved", "waiting", "joining", "backstop", "finally", "over"}
ChildPlace == {"none", "starting", "leaving", "working", "indexing", "releasing",
               "deferred", "over"}
Terminal == {"completed", "failed", "cancelled", "abandoned"}
Outcome == {"completed", "failed", "cancelled"}

Up(r) == mode[Home[r]] = "up"
Alive(r) == mode[Home[r]] # "down"
Calls(r, place) == Alive(r) /\ caller[r] = place
Runs(r, place) == Alive(r) /\ child[r] = place
Trouble == /\ budget > 0
           /\ budget' = budget - 1

Init ==
    /\ mode = [p \in Proc |-> "up"]
    /\ holds = [r \in Request |-> "none"]
    /\ caller = [r \in Request |-> "new"]
    /\ child = [r \in Request |-> "none"]
    /\ interrupted = {} /\ cancelled = {} /\ begun = {}
    /\ committed = {} /\ intents = {}
    /\ job = [s \in Scans |-> "none"]
    /\ reporter = {}
    /\ outcome = [s \in Scans |-> "failed"]
    /\ budget = MaxTroubles

Goes(r, place) == caller' = [caller EXCEPT ![r] = place]
Moves(r, place) == child' = [child EXCEPT ![r] = place]

-----------------------------------------------------------------------------
(* The store, AsyncioScanJobStore.                                         *)

\* _maybe_abandon_locked, for the records in S.
Reap(S) == [s \in Scans |-> IF s \in S /\ job[s] = "expired" THEN "abandoned" ELSE job[s]]
Records(j) == {s \in Scans : j[s] # "none"}
Ended(j) == {s \in Scans : j[s] \in Terminal}
Without(j, S) == [s \in Scans |-> IF s \in S THEN "none" ELSE j[s]]

\* create: reap, drop records past their TTL, evict a terminal one when full.  Which
\* terminal record is the oldest is left open.
Creations(s) ==
    UNION {LET kept == Without(Reap(Scans), aged)
               full == Cardinality(Records(kept)) >= Capacity
               out == IF full THEN {{v} : v \in Ended(kept)} ELSE {{}}
           IN {[Without(kept, E) EXCEPT ![s] = "running"] : E \in out}
           : aged \in SUBSET Ended(Reap(Scans))}

\* cancel, which does not reap.
CancelJob(s) == [job EXCEPT ![s] = IF @ \in {"running", "expired"} THEN "cancelled" ELSE @]

\* Mutant: a late finish overwrites the state of a reaped record.
FinishLate(s) == [job EXCEPT ![s] = outcome[s]]

\* finish: the flush, an update, then set_status.
Finished(s) == [Reap({s}) EXCEPT ![s] = IF @ = "running" THEN outcome[s] ELSE @]

-----------------------------------------------------------------------------
(* The caller.                                                             *)

\* The reservations of dead owners are dropped by whoever decides next; that of a
\* dead clear stays, as a recovery fence.
Reconciled == [r \in Request |-> IF Alive(r) \/ r \in Clears THEN holds[r] ELSE "none"]

Admits(r) == LET taken == {q \in Request : Reconciled[q] # "none"} IN
    IF r \in Uploads THEN \A q \in taken : Reconciled[q] # "exclusive" ELSE taken = {}

\* The reservation: its section admits r, or r is refused (also for one of the
\* reservations that are not modelled here).
Reserve(r) ==
    /\ Up(r) /\ caller[r] = "new"
    /\ \/ /\ Admits(r)
          /\ holds' = [Reconciled EXCEPT ![r] = IF r \in Uploads THEN "shared" ELSE "exclusive"]
          /\ Goes(r, "reserved")
       \/ /\ Goes(r, "over")
          /\ UNCHANGED holds
    /\ UNCHANGED <<mode, interrupted, child, cancelled, begun, startup, job, report, budget>>

\* A cancellation reaches the caller where it waits.
Interrupt(r) ==
    /\ caller[r] \in {"reserved", "waiting"} /\ Alive(r)
    /\ r \notin interrupted
    /\ Trouble
    /\ interrupted' = interrupted \cup {r}
    /\ UNCHANGED <<mode, holds, caller, child, cancelled, begun, startup, job, report>>

\* What is in a request may be refused; a cancellation may be there.
GiveUp(r) ==
    /\ Calls(r, "reserved")
    /\ r \in Uploads \cup interrupted
    /\ Goes(r, "finally") /\ interrupted' = interrupted \ {r}
    /\ UNCHANGED <<mode, holds, child, cancelled, begun, startup, job, report, budget>>

StartChild(r) ==
    /\ Goes(r, "waiting")
    /\ Moves(r, "starting")

StartUpload(r) ==
    /\ r \in Uploads /\ Calls(r, "reserved") /\ r \notin interrupted
    /\ StartChild(r)
    /\ UNCHANGED <<mode, holds, interrupted, cancelled, begun, startup, job, report, budget>>

\* The job record, then the task; a full store refuses.
CreateJob(s) ==
    /\ s \in Scans /\ Calls(s, "reserved") /\ s \notin interrupted
    /\ \/ /\ Creations(s) # {}
          /\ job' \in Creations(s)
          /\ StartChild(s)
       \/ /\ Creations(s) = {}
          /\ job' = Reap(Scans)
          /\ Goes(s, "finally")
          /\ UNCHANGED child
    /\ UNCHANGED <<mode, holds, interrupted, cancelled, begun, startup, report, budget>>

\* The call raises, whether the store has served it or not.
CreateFails(s) ==
    /\ s \in Scans /\ Calls(s, "reserved") /\ s \notin interrupted
    /\ Trouble
    /\ \/ job' \in Creations(s)
       \/ job' = job
    /\ Goes(s, "finally")
    /\ UNCHANGED <<mode, holds, interrupted, child, cancelled, begun, startup, report>>

\* The clear retires what nobody owns any more, then drops the storages.
RetireJobs(r) ==
    /\ r \in Clears /\ Calls(r, "reserved") /\ r \notin interrupted
    /\ job' = Without(Reap(Scans), Ended(Reap(Scans)))
    /\ Goes(r, "finally")
    /\ UNCHANGED <<mode, holds, interrupted, child, cancelled, begun, startup, report,
                   budget>>

\* Mutant: a cancelled caller takes its child down, committed or not.
NeverSpares(r) == FALSE

\* Mutant: a cancelled caller relies on its child, committed or not.
AlwaysSpares(r) == TRUE

\* COMMITTED_AND_OWNED.
Spares(r) == r \in committed

\* The wait ends: the child has taken over, or ended before it did, or the caller is
\* cancelled.
TakenOver(r) ==
    /\ Calls(r, "waiting")
    /\ IF r \in interrupted THEN Spares(r) ELSE r \in begun
    /\ Goes(r, "over") /\ interrupted' = interrupted \ {r}
    /\ UNCHANGED <<mode, holds, child, cancelled, begun, startup, job, report, budget>>

TearDown(r) ==
    /\ Calls(r, "waiting")
    /\ IF r \in interrupted THEN ~ Spares(r) ELSE child[r] = "over" /\ r \notin begun
    /\ cancelled' = IF child[r] = "over" THEN cancelled ELSE cancelled \cup {r}
    /\ Goes(r, "joining") /\ interrupted' = interrupted \ {r}
    /\ UNCHANGED <<mode, holds, child, begun, startup, job, report, budget>>

\* _cancel_scan_job, if this is a scan; a call that raises is logged.
Compensate(r) ==
    \/ /\ job' = IF r \in Scans THEN CancelJob(r) ELSE job
       /\ UNCHANGED budget
    \/ /\ r \in Scans /\ Trouble
       /\ UNCHANGED job

\* The child has ended: the backstop cancels the job and releases.
Joined(r) ==
    /\ Calls(r, "joining") /\ child[r] = "over"
    /\ Compensate(r)
    /\ Goes(r, "backstop")
    /\ UNCHANGED <<mode, holds, interrupted, child, cancelled, begun, startup, report>>

Released(r) == [holds EXCEPT ![r] = "none"]

\* The endpoint's own finally does the same again, unless the scan is committed.
Backstop(r) ==
    /\ Calls(r, "backstop")
    /\ holds' = Released(r)
    /\ \/ /\ r \in committed
          /\ Goes(r, "over")
          /\ UNCHANGED <<job, budget>>
       \/ /\ r \notin committed
          /\ Compensate(r)
          /\ Goes(r, "finally")
    /\ UNCHANGED <<mode, interrupted, child, cancelled, begun, startup, report>>

Leave(r) ==
    /\ Calls(r, "finally")
    /\ holds' = Released(r)
    /\ Goes(r, "over")
    /\ UNCHANGED <<mode, interrupted, child, cancelled, begun, startup, job, report, budget>>

-----------------------------------------------------------------------------
(* The child.                                                              *)

\* A cancellation before the first step, in the commit's lock, or on the way out of it.
EndEarly(r) ==
    /\ Alive(r) /\ child[r] \in {"starting", "leaving"} /\ r \in cancelled
    /\ Moves(r, "over")
    /\ cancelled' = cancelled \ {r}
    /\ UNCHANGED <<mode, holds, caller, interrupted, begun, startup, job, report, budget>>

\* The first step of an upload's task.
BeginUpload(r) ==
    /\ r \in Uploads /\ Runs(r, "starting") /\ r \notin cancelled
    /\ begun' = begun \cup {r}
    /\ Moves(r, "working")
    /\ UNCHANGED <<mode, holds, caller, interrupted, cancelled, startup, job, report, budget>>

Publish(s) == /\ intents' = intents \cup {s}
              /\ committed' = committed \cup {s}

\* _scan_commit: the section publishes and marks; a mailbox that is full refuses.
Commit(s) ==
    /\ s \in Scans /\ Runs(s, "starting") /\ s \notin cancelled
    /\ \/ /\ Publish(s)
          /\ Moves(s, "leaving")
       \/ /\ Moves(s, "over")
          /\ UNCHANGED startup
    /\ UNCHANGED <<mode, holds, caller, interrupted, cancelled, begun, job, report, budget>>

\* run_scanning_process begins, with its reporter and its heartbeat.
BeginScan(s) ==
    /\ s \in Scans /\ Runs(s, "leaving") /\ s \notin cancelled
    /\ begun' = begun \cup {s}
    /\ reporter' = reporter \cup {s}
    /\ Moves(s, "working")
    /\ UNCHANGED <<mode, holds, caller, interrupted, cancelled, startup, job, outcome, budget>>

\* transition_scanning_reservation: classification is over, processing begins.
Unfence(s) ==
    /\ s \in Scans /\ Runs(s, "working") /\ s \notin cancelled
    /\ holds' = [holds EXCEPT ![s] = "shared"]
    /\ Moves(s, "indexing")
    /\ UNCHANGED <<mode, caller, interrupted, cancelled, begun, startup, job, report, budget>>

\* The body ends: with its result, an error, or a cancellation that it takes up.
EndWork(r) ==
    /\ Alive(r) /\ child[r] \in {"working", "indexing"}
    /\ r \in Scans =>
         \E o \in Outcome :
             /\ outcome' = [outcome EXCEPT ![r] = o]
             /\ o = "cancelled" <=> r \in cancelled
             /\ o = "completed" => child[r] = "indexing"
    /\ r \notin Scans => UNCHANGED outcome
    /\ cancelled' = cancelled \ {r}
    /\ Moves(r, "releasing")
    /\ UNCHANGED <<mode, holds, caller, interrupted, begun, startup, job, reporter, budget>>

\* finish: the flush renews the lease or finds the record lost; only then is the
\* status set.  Each call may raise, served or not.
Finish(s) ==
    \/ /\ s \notin reporter
       /\ UNCHANGED <<job, budget>>
    \/ /\ s \in reporter
       /\ job' = Finished(s)
       /\ UNCHANGED budget
    \/ /\ s \in reporter
       /\ job' \in {job, Reap({s}), Finished(s)}
       /\ Trouble

ReleaseUpload(u) ==
    /\ u \in Uploads /\ Runs(u, "releasing")
    /\ holds' = Released(u)
    /\ cancelled' = cancelled \ {u}
    /\ Moves(u, "over")
    /\ UNCHANGED <<mode, caller, interrupted, begun, startup, job, report, budget>>

\* The end of the finally: the record is finished, unless a cancellation that came
\* during one of its awaits goes on from there.
EndTask(s) ==
    /\ Moves(s, "over")
    /\ outcome' = [outcome EXCEPT ![s] = "failed"]
    /\ \/ /\ s \in cancelled
          /\ UNCHANGED <<job, reporter, budget>>
       \/ /\ s \notin cancelled
          /\ Finish(s)
          /\ reporter' = reporter \ {s}

\* The release completes even under a cancellation; a cancelled scan skips the
\* deferred drive.
ReleaseScan(s) ==
    /\ s \in Scans /\ Runs(s, "releasing")
    /\ holds' = Released(s)
    /\ cancelled' = cancelled \ {s}
    /\ \/ /\ s \in cancelled \/ outcome[s] = "cancelled"
          /\ EndTask(s)
       \/ /\ s \notin cancelled /\ outcome[s] # "cancelled"
          /\ Moves(s, "deferred")
          /\ UNCHANGED <<job, report, budget>>
    /\ UNCHANGED <<mode, caller, interrupted, begun, startup>>

EndDeferred(s) ==
    /\ s \in Scans /\ Runs(s, "deferred")
    /\ EndTask(s)
    /\ cancelled' = cancelled \ {s}
    /\ UNCHANGED <<mode, holds, caller, interrupted, begun, startup>>

\* The deferred drive raises, which the record then reports.
DriveFails(s) ==
    /\ s \in Scans /\ Runs(s, "deferred") /\ s \notin cancelled
    /\ outcome[s] # "failed"
    /\ outcome' = [outcome EXCEPT ![s] = "failed"]
    /\ UNCHANGED <<mode, holds, tasks, startup, job, reporter, budget>>

-----------------------------------------------------------------------------
(* The lease.                                                              *)

\* The heartbeat stops after its task.
Beat(s) == IF child[s] = "over" THEN reporter \ {s} ELSE reporter

\* A call of the reporter, for the scan's progress or by its heartbeat.  A record that
\* no longer runs, or a call that raises, disables the reporter.
Renew(s) ==
    /\ Alive(s) /\ s \in reporter
    /\ \/ /\ job' = Reap({s})
          /\ reporter' = IF job[s] = "running" THEN Beat(s) ELSE reporter \ {s}
          /\ UNCHANGED budget
       \/ /\ Trouble
          /\ job' \in {job, Reap({s})}
          /\ reporter' = reporter \ {s}
    /\ UNCHANGED <<mode, holds, tasks, startup, outcome>>

Renewed(s) == Alive(s) /\ s \in reporter

\* Time passes: the lease of a record expires that nobody renews, or that is renewed
\* too late.
Lapse(s) ==
    /\ job[s] = "running"
    /\ \/ /\ ~ Renewed(s)
          /\ UNCHANGED budget
       \/ /\ Renewed(s)
          /\ Trouble
    /\ job' = [job EXCEPT ![s] = "expired"]
    /\ UNCHANGED <<mode, holds, tasks, startup, report>>

\* get, for a status query.
Look(s) ==
    /\ job' = Reap({s}) /\ job' # job
    /\ UNCHANGED <<mode, holds, tasks, startup, report, budget>>

-----------------------------------------------------------------------------
(* Processes.                                                              *)

Of(p) == {r \in Request : Home[r] = p}

\* drain_reserved_background_tasks cancels every task and joins it.
Drain(p) ==
    /\ mode[p] = "up"
    /\ Trouble
    /\ mode' = [mode EXCEPT ![p] = "draining"]
    /\ cancelled' = cancelled \cup {r \in Of(p) : child[r] \notin {"none", "over"}}
    /\ UNCHANGED <<holds, caller, interrupted, child, begun, startup, job, report>>

\* The process ends, and everything in it: killed, or after the drain.
Ends(p) ==
    /\ mode' = [mode EXCEPT ![p] = "down"]
    /\ caller' = [r \in Request |-> IF r \in Of(p) THEN "over" ELSE caller[r]]
    /\ child' = [r \in Request |-> IF r \in Of(p) THEN "over" ELSE child[r]]
    /\ interrupted' = interrupted \ Of(p) /\ cancelled' = cancelled \ Of(p)
    /\ reporter' = reporter \ Of(p)
    /\ outcome' = [s \in Scans |-> IF s \in Of(p) THEN "failed" ELSE outcome[s]]
    /\ UNCHANGED <<holds, begun, startup, job>>

Kill(p) ==
    /\ mode[p] # "down"
    /\ Trouble
    /\ Ends(p)

Exit(p) ==
    /\ mode[p] = "draining"
    /\ \A r \in Of(p) : child[r] \in {"none", "over"}
    /\ Ends(p)
    /\ UNCHANGED budget

-----------------------------------------------------------------------------
CallerStep(r) ==
    \/ GiveUp(r) \/ StartUpload(r) \/ CreateJob(r) \/ CreateFails(r) \/ RetireJobs(r)
    \/ TakenOver(r) \/ TearDown(r) \/ Joined(r) \/ Backstop(r) \/ Leave(r)

ChildStep(r) ==
    \/ EndEarly(r) \/ BeginUpload(r) \/ Commit(r) \/ BeginScan(r) \/ Unfence(r) \/ EndWork(r)
    \/ ReleaseUpload(r) \/ ReleaseScan(r) \/ EndDeferred(r)

Next ==
    \/ \E r \in Request : Reserve(r) \/ Interrupt(r) \/ CallerStep(r) \/ ChildStep(r)
    \/ \E s \in Scans : DriveFails(s) \/ Renew(s) \/ Lapse(s) \/ Look(s)
    \/ \E p \in Proc : Drain(p) \/ Kill(p) \/ Exit(p)

Spec == Init /\ [][Next]_vars

\* Time that passes without a renewal.
Expire(s) == Lapse(s) /\ ~ Renewed(s)

\* An event loop runs the tasks that can go on, and the end of a drained process is
\* theirs.
Loop(p) ==
    \/ \E r \in Of(p) : CallerStep(r) \/ ChildStep(r)
    \/ \E s \in Of(p) \cap Scans : Renew(s)
    \/ Exit(p)

FairSpec ==
    /\ Spec
    /\ \A p \in Proc : WF_vars(Loop(p))
    /\ \A s \in Scans : WF_vars(Expire(s))

-----------------------------------------------------------------------------
TypeOK ==
    /\ mode \in [Proc -> {"up", "draining", "down"}]
    /\ holds \in [Request -> Holding]
    /\ caller \in [Request -> CallerPlace]
    /\ child \in [Request -> ChildPlace]
    /\ interrupted \cup cancelled \cup begun \subseteq Request
    /\ committed \cup intents \cup reporter \subseteq Scans
    /\ job \in [Scans -> {"none", "running", "expired"} \cup Terminal]
    /\ outcome \in [Scans -> Outcome]

\* A child works under its request's reservation.
Covered(r) ==
    /\ Runs(r, "working") => holds[r] = IF r \in Scans THEN "exclusive" ELSE "shared"
    /\ Runs(r, "indexing") => holds[r] = "shared"

\* Who excludes the others is alone, but for the dead.
Alone(r) == holds[r] = "exclusive" =>
    \A q \in Request \ {r} : holds[q] = "none" \/ ~ Alive(q)

\* A reservation has somebody who will give it back.
Owned(r) == Up(r) /\ holds[r] # "none" =>
    \/ caller[r] \notin {"new", "over"}
    \/ child[r] \notin {"none", "over", "deferred"}

\* A manual request has a scan that will serve it, or has served it.
Followed(s) == Up(s) /\ s \in intents => s \in begun \/ child[s] = "leaving"

\* Nobody ends the record of a scan that is at work.
Spared(s) == Alive(s) /\ s \in begun /\ child[s] # "over" =>
    job[s] \in {"running", "expired", "abandoned", "none"}

\* Invariant: wherever a cancellation, a refusal, a kill or a shutdown strikes between
\* the reservation and the end of the task, a task works only under its reservation, an
\* exclusive one has no company, a reservation always has a caller or a task that will
\* give it back, a published retry has its scan, and the record of a scan at work is
\* not cancelled or retired (the start_*_background_task protocols).
Handover ==
    /\ TypeOK
    /\ \A r \in Request : Covered(r) /\ Alone(r) /\ Owned(r)
    /\ \A s \in Scans : Followed(s) /\ Spared(s)

HonestStep(s) == job'[s] # job[s] =>
    \/ job[s] = "none" /\ job'[s] = "running"
    \/ job[s] = "running" /\ job'[s] = "expired"
    \/ job[s] = "expired" /\ job'[s] \in {"abandoned", "none"}
    \/ job[s] \in Terminal /\ job'[s] = "none"
    \/ job[s] = "running" /\ s \in begun /\ job'[s] = outcome[s]
    \/ job[s] \in {"running", "expired"} /\ s \notin begun /\ job'[s] = "cancelled"

\* Action property: a record ends once, with the outcome of its own scan if that began,
\* as cancelled only if it did not, as abandoned only after its lease ran out; what has
\* ended changes no more until it is dropped (finish after a reap, cancel after a start).
StatusHonest == [][\A s \in Scans : HonestStep(s)]_vars

\* Liveness: in the end nobody alive holds a reservation and no record runs, since every
\* path out of the two start protocols releases, and an unrenewed lease lapses.
NothingLingers == <>[](
    /\ \A r \in Request : holds[r] # "none" => ~ Alive(r)
    /\ \A s \in Scans : job[s] # "running")
=============================================================================

# OntoRAG in TLA+

A verification development for OntoRAG (`src/ontorag`), a retrieval service whose
documents go through a multi-process pipeline: several uvicorn workers share one
`pipeline_status` record, one ingress mailbox and one set of cross-process locks, and any
worker may be killed at any time. The modules model the protocols that keep those workers
out of each other's way; TLC checks them on small instances, and TLAPS proves the
main safety properties for every instance.

Contents: 1 inventory, 2 modules and plan, 3 how the modules correspond to the code,
4 what each run checks, 5 fairness, 6 what is proved, 7 where the code and its documents
disagree, 8 what is not modelled.

## 1. Inventory

| Component | State it keeps | Operations | What makes it correct |
|---|---|---|---|
| Keyed lease (`kg/shared_storage.py`, `KeyedHolderTable`, `_KeyedLeaseLock`) | one holder record per key in the Manager server | `try_acquire` (snapshot, probe, sample, compare and set), `release`, back-off | mutual exclusion of live workers; a live holder is never preempted; a dead holder is reclaimed |
| Keyed locks in a process (`KeyedUnifiedLock`, `_KeyedLockContext`, `UnifiedLock`) | per-key lock with a reference count, gates | enter, exit, cancellation and rollback | no key left locked, counts match holders |
| Pipeline status (`kg/shared_storage.py`, reservations) | `pipeline_status`: `busy`, `scanning`, `scanning_exclusive`, `destructive_busy`, owners, manual freeze, pending enqueues, recovery fence, cancellation | acquire/release of each reservation, dead-owner reconciliation, fences | one writer at a time, fences survive, nobody clears another owner's state |
| Pipeline ingress (`kg/pipeline_ingress.py`) | document queue, auto-rescan flag, manual FIFO, terminal ids | publish, drain, request/ack/cancel manual retry, clear | a lost notification always leaves the auto flag; a manual request ends once |
| Document pipeline (`pipeline.py`) | the drive of one worker: page cursor, uncommitted wake-up, drain phase; `doc_status` | enqueue, process, page scheduling, decide, exclusive FAILED reset, finalize | no document stranded, the FAILED reset is exclusive, a stale run touches nothing |
| Endpoints (`api/routers/document_routes.py`) | background tasks, reservations they own | upload, scan, delete, clear, reprocess failed, cancel, force reset | each reservation is released once and hands over what it deferred |
| Direct calls of the library (`ontorag.py`: `ainsert_custom_chunks`, `adelete_by_doc_id`) | the busy slot, an operation journal in `doc_status` | take the slot, write the journal, apply, commit or keep the journal, hand over | they write beside nobody, and leave no published work behind |
| Task start-up (`start_reserved_background_task`, `start_committed_background_task`) | who owns a reservation: the request, its background task, or the backstop | start, take over, commit, cancel, drain at shutdown | exactly one of them gives the reservation back |
| Scan jobs (`kg/scan_job_store.py`) | job records with leases | create, update, heartbeat, finish, cancel, reap, retire | a record ends once and truly; a late finish does not overwrite a reaped job |
| Global slots and heartbeats (`kg/shared_storage.py`) | slot leases, waiters, suspects | acquire, renew, reap, release | never more than the limit, a slow owner is not reaped at once |
| Priority limiter (`utils.py`) | one priority queue and worker pool per event loop | submit, time out, cancel, health check, shut down | a slot is returned once; every future is resolved |
| Admission (`api/*middleware.py`, `api/login_rate_limit.py`) | per-process counters and windows | admit, count, expire | limits are kept |
| File-backed vector store (`kg/nano_vector_db_impl.py`, `kg/write_seq.py`) | a copy of the index per process, buffers, redo logs, update flags, the file | upsert, delete, flush, save, reload and replay, drop | nobody saves over rows another process wrote; standing requests become durable |
| Other storages (`kg/*_impl.py`) | graph, key-value, doc status | CRUD, index-done callback, reload on update flag | file writers are serialised by the keyed lock |
| Extraction, query, chunking, parsing, LLM bindings, web UI | none shared | text in, text out | outside the scope of a model checker |

How they interact. An endpoint runs in a worker process. It changes `pipeline_status` (a
Manager dictionary) only inside the workspace's `pipeline_status_lock`, which is a keyed
lease, so one such section is atomic for everybody but a kill. It publishes work to the
workspace's mailbox (a Manager object, each method under its own lock), and starts a
background task. The task enqueues documents (rows of `doc_status`) under
`enqueue_serialize_lock`, then calls `apipeline_process_enqueue_documents`, the drive. A
drive that finds `busy` taken leaves a signal in the mailbox and goes; the drive that holds
`busy` must look there before it releases. A manual retry makes the drive freeze new
enqueues, drain the queue, reset the FAILED rows alone, and acknowledge. A scan holds
`scanning_exclusive` and does the same reset itself. Clears and deletes want the workspace
for themselves. A program that embeds the library may call it directly: an insert that brings
its own chunks and a delete of one document take `busy` too, and since the slot was theirs while
others were turned away, they hand it to a drive, without releasing it, if the mailbox has work.
The request that reserved hands the reservation to its background task in a
start protocol in which either may be cancelled; a scan keeps a job record beside it. Locks
on entities and relations, and those of the file-backed stores, are contexts over the same
keyed leases. Calls to models pass a priority queue in each process and, behind it, a slot
gate that all processes share. The owner of each reservation is written beside it with pid
and start time, and whoever next takes a snapshot reclaims the reservations of dead owners,
or fences the workspace when the dead owner was half-way through something that cannot be repeated.

The hard behaviours: kills between any two sections; decisions taken in one section and
acted upon in the next; signals consumed before the work they stand for is read from
storage; storage calls that fail after or before they took effect; pid reuse; a bounded
mailbox that drops; flags owned by a run that has lost its slot; waits for reservations
whose owner waits too; an answer that comes after its time-out; an exception or a
cancellation in the clean-up of another; copies of a file that are stale when they are
saved. `PROJECT.json` lists them line by line under `hazards`.

## 2. Modules and plan

| Module | Models | Code |
|---|---|---|
| `KeyedLease` | the cross-process keyed lock for one key | `kg/shared_storage.py` 508-932 |
| `ExclusiveLease` | what such a lock promises; `KeyedLease` implements it | |
| `KeyedContext` | several keys entered by one coroutine, over the leases and the gates of its process | `kg/shared_storage.py`: `KeyedUnifiedLock`, `_KeyedLockContext`, `UnifiedLock` |
| `IngressMailbox` | `PipelineIngressMailbox` as operators on a record | `kg/pipeline_ingress.py` |
| `PipelineIngress` | the mailbox under its publishers and its consumer | `kg/pipeline_ingress.py` and its callers |
| `PipelineStatus` | the reservations as operators on the `pipeline_status` record | `kg/shared_storage.py` 2280-3206 and the critical sections in `pipeline.py` and `document_routes.py` |
| `PipelineDrive` | one drive of the queue, step by step | `pipeline.py` |
| `Pipeline` | all tasks of a workspace, inserts of custom chunks, kills, cancellations, force resets | `api/routers/document_routes.py`, `pipeline.py`, `ontorag.py` 1943-2983 |
| `DirectDelete` | `adelete_by_doc_id` beside the tasks of `Pipeline` | `ontorag.py` 5844-6592 |
| `ScanJobs` | the start protocols of background tasks and the job records of scans | `kg/shared_storage.py` 3244-3510, `document_routes.py`, `kg/scan_job_store.py` |
| `VectorStore` | the file-backed vector store of several processes | `kg/nano_vector_db_impl.py`, `kg/write_seq.py` |
| `GlobalSlots` | the slot gate of a group, as actions on its lease table | `kg/shared_storage.py` 3985-4420 |
| `CallLimiter` | the priority queue, slot pump and workers over that gate | `utils.py`, `priority_limit_async_func_call` |
| `SequenceFilter` | taking elements out of a sequence, without recursion: what a filtered list keeps can then be proved | used for the lists and queues above |
| `KeyedLeaseProofs`, `KeyedContextProofs`, `PipelineIngressProofs`, `PipelineProofs`, `VectorStoreProofs`, `CallLimiterProofs`, `ScanJobsProofs`, `SequenceFilterProofs` | theorems about the module they are named after | |
| `MC*` | instances for TLC: which request or coroutine runs in which process, and symmetry | |

How they compose. `PipelineStatus` and `IngressMailbox` are operators, not state machines: the
same operator is the body of the same critical section wherever it is called, so
`PipelineDrive` and `Pipeline` compose them instead of repeating them. `Pipeline` extends
`PipelineDrive` and adds the other kinds of task. `DirectDelete` adds the single delete to it, in a
module of its own because the invariant of `Pipeline` does not hold beside it (section 7). `CallLimiter` extends `GlobalSlots` and joins its
actions with those of the processes. `KeyedContext` and `VectorStore` use a lease as
`ExclusiveLease` describes it, which is what `KeyedLease` is proved to implement; `ScanJobs` uses a
reservation only as shared or exclusive, which is what `Pipeline` is proved to keep apart.

The modules were written in this order: lease, its refinement and proofs; mailbox; status,
drive, pipeline and its invariant; vector store; slots and limiter; keyed context; scan jobs; custom chunks and the single delete.
What is left, in order of weight:

1. `WorkspaceLock`, an abstract specification of who may rewrite a workspace (shared
   enqueues, one run, one destructive job, one scan at classification), implemented by
   `Pipeline` under a refinement mapping, and that `ScanJobs` implements its reservation too.
2. The admission weights of pending enqueues (`max_pending_documents` > 0).
3. `NamespaceLock` and `UnifiedLock` over the blocking locks of the Manager.
4. `faiss_impl.py`, which keeps the same buffers as `VectorStore` over another index; the
   default mode of the limiter, without a global limit.

## 3. Correspondence with the code

### Keyed lease

`holder` is the record of one key in `KeyedHolderTable`; `client[p]` is the coroutine of worker
`p` in `_KeyedLeaseLock.acquire` or `release`; `rpc[l]` is the server thread that serves the
request made for lease `l`. `try_acquire` is five actions (`Snapshot`, `ProbePid`, `ProbeStart`,
`SampleClaimant`, `Install`), because the table's lock is dropped while the holder is probed. `proc`
is the operating system: a pid is up, a zombie, or gone and reusable, with a start time
that grows with each incarnation. A request a dead worker had sent is still served. One key is
enough: keys share no state.

Constants: `ZombieIsDead` is whether psutil is installed, `Unreadable` whether
`/proc/<pid>/stat` may fail to be read, `EarlyReuse` whether a pid may come back inside the window
of a running request.

### Mailbox

A record of the document channel, the auto-rescan flag, the manual FIFO and the ids that were
retired. Every method holds the mailbox's condition lock, so each is an operator;
`PipelineIngress` drives them in any order. Its history variables remember which announced
documents nobody has taken (`open`) and how each request was first retired (`retired`).

### Pipeline

| Variable | In the code |
|---|---|
| `status` | `pipeline_status`; tokens, freeze and reset flags folded as the header of `PipelineStatus` says |
| `mailbox` | the workspace's `PipelineIngressMailbox` |
| `row[d]` | the `doc_status` row of document `d`; PARSING, ANALYZING and PROCESSING are one state, a row with an unfinished custom-chunk operation is "journal", or "failed_journal" once the operation has failed |
| `task[t]` | the background task `t` with the place it stands at and the locals of its drive: the documents of its page, the cursor, the consumed signal, the drained notifications, the stall counter |
| `budget` | the bounds on kills, cancellations, faults and force resets |
| `halfDone` | history: who was killed inside a destructive job |

A task is one request in one worker process: its name stands for the process, for its token
and for its request id. A step of a task is one `pipeline_status_lock` section, one mailbox
call, one storage call, or a sequence of these that nobody can come between; the step
names are those of the code's phases. Every storage or Manager call that the code guards
against may raise (`Fault`), with the effect the handler gives it. Documents are numbers in
order of `created_at`; a page is what `doc_status` returns after a cursor, limited by
`PageSize` before the routable rows are picked out of it, so that a page may be empty before the end.

An insert of custom chunks is three steps under `busy`: the journal is written before anything else
(`PrepareOperation`), the operation is committed or fails with its journal kept (`ApplyOperation`), and
the section that gives the slot back probes the mailbox and keeps it for a drive if there is work
(`LeaveSlot`, `TakeOver`). Such a drive passes the scan fence, since its slot is older than any scan;
`DirectDelete` shows where that does not hold. A scan rolls unfinished operations back
(`RollBackJournals`). A delete of one document is `DeleteById` and `RemoveDocument`: alone it takes the
slot and leaves like custom chunks do; while a batch delete runs it joins in without a reservation. A
document that was deleted under a batch is written again by the worker that has it, which upserts
the whole row; `StartDocument` and `FinishDocument` do the same.

The sets of task kinds, scans excepted, may overlap: a task of two kinds makes either request, so
that one instance covers both. A scan passes over a document it could not enqueue
(`document_routes.py` 2563-2566); uploads and inserts give up.

A worker that owns a reservation and is killed stays in `Dead` until somebody reconciles: the
check is that of the keyed lease (pid and start time), whose three-valued answer was modelled
there; here the owner of a reservation is decidable.

### Background tasks and scan jobs

`caller[r]` is the endpoint that serves request `r`, `child[r]` the background task it starts, `holds[r]`
what the two have reserved in `pipeline_status`. A step is a stretch of code without a
suspension. An upload follows `start_reserved_background_task`: a cancelled caller takes its child
down and gives the reservation back itself. A scan follows `start_committed_background_task`: its
child is cancelled by its caller only before it commits, later only by the drain of a shutdown.
A clear is a caller only; it retires the job records.

`job[s]` is the record of scan `s`: its status, with `expired` for a running record past its lease. The
calls of the store are synchronous, so that one stretch holds several of them. `reporter` holds the scans
whose reporter still writes; its task and its heartbeat are one there. Track ids and tokens are
drawn per request, so the request's name stands for both and the store's owner checks compare
a name with itself. Which terminal record is the oldest is left open, as are the records
past their TTL: `create` may drop any of them. `Reserve` may always be refused, which stands for
the reservations that `Pipeline` has and this module has not. The drain of a shutdown cancels the
tasks it finds; those started after that are awaited by `Exit` all the same, as in the code.

Calls to the store may raise where the code guards them. A failure of the Manager inside a
`pipeline_status` section is not modelled here (in `Pipeline` it is).

### Vector store

One variable per field of `NanoVectorDBStorage`, one element per process: the memory copy, the
pending buffers, the redo logs, the update flag; `disk` is the file. A row is its `__write_seq__` token
and its writer, which is what a fingerprint of its contents tells apart. All sections hold the storage
lock, a keyed lease; one that awaits nothing is an action, a commit is several (reload, flush,
save, tell the others), and a process may be killed between any two of them. `clock` is
`time_ns`, shared by all processes and never running backwards; a token is a reading of it, bumped
past the last token of its process.

Three history variables: `asked[p][i]`, all that `p` has asked row `i` to become since its last commit;
`want[p][i]`, its last request that still stands (it is dropped when the code reports failure or a
strictly newer row wins); `missed`, the processes whose copy lacks a commit they were never told of
(see section 7).

### Slots and the limiter

`table` is the lease table of a group. Each call to the gate reads, reaps and replaces it under the
group's keyed lock and is one action. Time is what the reaper tells apart: a heartbeat is fresh or
expired, an expired one is unmarked, suspect, or suspect past its grace. `lapsed` is a history
variable: the leases that were reaped from an owner that runs; so is `lost`: those in the table whose
acquire raised after it took effect, so that their owner never learnt the id. The waiter records of the gate, which
only choose how long a refused process sleeps, are left out.

`CallLimiter` adds, for every process, the queue, the slot pump with its dispatch queue, the workers,
the lists of held and pending leases, and the phases of a shutdown; `caller`, `task` and `future`
follow a call. A stretch without a suspension is an action. `task_states_lock` and
`initialization_lock` are never held across a suspension, so taking them suspends nobody. A
priority is an arbitrary place in the queue. A dead process leaves its leases to the reaper. The
code that recreates a dead worker or pump is unreachable: both catch everything but a cancellation,
which only the shutdown sends.

### Keyed contexts

`ctx[c]` is the `_KeyedLockContext` of coroutine `c`; `table[p][k]` the entry of `KeyedUnifiedLock` for key
`k` in process `p`; `gate[g]` an `asyncio.Lock` object with an identity of its own, since an entry may be
dropped and built again while somebody still waits for the old object; `lease[k]` the lease, granted
and released as `ExclusiveLease` says. `running[p]` is the coroutine that is between two suspensions:
a stretch that other processes can observe is several actions, and `running` keeps the rest of
its own process out. Every coroutine enters one context; `multi` says whether there are several
processes (leases) or one (gates only). A trouble is a cancellation, also of a
rollback or of an exit, or a call to the holder table that raises; a release that raises leaves the
lease `Lost`. A request names one key or two, so sorting is a reversal at most. `References` are the
entries that contexts have still to drop, which is what the counts of the tables are compared with.

## 4. Runs

| Run | Instance | What it shows |
|---|---|---|
| `keyed_lease` | 2 pids, 2 incarnations, 3 leases, without psutil, with readable `/proc`, no early reuse | mutual exclusion, no preemption, the inductive invariant; implements `ExclusiveLease`; a dead holder does not block those who wait |
| `pipeline_ingress` | 2 documents, 3 requests, every capacity 2 | no announcement lost at capacity, one terminal state per request, no replay |
| `pipeline_clear` | upload, retry, and a task that clears or deletes; a FAILED row, page size 1; one each of cancel, kill, fault, force reset | types, writers exclude each other, the freeze is owned, a half-done clear is fenced, an acknowledged retry has reset every row, consumed signals are not lost |
| `pipeline_scan` | an insert (of a document or of custom chunks), a retry, a scan; one FAILED row and whatever the custom chunks leave unfinished; page size 2; a mailbox of one document; one each of kill, fault, force reset | the inductive invariant, slots are released by their owners, resets start drained; where nothing went wrong nothing is left behind when all have ended |
| `direct_delete` | a retry, a delete, and a task that inserts (a document or custom chunks) or deletes and may be killed; deletes are of one document or of a batch, and may join; a pending row without content, a FAILED row | every accepted retry ends, every freeze ends |
| `delete_scan` | a delete of one document beside a scan | violation, see 7 |
| `pipeline_self_wait` | upload, retry | violation, see 7 |
| `scan_jobs` | two scans, an upload and a clear in two processes, a store of one record, one trouble | a reservation always has one who gives it back, a job record ends once and truly, in the end nothing is reserved or running |
| `vector_store` | two processes with preloaded copies, two rows, two upserts, one removal, one fault | no save touches foreign rows, standing requests become durable, a replay reverts nothing newer, reads agree with the flush; the inductive invariant |
| `call_limiter` | three calls in two processes, one slot, one worker each, two leases, a queue of one, one trouble, one process that may be shut down | the limit, the counters, no lost wake-up, no lost call, no leaked slot, a warning before every reaping; the inductive invariant |
| `keyed_context` | three coroutines, two names, in one process or in two, two troubles | counts match, names are exclusive, an exit leaves nothing locked, everybody who asks gets in or fails |
| `keyed_self_loop` | two coroutines, a relation of an entity with itself, no troubles | violation, see 7 |

Why the bounds are enough. The lease protocol compares a record with one earlier record, so
two pids, one reuse and a third lease give every confusion of an old record with a new one. The
other settings of its three flags (`ZombieIsDead`, `Unreadable`, `EarlyReuse`) are covered by the
proofs, which hold for all of them. The pipeline's reservations are pairwise fences: each pair of
task kinds that can conflict meets in some run (upload/retry/clear or delete, insert or custom
chunks/retry/scan, insert/retry/delete), with a third party to take the slot in between. With page
size 1 a FAILED row and a new one that fails make the reset, and two unfinished rows the sweep, span
pages; page size 2, in `pipeline_scan`, lets the feeder add published documents to a batch. A mailbox
of one document makes a second announcement overflow. One kill and one force reset suffice for each single
hand-over to a successor; one fault for each single error path. A store of one record makes every second
scan evict or be refused, and one trouble of each kind meets every step of both start protocols. In the vector
store two upserts of one row by two processes meet in every order of buffer, flush and save; a
removal and a fault put a redo log between them. In the limiter a slot, a queue place and a worker
are each one short of what is asked; the third call is what waits for all three; of two leases one
may have lapsed, or wait for its second release, while the other is granted. Two names are the
least that two coroutines can lock in turn, and the third coroutine keeps a gate referred to while
its entry is dropped; two troubles put a cancellation into the clean-up of another.

Bounds by name: `MaxStart` (incarnations of a pid); `MaxKills`, `MaxCancels`, `MaxFaults`, `MaxResets`
(in `budget` of `Pipeline`), `LastDoc` (documents; each task stores at most one), `Killable` (which tasks
may die), the mailbox capacities; `MaxClock`, `MaxWrites`, `MaxRemovals`, `MaxFaults` of `VectorStore`;
`MaxTroubles` of `CallLimiter`, `KeyedContext` and `ScanJobs`, and `Stops` (who may be shut down). The
other numbers (`Limit`, `MaxSize`, `MaxQueue`, `DrainLimit`, `CompactThreshold`, `CompactBatch`, `Capacity`,
`PageSize`, `StallRounds`) are settings of the code. Symmetry is used for processes, rows, leases and
calls of one process, in runs without liveness.

Deadlock is checked in the runs of the pipeline and of `keyed_context`, where `Finished` is the only
stop, and in `pipeline_ingress`. The others may really stop: workers die, leases run out,
requests and clock readings are used up.

## 5. Fairness

`KeyedLease`: weak fairness of replies, of the end of a back-off, of the server's threads and of
the collection of zombies. Nobody has to acquire, release, cancel or die.

`Pipeline`: weak fairness of `Step(t)` for every live task (in `DirectDelete` of `Step(t)` or
`RemoveDocument(t)`): the event loops run the tasks they have. Requests, kills, cancellations, force
resets and faults are never forced. A fault may replace any storage call but not for ever, since
`budget.fault` is finite; `direct_delete` has none. The batch is fair as a whole, its documents finish
because each is a step of the same task.

`KeyedContext`: weak fairness of `Step(c)`: the loop runs its coroutines, bodies end, and a free lease
that is polled long enough is granted. Nobody has to start, to be cancelled or to fail. A lease
that is `Lost` is never granted again while its process lives, so `EnterEnds` exempts those who wait
for one, as section 7 says.

`ScanJobs`: weak fairness of the event loop of every process (`Loop(p)`), which is all that runs
callers, tasks and heartbeats there, and of `Expire(s)`, the passing of time for a record whose
lease nobody renews. Requests, cancellations, kills, shutdowns and faults are never forced.

## 6. What is proved

All proofs are for every value of the constants: any number of processes, tasks, rows,
documents, leases and troubles. The assumptions are the named `ASSUME`s of the modules (a null
value is no element of the set it stands outside of, scans are no other kind of task, capacities and bounds are
naturals), which TLC evaluates in the runs.

`KeyedLeaseProofs`, with and without psutil, unreadable start times and early reuse:

- `Typing`, then `Invariance`: the inductive invariant `HolderInv` (a record is stamped with the
  start time of the process that drew its lease, or that process is dead; a request that has
  passed the probe has found its snapshot's owner dead; a granted lease is the current one).
- `Exclusion`, `NoPreemption` from it, and `Refinement`: every step is a step of
  `ExclusiveLease` or a stutter.

`PipelineProofs`:

- `Invariance`: the inductive invariant `FlagsInv`. The properties are not inductive by themselves:
  that a batch and a reset do not meet depends on every flag a third task may hold. `FlagsInv` says,
  for every place a task may stand at, what `status` guarantees it: who runs or resets holds
  the slot and no recovery fence stands (`SlotOK`); the freeze is where its owner believes
  it to be, and no token is left from the confirmation to the acknowledgement (`PhaseOK`); who
  writes a row has a token or is the scan behind the fence, and a scan before its drive holds the
  fence (`EntryOK`); what goes together in the record (`OwnerOK`, `FlagsOK`); a half-done job is
  fenced or still reserved in the name of the dead (`HalfOK`). Tokens and a fence exclude each
  other only for a `Sealed` fence: a dead custom-chunk insert fences while admitted enqueues still
  write. TLC's instances had not met that case until the proof failed on it; `pipeline_scan` and
  `pipeline_clear` now contain it.
- The argument: a step changes `status` by one operator and moves one task. Section 1 of
  the module proves of each operator that it takes nothing from the others (`Frame`); sections 3 and
  4 prove, action by action, that the new status suits the place the task moved to.
- `MutualExclusion`, `FreezeOwned`, `HalfDoneFenced` follow from `FlagsInv` (custom-chunk inserts included), and `OwnersRelease`
  (an action property) from it and from what each step does to the owner of the slot.
- `RowsInvariance`: the second inductive invariant, `RowsInv`, adds to `FlagsInv` and the types what the rows and the
  mailbox owe to a task at each step (`LocalsOK`): the drive that is about to reset has no unfinished
  row left; behind the cursor of a reset every FAILED row that remains has no content; the run that serves a request
  finds one; an enqueue knows its row until it has published it; a signal taken off the mailbox is
  with a step that will use it or put it back (`WakeOK`). None of these survives a step of another task by itself;
  they do because such a task either has the slot, and then it is not another, or is `Quiet`: it takes no
  request, makes no FAILED row, and makes an unfinished one only where it writes a new document. And nobody
  writes one while a drive stands before its reset, since `FlagsInv` has emptied the tokens by then and the scan
  that needs none holds the slot itself. So a proof about an action speaks of its own task alone (sections 9 to 15).
- Section 7 is about pages. Every non-empty set of naturals has a least element (from the
  well-foundedness of `<`), so `Newest` and `Oldest` pick what they say, a page leaves no older row
  of its set out, and a short page has all of them (`FirstOfOK`, `CursorOK`). This is why a reset that went
  through its pages has met every row, and why an empty page that ends a sweep means that nothing is left.
  The proof needed `StallRounds` to be positive (it is 3, `pipeline.py` 209).
- `TypeCorrect`, `AcksMeanReset`, `ResetsStartDrained` and `SignalsKept` follow: the first from `RowsInv`, the
  others (action properties) from it and from who can retire a request as acknowledged (`RequestsKept`), begin
  a reset (`ResetBegins`) or lose a signal (`SignalSteps`, `StepsOwn`).
- `CalmInvariance`: the third, `CalmInv`, says of an undisturbed state that somebody will come for each row
  and request. Such a task is on its way to the slot whatever it then finds (`Coming`), or has the slot and
  will read the row (`Ahead`): it reads all rows again before it goes, or the mailbox will announce the row
  to it, or the row is in its hands or beyond its cursor. Which task that is changes from step to step: an
  enqueue is `Coming` from the moment it has stored its row until it finds the slot taken; from then on the
  mailbox, which it has told (`CalmTold`), makes the row one that the holder has `Ahead`. The rest of `Calm`
  is what this needs: a batch has in hand what it has begun, a clear leaves nothing, the mailbox queues a
  request only for its own task and once, and the classification fence is that of a scan whose own drive is
  still to come. Section 21 says what a step is that disturbs nothing, sections 22 and 23 what it keeps,
  section 24 proves `RowsMet` and `AskedMet` for the steps outside the slot, and section 25 for the holder,
  whose every action ends in one of three ways (`Passed`): it will come again, it has every waiting row
  still `Ahead`, or it leaves none.
- `NothingStranded` follows: when all tasks have ended nobody is `Coming` or holds the slot, so nothing
  waits. The proof found three premises that the property had left unsaid: an unfinished document that was
  there at the start has nobody who announces it until some drive runs; a request beyond the capacity of the
  mailbox is refused, and a scan that is refused does not run the drive it turned away; and there are
  finitely many requests. They are conjuncts of `Undisturbed` now, and hold in `pipeline_scan`, so that the
  run checks no less than before.

`RowsInv` and `CalmInv` were checked by TLC as invariants of small instances before they were proved. No run
of the list repeats that, since the theorems cover every instance.

`PipelineIngressProofs`, for every capacity:

- `AnnouncementsKept`, that an announced document is in the channel or the rescan
  flag is armed until somebody takes it or rescans, through every overflow, clear and force reset.
- `FirstStateStays` and `RetiredStayOut`: the mailbox answers for a retired request with the state it
  was first retired in, and queues none of them again, as long as it remembers them. The
  invariant says that the list of retired ids is exactly the window of the history, without repetition, and
  that a queued request is neither in it nor queued twice. `SequenceFilterProofs` says what removing
  elements keeps: the rest, in its order, once each.

`VectorStoreProofs`:

- `VectorInvariance`: `CopyInv` says that one section runs at a time (`Sections`), that the redo logs and
  buffers hold only what their process asked (`Logged`), that a copy which was told of every commit
  agrees with the file up to that (`Synced`), that a standing upsert (`Standing`) or removal
  (`Removed`) is where the next flush or replay finds it.
- `ForeignRowsKept`, `UpsertsDurable`, `RemovalsDurable` (action properties of the save),
  `ReplaysKeepNewer` (of the reload and replay before it) and `ReadsMatchFlush` follow. `ForeignRowsKept` excludes the processes in `missed`, see section 7.

`CallLimiterProofs`:

- `SlotInvariance`: `SlotInv` says that a lease is in one pair of hands at a time (the pump's, an entry of
  the dispatch queue, a worker's, or those of who repeats a failed release) and that a held one has
  its slot in the table or was lapsed.
  Section 1 proves of each call to the gate what it leaves alone (`KeepsAllBut`), section 2 goes
  through the actions.
- `LimitHolds` from it: the workers that execute with a lease that has not lapsed inject into the table,
  whose size the grant bounds. `WarnedBeforeLapse` is about the reaper. `TypeOK` of this module types
  only what `SlotInv` speaks of.
- `CallInv`, one conjunct per process (`ProcOK`), is the invariant of the counters. None of the four
  properties is inductive alone: that nobody waits in vain needs `live_queued` exact, this needs to know
  which queued entries still wait for their caller, and that needs every admitted call to be in one
  place. `CallInv` says where a call may be for each state of its caller, task and future, that
  no call is there twice, and what the two counters count; section 4 takes each action through it.
  `CountersExact`, `NobodySleepsInVain` and, with `SlotInv`, `CallsKept` follow.
- `AccountInv`: each held lease of a process is dispatched or with a running worker, and each slot it owns in the
  table is in the hands of its pump, its dispatch queue or a worker, waits to be released again, or is in `lost`
  (`Covered`). Only a release that raised parks a lease, so being parked counts only where trouble has been spent.
  `SlotsInHands` follows from the three invariants together.

`KeyedContextProofs`, for any finite set of coroutines and any number of names, at most two in a context:

- The invariant says that three kinds of books agree with the entries of the contexts: a gate's
  holder and waiters are the contexts that own it or wait for it (`GateOK`), a lease is held by who
  has the key entered (`LeaseOK`), and an entry of a table counts its references, which all have
  its lock (`TableOK`). `OwnsOnce` adds that a context does not own one gate through two
  entries, without which giving one back would take the other along: this is where a relation of an
  entity with itself matters, and `SelfLoops` is left open in the proof. A step moves one context; the books of the
  others are as they were (`GateStep`, `TableStep`, `LeaseSame`).
- `Fresh`: a lock object that nobody refers to exists whenever one is made. There are two for each
  coroutine, every lock of a table is the lock of an entry, and who takes a key has fewer than two entries.
- `ReferencesCounted`, `KeysExclude` and the action property `ExitReleasesAll` follow. Exclusion comes from the
  leases when there are several processes, and with one from the lock that all references to a name share.

`ScanJobsProofs`:

- `HandoverHolds`: `HandInv` says for each request, from the places of its caller and its child alone
  (`Places`), what the two hold (`Held`), who may be cancelled by whom (`Torn`), that a reservation has
  somebody who will give it back (`Owned`) and what the job record may be (`Noted`); and that an
  exclusive reservation has no company (`AllAlone`).
  Every step touches one request but the reaping and the eviction of records, and those keep what
  `Noted` says of the others; so the proof is one request at a time.
- `RecordsHonest`, the action property `StatusHonest`, from the same invariant.

Only model-checked: liveness (`DeadHolderReclaimed`, `RetryServed`, `FreezeEnds`, `EnterEnds`,
`NothingLingers`), which TLAPS does not reach.

## 7. Where the code and its documents disagree

Three have a run that shows them and an entry under `findings` with the quoted line:

- `pipeline_self_wait`: an upload holds its enqueue reservation through the drive it runs; if that
  drive finds a manual retry it waits for its own reservation for ever
  (`document_routes.py` 5507, 1729-1730; `pipeline.py` 3811-3819).
- `keyed_self_loop`: a relation of an entity with itself makes one context lock one name twice, and
  the coroutine waits for the gate it holds itself (`utils_graph.py` 437, 1170; `shared_storage.py` 1129).

- `delete_scan`: a run that takes over a slot is exempt from the scan fence because it "took the slot
  before scanning could start" (`shared_storage.py` 2948-2949). `adelete_by_doc_id` does not refuse
  while a scan is reserved (`ontorag.py` 5941; `ainsert_custom_chunks` does, 2066-2080): it takes the slot
  between the scan's reservation and its reset, finds the scan's own request in the mailbox, and its
  drive processes documents while the scan classifies.

The others were met while modelling. The models contain the behaviour; the properties are stated so
that they hold with it, or exempt exactly it:

- Lease: a record is stamped by the server, after the claimant may have died and its pid been reused
  (`shared_storage.py` 803); with `EarlyReuse` a dead holder's record looks alive as long as the new
  process lives. A release that raises leaves the key held until its process dies.
- Pipeline: a scan that is refused after it reserved gives its fence back without serving the drive it
  turned away (`document_routes.py` 4863, `shared_storage.py` 2957-2960), and a killed drive leaves its
  queue to the next trigger; `NoWorkStranded` therefore speaks of behaviours that nothing disturbed
  (`Undisturbed`: no kill, fault, cancellation, reset or fence, no unfinished document at the start, and no
  more requests than the mailbox holds). A cancellation requested during a
  clear is not reset by it and makes the next holder give up (`document_routes.py` 4203). A retry
  published between a scan's reservation and its own request is served after that request, first in,
  first out. A custom-chunk insert works beside admitted enqueues; when it is killed the fence goes up
  while they still write, so a recovery fence does not mean that nobody writes (`Sealed` is the
  fence that does).
- Single delete: a call that joins a batch delete looks at the job name once and may outlive the
  batch (`ontorag.py` 5961-5974); it then deletes beside whoever holds the slot next. A killed single delete
  fences the workspace while a scan classifies, and the force reset that lifts the fence lifts
  the scan's reservation too. For these reasons `FlagsInv` is not claimed beside it.
- Scan jobs: a task cancelled by a shutdown inside the `finally` of `run_scanning_process` (4053-4134)
  does not reach `finish`, and its record is running until the lease is over, though 3657-3662 say the
  `finally` finalises it. When a caller was cancelled and its child dies after the commit and before its
  work, nobody runs the backstop that `shared_storage.py` 3437-3440 promises; only a shutdown or a failed
  release of a lock does this. `document_routes.py` near 5958 says that a live scan cannot coexist with
  the clear; a scan releases `scanning` before its deferred drive and before it finishes its record. A
  `create` that raises after it took effect leaves an orphan record until its lease is over, and a lease
  may be over before the heartbeat of its scan exists, while the child waits for the status lock.
- Vector store: with `preload_app` a worker inherits the copy the master read and gets its update flag
  later (`gunicorn_config.py` 32, `ontorag_server.py` 2461); it is never told of commits in between, and
  its next save reverts them; the same holds for a worker that a failed notification missed. `missed` in
  `ForeignRowsKept` is this. The class docstring (`nano_vector_db_impl.py` 170-171) calls deletes
  lossless, while the log keeps one removed version of each id (532, 551). An older pending upsert overwrites
  a newer row of another process at its flush; reads and flush may disagree when a removed version
  carries a later token than the row rewritten since; a failed `drop` has already lost the buffers.
- Limiter: `limited_worker` counts itself out of `executing` before it awaits the release of its slot,
  so for that moment the table may count a call that the process does not (`utils.py` near 1750).

## 8. Not modelled

- The inside of a document's processing: parsing, analysis, extraction, merging and the worker
  queues of a batch are one step from active to its end. They share entities and relations, under
  `KeyedContext`, and models, under `CallLimiter`; what they compute is text.
- The weights of admission (`max_pending_documents` > 0; the default 0 is modelled).
- The feeder takes up to 256 notifications at once; the model takes one at a time, which is the finer
  interleaving. A second failure of the Manager inside the fallback of a failed publish is not modelled.
- Entity and relation editing of the facade, and what a custom-chunk insert or a delete writes to chunks,
  vectors and graph (one step each); owners whose liveness cannot be decided (they are kept, as if alive).
- Job records: the counters, samples and byte ceilings of a report, and everything a status query reads
  but the status.
- `UnifiedLock` over a blocking lock of the Manager (`get_internal_lock`, `get_data_init_lock`) and
  `NamespaceLock`.
- Small differences between an action and its handler, none of which a property can tell apart:
  - Lease: a `try_acquire` that raises after the server has installed the record (`shared_storage.py` 796, 811, 918)
    leaves the key held until its process dies; `KeyedContext.PollFails` leaves the lease as it was.
  - Pipeline: a failed read of `full_docs` or a failed hydration by the feeder, whose re-publication is swallowed
    (`pipeline.py` 2340-2345, 2496-2534). A page of the reset is read and written in one step, and its lost owner
    goes to `Lost` where the code raises and finalizes (3293-3299). `AckRequest` reads the request it acknowledges
    from `status`, not from the id it kept (4030-4042), which is the same there. `HandsOff` does not fail; a failed
    mailbox probe drives once too often (`ontorag.py` 2593-2605, `document_routes.py` 4448-4457).
    `RollBackJournals` rolls back all journals or none (`ontorag.py` 2889-2921); the runs have one at most.
    `Classify` leaves a stale FAILED stub without content, which the code removes (`document_routes.py` 3940-3965).
  - Vector store: `ReadById` takes its two lock sections as one (`nano_vector_db_impl.py` 1161-1177), and
    every row has a token, so the fallback to whole seconds is not needed (`write_seq.py` 122).
  - Limiter: a caller cancelled in `_publish_stats` leaves its future pending while its state is dropped (`utils.py`
    2228), and a dispatched call is still made for nobody; `Return` resolves the future. `PickUp` is one step,
    though before Python 3.12 `wait_for` may hold the pair for one turn of the loop (1693). A lease counts as held
    from its dispatch, not from the moment it is read (1280), so that the model renews less; `Renew` takes the leases held at
    that instant, not a snapshot from before the lock (1377); `Close` gives back what is left in one step, with at
    most one failure (2121-2127).
- The limiter without a global limit, and its statistics; the gate's waiter records.
- `faiss_impl.py` and the file-backed graph and key-value stores. Remote stores are adapters to a database
  server with no protocol of their own; `Pipeline` takes a storage call as atomic, or failing. These
  adapters, the operations on text (`operate.py`, most of `utils.py`), the parsers, model bindings, routers
  and the web UI are most of the repository's lines. They hold no state that several actors
  share, and are left to its tests.
- The admission middleware and the login limiter: counters of one process, a few sequential lines each.

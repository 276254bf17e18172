----------------------------- MODULE CallLimiter -----------------------------
(***************************************************************************)
(* priority_limit_async_func_call in global-limit mode (ontorag/utils.py): *)
(* in every worker process one priority queue, one slot pump, MaxSize      *)
(* executor workers and a health check, on one event loop; between them    *)
(* the gate of GlobalSlots.                                                *)
(*                                                                         *)
(* A stretch of code without a suspension is one action.  The locks of the *)
(* limiter are never held across one (task_states_lock,                    *)
(* initialization_lock), so taking them suspends nobody; the suspensions   *)
(* are the calls to the gate, the waits for a future, for admission, for   *)
(* the two queues, and the provider call itself.                           *)
(***************************************************************************)
EXTENDS GlobalSlots, Sequences, SequencesExt, SequenceFilter

CONSTANTS
    Call,             \* calls of the wrapped function
    Home,             \* Home[c]: the process that makes call c
    NoCall, NoLease,
    MaxSize,          \* max_size: workers of a process
    MaxQueue,         \* max_queue_size, 0 is unlimited
    DrainLimit,       \* DEFAULT_GLOBAL_SLOT_DRAIN_LIMIT
    CompactThreshold, \* zombie_compact_threshold
    CompactBatch,     \* DEFAULT_COMPACT_BATCH_LIMIT
    MaxTroubles,      \* bound: killed processes, calls to the gate that raise, and
                      \* heartbeats of a held lease that come too late
    Stops             \* the processes that may be shut down

ASSUME CallAssumption == Home \in [Call -> Proc] /\ NoCall \notin Call /\ NoLease \notin Lease
ASSUME SizeAssumption == {MaxSize, DrainLimit, CompactBatch} \subseteq Nat \ {0}
ASSUME BoundAssumption ==
    {MaxQueue, CompactThreshold, MaxTroubles} \subseteq Nat

Worker == Proc \X (1 .. MaxSize)

VARIABLES
    phase,          \* phase[p]: open, draining, stopping, gathering, stopped
    caller,         \* caller[c]: new, waiting (admission), woken, awaiting, cleanup, returned
    task,           \* task[c]: none (not in task_states), queued, started
    future,         \* future[c]: pending, resolved (with a result, an error or cancelled)
    queue,          \* queue[p]: the physical queue
    liveQueued,     \* live_queued
    unfinished,     \* the physical queue's count of unfinished tasks
    dispatch,       \* dispatch[p]: dispatch_queue
    pump,           \* pump[p]: where the slot pump is, and its lease
    worker,         \* worker[w]: where the worker is, its call and lease
    held,           \* held_leases
    pendingRelease, \* pending_release
    budget          \* what is left of MaxTroubles

calls  == <<caller, task, future>>
queues == <<queue, liveQueued, unfinished>>
loops  == <<dispatch, pump, worker>>
leases == <<held, pendingRelease>>
vars == <<mode, gate, phase, calls, queues, loops, leases, budget>>

CallsOf(p) == {c \in Call : Home[c] = p}
WorkersOf(p) == {w \in Worker : w[1] = p}
Executing(p) == {w \in WorkersOf(p) : worker[w].at = "running"}
Idle == [at |-> "idle", call |-> NoCall, lease |-> NoLease]
Gone == [at |-> "gone", call |-> NoCall, lease |-> NoLease]

Up(p) == mode[p] = "running"
Accepting(p) == phase[p] = "open"
Full(p) == MaxQueue > 0 /\ liveQueued[p] >= MaxQueue

\* A queued tuple whose task is unregistered, or whose future is done.
Zombie(c) == task[c] = "none" \/ future[c] # "pending"

Trouble == /\ budget > 0
           /\ budget' = budget - 1

\* The leases an id of which somebody still has.
Known == InUse(table) \cup (UNION {held[p] \cup pendingRelease[p] : p \in Proc})
         \cup {pump[p].lease : p \in Proc} \cup {worker[w].lease : w \in Worker}

Init ==
    /\ mode = [p \in Proc |-> "running"]
    /\ table = [l \in Lease |-> Free]
    /\ warned = {} /\ lapsed = {} /\ lost = {}
    /\ phase = [p \in Proc |-> "open"]
    /\ caller = [c \in Call |-> "new"]
    /\ task = [c \in Call |-> "none"]
    /\ future = [c \in Call |-> "pending"]
    /\ queue = [p \in Proc |-> <<>>]
    /\ liveQueued = [p \in Proc |-> 0]
    /\ unfinished = [p \in Proc |-> 0]
    /\ dispatch = [p \in Proc |-> <<>>]
    /\ pump = [p \in Proc |-> Idle]
    /\ worker = [w \in Worker |-> Idle]
    /\ held = [p \in Proc |-> {}]
    /\ pendingRelease = [p \in Proc |-> {}]
    /\ budget = MaxTroubles

-----------------------------------------------------------------------------
(* A call, _limited_wait.                                                  *)

\* notify_all on the admission condition.
Woken(p, f) == [c \in Call |-> IF Home[c] = p /\ f[c] = "waiting" THEN "woken" ELSE f[c]]

\* Admission, registration and put: no suspension between them.  The priority of
\* the call decides its place in the queue.
Admit(c) == LET p == Home[c] IN
    /\ caller' = [caller EXCEPT ![c] = "awaiting"]
    /\ task' = [task EXCEPT ![c] = "queued"]
    /\ liveQueued' = [liveQueued EXCEPT ![p] = @ + 1]
    /\ unfinished' = [unfinished EXCEPT ![p] = @ + 1]
    /\ \E k \in 1 .. Len(queue[p]) + 1 : queue' = [queue EXCEPT ![p] = InsertAt(@, k, c)]

Turned(c, where) ==
    /\ caller' = [caller EXCEPT ![c] = where]
    /\ UNCHANGED <<task, queues>>

\* A call arrives, or wakes up waiting for admission.
Submit(c) == LET p == Home[c] IN
    /\ Up(p)
    /\ caller[c] \in {"new", "woken"}
    /\ \/ ~ Accepting(p) /\ Turned(c, "returned")
       \/ Accepting(p) /\ Full(p) /\ Turned(c, "waiting")
       \/ Accepting(p) /\ ~ Full(p) /\ Admit(c)
    /\ UNCHANGED <<mode, gate, phase, future, loops, leases, budget>>

\* QueueFullError, or the caller is cancelled while it waits.
GiveUpAdmission(c) ==
    /\ Up(Home[c])
    /\ caller[c] \in {"waiting", "woken"}
    /\ Turned(c, "returned")
    /\ UNCHANGED <<mode, gate, phase, future, loops, leases, budget>>

\* Mutant: the reservation is given back whoever has the task.
LeaveTwice(c) == LET p == Home[c] left == [caller EXCEPT ![c] = "returned"] IN
    /\ task' = [task EXCEPT ![c] = "none"]
    /\ liveQueued' = [liveQueued EXCEPT ![p] = @ - 1]
    /\ caller' = Woken(p, left)
    /\ UNCHANGED <<mode, gate, phase, queue, unfinished, loops, leases, budget>>
\* The finally of _limited_wait: the reservation goes with the task unless a
\* worker has it.
Leave(c) == LET p == Home[c] left == [caller EXCEPT ![c] = "returned"] IN
    /\ task' = [task EXCEPT ![c] = "none"]
    /\ IF task[c] = "queued"
       THEN /\ liveQueued' = [liveQueued EXCEPT ![p] = @ - 1]
            /\ caller' = Woken(p, left)
       ELSE /\ caller' = left
            /\ UNCHANGED liveQueued
    /\ UNCHANGED <<mode, gate, phase, queue, unfinished, loops, leases, budget>>

\* The future is resolved, or the caller is cancelled, which cancels the future.
Return(c) ==
    /\ Up(Home[c])
    /\ caller[c] = "awaiting"
    /\ \/ future[c] # "pending" /\ UNCHANGED future
       \/ future[c] = "pending" /\ future' = [future EXCEPT ![c] = "resolved"]
    /\ Leave(c)

\* The user's timeout: the future is cancelled, and the call waits for whoever
\* has the task to clean up, but not longer than cleanup_timeout.
UserTimeout(c) ==
    /\ Up(Home[c])
    /\ caller[c] = "awaiting" /\ future[c] = "pending"
    /\ future' = [future EXCEPT ![c] = "resolved"]
    /\ caller' = [caller EXCEPT ![c] = "cleanup"]
    /\ UNCHANGED <<mode, gate, phase, task, queues, loops, leases, budget>>

CleanupEnds(c) ==
    /\ Up(Home[c])
    /\ caller[c] = "cleanup"
    /\ UNCHANGED future
    /\ Leave(c)

-----------------------------------------------------------------------------
(* The slot pump.                                                          *)

\* The pump asks only if there is work and a worker to do it.
Ask(p) ==
    /\ Up(p)
    /\ pump[p].at = "idle"
    /\ queue[p] # <<>>
    /\ Len(dispatch[p]) + Cardinality(Executing(p)) < MaxSize
    /\ pump' = [pump EXCEPT ![p].at = "asking"]
    /\ UNCHANGED <<mode, gate, phase, calls, queues, dispatch, worker, leases, budget>>

\* The gate's answer: a new lease, which the pump has not read yet, or none.
Granted(p) ==
    /\ Up(p)
    /\ pump[p].at = "asking"
    /\ \E l \in Lease \ Known :
         /\ Grant(p, l, TRUE)
         /\ pump' = [pump EXCEPT ![p] = [at |-> "granted", call |-> NoCall, lease |-> l]]
    /\ UNCHANGED <<mode, phase, calls, queues, dispatch, worker, leases, budget>>

Refused(p) ==
    /\ Up(p)
    /\ pump[p].at = "asking"
    /\ ~ HasRoom
    /\ Reap
    /\ pump' = [pump EXCEPT ![p] = Idle]
    /\ UNCHANGED <<mode, phase, calls, queues, dispatch, worker, leases, budget>>

\* The call to the gate raises, before or after it took effect: no lease.
AskFails(p) ==
    /\ Up(p)
    /\ pump[p].at = "asking"
    /\ Trouble
    /\ \/ UNCHANGED gate
       \/ \E l \in Lease \ Known : Grant(p, l, FALSE)
    /\ pump' = [pump EXCEPT ![p] = Idle]
    /\ UNCHANGED <<mode, phase, calls, queues, dispatch, worker, leases>>

\* The zombies at the head of the queue, at most DrainLimit.
Drained(p) ==
    CHOOSE k \in 0 .. Len(queue[p]) :
        /\ k <= DrainLimit
        /\ \A j \in 1 .. k : Zombie(queue[p][j])
        /\ k = DrainLimit \/ k = Len(queue[p]) \/ ~ Zombie(queue[p][k + 1])

\* With the lease in hand, the pump drains zombies and claims the first live
\* task, or gives the lease back.
Claim(p) ==
    LET k == Drained(p)
        drained == {queue[p][j] : j \in 1 .. k}
        released == {c \in drained : task[c] = "queued"}
        found == k < DrainLimit /\ k < Len(queue[p])
        c == queue[p][k + 1]
        l == pump[p].lease
        cleared == [d \in Call |-> IF d \in drained THEN "none" ELSE task[d]]
    IN
    /\ Up(p)
    /\ pump[p].at = "granted"
    /\ unfinished' = [unfinished EXCEPT ![p] = @ - k]
    /\ caller' = IF found \/ released # {} THEN Woken(p, caller) ELSE caller
    /\ \/ /\ found
          /\ queue' = [queue EXCEPT ![p] = SubSeq(@, k + 2, Len(@))]
          /\ task' = [cleared EXCEPT ![c] = "started"]
          /\ liveQueued' = [liveQueued EXCEPT ![p] = @ - Cardinality(released) - 1]
          /\ dispatch' = [dispatch EXCEPT ![p] = Append(@, [call |-> c, lease |-> l])]
          /\ held' = [held EXCEPT ![p] = @ \cup {l}]
          /\ pump' = [pump EXCEPT ![p] = Idle]
       \/ /\ ~ found
          /\ queue' = [queue EXCEPT ![p] = SubSeq(@, k + 1, Len(@))]
          /\ task' = cleared
          /\ liveQueued' = [liveQueued EXCEPT ![p] = @ - Cardinality(released)]
          /\ pump' = [pump EXCEPT ![p].at = "releasing"]
          /\ UNCHANGED <<dispatch, held>>
    /\ UNCHANGED <<mode, gate, phase, future, worker, pendingRelease, budget>>

\* Mutant: a release that raises is not repeated.
ReleaseForgotten(p, l) ==
    \/ ReleaseSlots({l}) /\ UNCHANGED <<pendingRelease, budget>>
    \/ /\ Trouble
       /\ UNCHANGED <<gate, pendingRelease>>
\* _release_lease_safely: released, or parked for a later retry if the call
\* raises, before or after it took effect.
ReleaseSafely(p, l) ==
    \/ ReleaseSlots({l}) /\ UNCHANGED <<pendingRelease, budget>>
    \/ /\ Trouble
       /\ UNCHANGED gate \/ ReleaseSlots({l})
       /\ pendingRelease' = [pendingRelease EXCEPT ![p] = @ \cup {l}]

PumpReleases(p) ==
    /\ Up(p)
    /\ pump[p].at = "releasing"
    /\ ReleaseSafely(p, pump[p].lease)
    /\ pump' = [pump EXCEPT ![p] = Idle]
    /\ UNCHANGED <<mode, phase, calls, queues, dispatch, worker, held>>

-----------------------------------------------------------------------------
(* The workers.                                                            *)

\* Mutant: no task_done.
FinallyUncounted(p, w, c, l) ==
    /\ task' = [task EXCEPT ![c] = "none"]
    /\ held' = [held EXCEPT ![p] = @ \ {l}]
    /\ worker' = [worker EXCEPT ![w] = [at |-> "releasing", call |-> NoCall, lease |-> l]]
    /\ UNCHANGED unfinished
\* Mutant: the lease stays among those the health check renews.
FinallyHeld(p, w, c, l) ==
    /\ task' = [task EXCEPT ![c] = "none"]
    /\ unfinished' = [unfinished EXCEPT ![p] = @ - 1]
    /\ worker' = [worker EXCEPT ![w] = [at |-> "releasing", call |-> NoCall, lease |-> l]]
    /\ UNCHANGED held
\* The synchronous part of limited_worker's finally, for call c with lease l.
Finally(p, w, c, l) ==
    /\ task' = [task EXCEPT ![c] = "none"]
    /\ unfinished' = [unfinished EXCEPT ![p] = @ - 1]
    /\ held' = [held EXCEPT ![p] = @ \ {l}]
    /\ worker' = [worker EXCEPT ![w] = [at |-> "releasing", call |-> NoCall, lease |-> l]]

\* A worker takes a dispatched pair; a call given up meanwhile is not made.
PickUp(w) ==
    LET p == w[1]
        c == Head(dispatch[p]).call
        l == Head(dispatch[p]).lease
    IN
    /\ Up(p)
    /\ worker[w].at = "idle"
    /\ dispatch[p] # <<>>
    /\ dispatch' = [dispatch EXCEPT ![p] = Tail(@)]
    /\ \/ /\ future[c] # "pending"
          /\ Finally(p, w, c, l)
       \/ /\ future[c] = "pending"
          /\ worker' = [worker EXCEPT ![w] = [at |-> "running", call |-> c, lease |-> l]]
          /\ UNCHANGED <<task, unfinished, held>>
    /\ UNCHANGED <<mode, gate, phase, caller, future, queue, liveQueued, pump, pendingRelease,
                   budget>>

\* The provider answers, raises, or runs into max_execution_timeout.
Finish(w) ==
    LET p == w[1] c == worker[w].call IN
    /\ Up(p)
    /\ worker[w].at = "running"
    /\ future' = [future EXCEPT ![c] = "resolved"]
    /\ Finally(p, w, c, worker[w].lease)
    /\ UNCHANGED <<mode, gate, phase, caller, queue, liveQueued, dispatch, pump, pendingRelease,
                   budget>>

WorkerReleases(w) ==
    LET p == w[1] IN
    /\ Up(p)
    /\ worker[w].at = "releasing"
    /\ ReleaseSafely(p, worker[w].lease)
    /\ worker' = [worker EXCEPT ![w] = IF phase[p] \in {"open", "draining"} THEN Idle ELSE Gone]
    /\ UNCHANGED <<mode, phase, calls, queues, dispatch, pump, held>>

-----------------------------------------------------------------------------
(* The health check.                                                       *)

Healthy(p) == Up(p) /\ phase[p] # "stopped"

\* A call over max_task_duration: its future fails, its worker goes on.
Stuck(c) ==
    /\ Healthy(Home[c])
    /\ task[c] = "started"
    /\ future' = [future EXCEPT ![c] = "resolved"]
    /\ task' = [task EXCEPT ![c] = "none"]
    /\ UNCHANGED <<mode, gate, phase, caller, queues, loops, leases, budget>>

\* renew_global_slots for the leases held.
Renew(p) ==
    /\ Healthy(p)
    /\ held[p] # {}
    /\ RenewSlots(p, held[p])
    /\ UNCHANGED <<mode, phase, calls, queues, loops, leases, budget>>

RetryRelease(p) ==
    /\ Healthy(p)
    /\ \E l \in pendingRelease[p] :
         /\ ReleaseSlots({l})
         /\ pendingRelease' = [pendingRelease EXCEPT ![p] = @ \ {l}]
    /\ UNCHANGED <<mode, phase, calls, queues, loops, held, budget>>

Reconcile(p) ==
    /\ Healthy(p)
    /\ Reap
    /\ UNCHANGED <<mode, phase, calls, queues, loops, leases, budget>>

\* _compact_physical_queue: one batch from the head of the queue.
Compact(p) ==
    LET n == IF Len(queue[p]) < CompactBatch THEN Len(queue[p]) ELSE CompactBatch
        zombies == {queue[p][j] : j \in {i \in 1 .. n : Zombie(queue[p][i])}}
        released == {c \in zombies : task[c] = "queued"}
    IN
    /\ Healthy(p)
    /\ Len(queue[p]) - liveQueued[p] > CompactThreshold
    /\ queue' = [queue EXCEPT ![p] = Without(@, zombies)]
    /\ unfinished' = [unfinished EXCEPT ![p] = @ - Cardinality(zombies)]
    /\ liveQueued' = [liveQueued EXCEPT ![p] = @ - Cardinality(released)]
    /\ task' = [c \in Call |-> IF c \in zombies THEN "none" ELSE task[c]]
    /\ caller' = IF released # {} THEN Woken(p, caller) ELSE caller
    /\ UNCHANGED <<mode, gate, phase, future, loops, leases, budget>>

-----------------------------------------------------------------------------
(* shutdown().                                                             *)

\* Mutant: nobody who waits for admission is told.
StartShutdownSilently(p) ==
    /\ Up(p) /\ p \in Stops
    /\ phase[p] = "open"
    /\ phase' = [phase EXCEPT ![p] = "draining"]
    /\ UNCHANGED <<mode, gate, calls, queues, loops, leases, budget>>
\* The queue closes for new calls.
StartShutdown(p) ==
    /\ Up(p) /\ p \in Stops
    /\ phase[p] = "open"
    /\ phase' = [phase EXCEPT ![p] = "draining"]
    /\ caller' = Woken(p, caller)
    /\ UNCHANGED <<mode, gate, task, future, queues, loops, leases, budget>>

\* The event is set and the pump cancelled: what it had asked for and not read
\* yet is nobody's, what it was releasing is parked.
StopPump(p) ==
    /\ phase' = [phase EXCEPT ![p] = "stopping"]
    /\ pump' = [pump EXCEPT ![p] = Gone]
    /\ pendingRelease' = [pendingRelease EXCEPT ![p] =
                            IF pump[p].at = "releasing" THEN @ \cup {pump[p].lease} ELSE @]

\* queue.join() returns.
Drain(p) ==
    /\ Up(p)
    /\ phase[p] = "draining"
    /\ unfinished[p] = 0
    /\ StopPump(p)
    /\ UNCHANGED <<mode, gate, calls, queues, dispatch, worker, held, budget>>

\* Mutant: only the calls that workers have are cancelled.
CancelledStarted(p) == {c \in CallsOf(p) : task[c] = "started"}
Cancelled(p) == {c \in CallsOf(p) : caller[c] \in {"awaiting", "cleanup"}}
\* The drain takes too long, or the shutdown is not graceful: the futures of all
\* calls are cancelled, and what is queued is thrown away.
ForceExit(p) ==
    /\ Up(p)
    /\ phase[p] = "draining"
    /\ future' = [c \in Call |-> IF c \in Cancelled(p) THEN "resolved" ELSE future[c]]
    /\ task' = [c \in Call |-> IF Home[c] = p THEN "none" ELSE task[c]]
    /\ queue' = [queue EXCEPT ![p] = <<>>]
    /\ unfinished' = [unfinished EXCEPT ![p] = @ - Len(queue[p])]
    /\ StopPump(p)
    /\ UNCHANGED <<mode, gate, caller, liveQueued, dispatch, worker, held, budget>>

\* The workers are cancelled; one that runs a call still returns its slot.
CancelWorkers(p) ==
    LET running == Executing(p)
        ended == {worker[w].call : w \in running}
        releasing == {w \in WorkersOf(p) : worker[w].at = "releasing"}
    IN
    /\ Up(p)
    /\ phase[p] = "stopping"
    /\ phase' = [phase EXCEPT ![p] = "gathering"]
    /\ future' = [c \in Call |-> IF c \in ended THEN "resolved" ELSE future[c]]
    /\ task' = [c \in Call |-> IF c \in ended THEN "none" ELSE task[c]]
    /\ unfinished' = [unfinished EXCEPT ![p] = @ - Cardinality(running)]
    /\ held' = [held EXCEPT ![p] = @ \ {worker[w].lease : w \in running}]
    /\ pendingRelease' = [pendingRelease EXCEPT ![p] =
                            @ \cup {worker[w].lease : w \in releasing}]
    /\ worker' = [w \in Worker |->
                    IF w \in running
                    THEN [at |-> "releasing", call |-> NoCall, lease |-> worker[w].lease]
                    ELSE IF w[1] = p THEN Gone ELSE worker[w]]
    /\ UNCHANGED <<mode, gate, caller, queue, liveQueued, dispatch, pump, budget>>

Gathered(p) == \A w \in WorkersOf(p) : worker[w].at = "gone"

\* What was dispatched and not picked up.
DrainDispatch(p) ==
    LET c == Head(dispatch[p]).call
        l == Head(dispatch[p]).lease
    IN
    /\ Up(p)
    /\ phase[p] = "gathering" /\ Gathered(p)
    /\ dispatch[p] # <<>>
    /\ dispatch' = [dispatch EXCEPT ![p] = Tail(@)]
    /\ future' = [future EXCEPT ![c] = "resolved"]
    /\ task' = [task EXCEPT ![c] = "none"]
    /\ unfinished' = [unfinished EXCEPT ![p] = @ - 1]
    /\ held' = [held EXCEPT ![p] = @ \ {l}]
    /\ ReleaseSafely(p, l)
    /\ UNCHANGED <<mode, phase, caller, queue, liveQueued, pump, worker>>

\* The health check is cancelled, and whatever is still held or parked is
\* released, each at most once more.
Close(p) ==
    LET left == held[p] \cup pendingRelease[p] IN
    /\ Up(p)
    /\ phase[p] = "gathering" /\ Gathered(p)
    /\ dispatch[p] = <<>>
    /\ \/ ReleaseSlots(left) /\ UNCHANGED budget
       \/ Trouble /\ \E l \in left : ReleaseSlots(left \ {l})
    /\ phase' = [phase EXCEPT ![p] = "stopped"]
    /\ held' = [held EXCEPT ![p] = {}]
    /\ pendingRelease' = [pendingRelease EXCEPT ![p] = {}]
    /\ UNCHANGED <<mode, calls, queues, loops>>

-----------------------------------------------------------------------------
(* The world.                                                              *)

\* SIGKILL; the pid is gone, or looks alive (not reaped yet, or reused).
Kill(p) ==
    /\ Up(p)
    /\ Trouble
    /\ \E m \in {"dead", "ghost"} : mode' = [mode EXCEPT ![p] = m]
    /\ phase' = [phase EXCEPT ![p] = "stopped"]
    /\ caller' = [c \in Call |-> IF Home[c] = p THEN "returned" ELSE caller[c]]
    /\ task' = [c \in Call |-> IF Home[c] = p THEN "none" ELSE task[c]]
    /\ queue' = [queue EXCEPT ![p] = <<>>]
    /\ liveQueued' = [liveQueued EXCEPT ![p] = 0]
    /\ unfinished' = [unfinished EXCEPT ![p] = 0]
    /\ dispatch' = [dispatch EXCEPT ![p] = <<>>]
    /\ pump' = [pump EXCEPT ![p] = Gone]
    /\ worker' = [w \in Worker |-> IF w[1] = p THEN Gone ELSE worker[w]]
    /\ held' = [held EXCEPT ![p] = {}]
    /\ pendingRelease' = [pendingRelease EXCEPT ![p] = {}]
    /\ UNCHANGED <<gate, future>>

\* Time passes: a lease whose owner renews it expires only if the owner stalls.
Kept(l) == \E p \in Proc : Up(p) /\ l \in held[p]
Time(l) ==
    /\ \/ HeartbeatExpires(l) /\ IF Kept(l) THEN Trouble ELSE UNCHANGED budget
       \/ GraceEnds(l) /\ UNCHANGED budget
    /\ UNCHANGED <<mode, phase, calls, queues, loops, leases>>

PumpStep(p) == Ask(p) \/ Granted(p) \/ Refused(p) \/ AskFails(p) \/ Claim(p) \/ PumpReleases(p)
WorkerStep(w) == PickUp(w) \/ Finish(w) \/ WorkerReleases(w)
CallStep(c) == Submit(c) \/ GiveUpAdmission(c) \/ Return(c) \/ UserTimeout(c) \/ CleanupEnds(c)
HealthStep(p) == Renew(p) \/ RetryRelease(p) \/ Reconcile(p) \/ Compact(p)
StopStep(p) == Drain(p) \/ ForceExit(p) \/ CancelWorkers(p) \/ DrainDispatch(p) \/ Close(p)

Next ==
    \/ \E c \in Call : CallStep(c) \/ Stuck(c)
    \/ \E p \in Proc : PumpStep(p) \/ HealthStep(p) \/ StartShutdown(p) \/ StopStep(p) \/ Kill(p)
    \/ \E w \in Worker : WorkerStep(w)
    \/ \E l \in Lease : Time(l)

Spec == Init /\ [][Next]_vars

-----------------------------------------------------------------------------
Dispatched(p) == {dispatch[p][j].lease : j \in DOMAIN dispatch[p]}
IsSequence(s) == s \in Seq({s[j] : j \in DOMAIN s})

\* The types of what has to do with slots.
TypeOK ==
    /\ mode \in [Proc -> {"running", "dead", "ghost"}]
    /\ table \in [Lease -> Slot \cup {Free}]
    /\ warned \subseteq Lease /\ lapsed \subseteq Lease /\ lost \subseteq Lease
    /\ pump \in [Proc -> [at : {"idle", "asking", "granted", "releasing", "gone"},
                          call : {NoCall}, lease : Lease \cup {NoLease}]]
    /\ worker = [w \in Worker |-> [at |-> worker[w].at, call |-> worker[w].call,
                                    lease |-> worker[w].lease]]
    /\ \A w \in Worker : worker[w].at \in {"idle", "running", "releasing", "gone"}
    /\ dispatch = [p \in Proc |-> dispatch[p]]
    /\ \A p \in Proc : IsSequence(dispatch[p])
    /\ held \in [Proc -> SUBSET Lease] /\ pendingRelease \in [Proc -> SUBSET Lease]

Running == {w \in Worker : worker[w].at = "running"}

\* Neither the table nor the calls in flight of all processes together exceed the
\* limit of the group, whatever is renewed, released late or reclaimed; only the
\* calls of a process that stalled past the grace come on top.
WithinLimit ==
    /\ Cardinality(InUse(table)) <= Limit
    /\ Cardinality({w \in Running : worker[w].lease \notin lapsed}) <= Limit

\* live_queued counts each admitted call that no worker has, exactly once, though
\* the pump, the compaction and the call itself may each be the one to give the
\* reservation back; and the graceful drain, which waits for queue.join(), ends exactly
\* when nothing is queued, dispatched or running.
CountersMatch == \A p \in Proc :
    /\ phase[p] \in {"open", "draining"} =>
         liveQueued[p] = Cardinality({c \in CallsOf(p) : task[c] = "queued"})
    /\ unfinished[p] = Len(queue[p]) + Len(dispatch[p]) + Cardinality(Executing(p))

\* A call sleeps for admission only while the queue is full and open: whoever makes
\* room, or closes the queue, wakes it.
NoLostWakeup == \A c \in Call :
    caller[c] = "waiting" => Accepting(Home[c]) /\ Full(Home[c])

\* A call whose caller still waits is queued, dispatched or running until its
\* future is resolved, and no call is left waiting by a shutdown.
NoCallLost == \A c \in Call : LET p == Home[c] IN
    Up(p) /\ caller[c] = "awaiting" /\ future[c] = "pending" =>
        /\ phase[p] # "stopped"
        /\ \/ c \in ToSet(queue[p])
           \/ \E j \in 1 .. Len(dispatch[p]) : dispatch[p][j].call = c
           \/ \E w \in Executing(p) : worker[w].call = c

\* A slot in the table is never forgotten by the process that serves calls with it: it
\* is with the pump, dispatched, with a worker, or among the releases to be repeated,
\* and there only if a release has failed.  The one slot nobody will give back is that
\* of an acquire that raised after it took effect.
SlotsAccounted == \A l \in InUse(table) : LET p == table[l].owner IN
    phase[p] \in {"open", "draining"} =>
        \/ pump[p].lease = l
        \/ \E j \in 1 .. Len(dispatch[p]) : dispatch[p][j].lease = l
        \/ \E w \in WorkersOf(p) : worker[w].lease = l
        \/ l \in pendingRelease[p] /\ budget < MaxTroubles
        \/ l \in lost

\* A running process loses a slot only after a reaper has found its heartbeat
\* expired once before and no renewal came in between.
WarnedFirst == [][lapsed' \ lapsed \subseteq warned]_vars

-----------------------------------------------------------------------------
(* The inductive invariant behind WithinLimit and WarnedFirst.             *)

\* p has the slot of l, or has lost it while it stalled.
Owns(p, l) == l \in lapsed \/ (table[l] # Free /\ table[l].owner = p)

\* A lease that is held belongs to one process, which runs and owns its slot, and
\* waits for no second release.
HeldOK(p) == \A l \in held[p] :
    /\ Up(p) /\ Owns(p, l)
    /\ \A q \in Proc : l \notin pendingRelease[q] /\ (q # p => l \notin held[q])

\* In the pump's hands, a lease is in nobody else's.
PumpOK(p) == LET l == pump[p].lease IN
    IF pump[p].at \in {"granted", "releasing"}
    THEN /\ l # NoLease
         /\ pump[p].at = "granted" => Up(p) /\ Owns(p, l)
         /\ \A q \in Proc : /\ l \notin held[q] \cup pendingRelease[q]
                            /\ q # p => pump[q].lease # l
         /\ \A w \in Worker : worker[w].lease # l
    ELSE l = NoLease

\* A held lease is dispatched once,
DispatchOK(p) == \A j \in DOMAIN dispatch[p] :
    /\ dispatch[p][j].lease \in held[p]
    /\ \A k \in DOMAIN dispatch[p] : j # k => dispatch[p][j].lease # dispatch[p][k].lease

\* or is with one worker, until it is released.
WorkerOK(w) == LET p == w[1] l == worker[w].lease IN
    /\ worker[w].at = "running" => l \in held[p] \ Dispatched(p)
    /\ worker[w].at = "releasing" =>
         l \in Lease /\ \A q \in Proc : l \notin held[q] \cup pendingRelease[q]
    /\ worker[w].at \in {"idle", "gone"} => l = NoLease
    /\ \A v \in Worker : v # w => l = NoLease \/ worker[v].lease # l

TableOK ==
    /\ IsFiniteSet(InUse(table)) /\ Cardinality(InUse(table)) <= Limit
    /\ \A l \in InUse(table) : table[l].mark # "none" => l \in warned

\* A lease is in one pair of hands at a time: the pump's, the dispatch queue's, a
\* worker's, or those of whoever repeats a failed release; while it is among the
\* held leases, which the health check renews, its slot is still its process's.
SlotInv ==
    /\ TypeOK /\ TableOK
    /\ \A p \in Proc : HeldOK(p) /\ PumpOK(p) /\ DispatchOK(p)
    /\ \A w \in Worker : WorkerOK(w)
=============================================================================

----------------------------- MODULE KeyedLease -----------------------------
(***************************************************************************)
(* The multi-process keyed lock of OntoRAG for one key: worker processes   *)
(* claim a lease record in KeyedHolderTable, which lives in the Manager    *)
(* server process (ontorag/kg/shared_storage.py).  There is no lock object *)
(* to strand: the record IS the lock, a claimant polls, and the server     *)
(* lets a claimant replace the record of an owner it has proved dead.      *)
(*                                                                         *)
(* One try_acquire is several steps, because the table's threading.Lock is *)
(* dropped while the server probes the holder and samples the claimant.    *)
(* Workers are killed at any step; a request that a dead worker had sent   *)
(* is still served; the operating system reuses process ids.               *)
(***************************************************************************)
EXTENDS Naturals

CONSTANTS
    Pid,            \* process ids the operating system hands to workers
    Lease,          \* uuid4 lease ids, each drawn at most once
    MaxStart,       \* bound: a pid is reused for incarnations 1..MaxStart
    NoPid, NoLease, \* the empty table entry's fields
    ZombieIsDead,   \* psutil installed: a zombie is reported dead
    Unreadable,     \* TRUE: a read of /proc/<pid>/stat may fail
    EarlyReuse      \* TRUE: a pid may be reused while a request of its previous
                    \* process is being served or its record has no start time

ASSUME NoPidAssumption   == NoPid \notin Pid
ASSUME NoLeaseAssumption == NoLease \notin Lease
ASSUME MaxStartAssumption == MaxStart \in Nat \ {0}
ASSUME FlagAssumption == /\ ZombieIsDead \in BOOLEAN
                         /\ Unreadable \in BOOLEAN
                         /\ EarlyReuse \in BOOLEAN

VARIABLES
    proc,    \* proc[p]: is pid p a running process, and its start time
    client,  \* client[p]: where the coroutine of process p is in acquire/release
    holder,  \* the holder record of the key
    rpc,     \* rpc[l]: the server thread that serves a request for lease l
    owner    \* owner[l]: the process that drew lease l (history)

vars == <<proc, client, holder, rpc, owner>>

\* A start time; 0 stands for None, "cannot tell".
NoDelta == 0
Start   == 1..MaxStart
Delta   == {NoDelta} \cup Start

Process  == [pid : Pid, start : Start]
NoOwner  == [pid |-> NoPid, start |-> 0]
Record   == [pid : Pid \cup {NoPid}, lease : Lease \cup {NoLease}, delta : Delta]
Empty    == [pid |-> NoPid, lease |-> NoLease, delta |-> NoDelta]

IdleClient == [pc |-> "idle", lease |-> NoLease]
IdleRpc    == [st |-> "idle", snap |-> Empty, delta |-> NoDelta]

Running(p)  == proc[p].st = "up"
ThisProcess(p) == [pid |-> p, start |-> proc[p].start]

\* The process that drew lease l is gone for good.
Dead(l) == /\ owner[l] # NoOwner
           /\ ~ (Running(owner[l].pid) /\ ThisProcess(owner[l].pid) = owner[l])

Client  == [pc : {"idle", "calling", "backoff", "held", "releasing"},
            lease : Lease \cup {NoLease}]
Request == [st : {"idle", "begin", "probe", "probe_start", "sample", "install",
                  "granted", "refused", "release", "released"},
            snap : Record, delta : Delta]

TypeOK ==
    /\ proc \in [Pid -> [st : {"up", "zombie", "gone"}, start : Start]]
    /\ client \in [Pid -> Client]
    /\ holder \in Record
    /\ rpc \in [Lease -> Request]
    /\ owner \in [Lease -> Process \cup {NoOwner}]

Init ==
    /\ proc = [p \in Pid |-> [st |-> "up", start |-> 1]]
    /\ client = [p \in Pid |-> IdleClient]
    /\ holder = Empty
    /\ rpc = [l \in Lease |-> IdleRpc]
    /\ owner = [l \in Lease |-> NoOwner]

-----------------------------------------------------------------------------
(* The probes of the server process.                                       *)

\* _pid_alive: with psutil a zombie counts as dead, without it as alive.
PidAlive(p) == \/ Running(p)
               \/ proc[p].st = "zombie" /\ ~ ZombieIsDead

\* _start_delta: every value one read of the start time of p can return.
\* The server's own start time is a constant of the difference and drops out.
StartDelta(p) == {d \in Delta : \/ d = proc[p].start /\ proc[p].st # "gone"
                                \/ d = NoDelta /\ (proc[p].st = "gone" \/ Unreadable)}

-----------------------------------------------------------------------------
(* _KeyedLeaseLock, the client side.                                       *)

\* acquire() draws a lease id and sends the first try_acquire.  The per-process
\* gate lets one coroutine of a process poll the key at a time.
Acquire(p) ==
    /\ Running(p)
    /\ client[p].pc = "idle"
    /\ \E l \in Lease :
         /\ owner[l] = NoOwner
         /\ owner' = [owner EXCEPT ![l] = ThisProcess(p)]
         /\ client' = [client EXCEPT ![p] = [pc |-> "calling", lease |-> l]]
         /\ rpc' = [rpc EXCEPT ![l].st = "begin"]
    /\ UNCHANGED <<proc, holder>>

\* The answer of try_acquire reaches the waiting coroutine.
Reply(p) ==
    LET l == client[p].lease IN
    /\ Running(p)
    /\ client[p].pc = "calling"
    /\ rpc[l].st \in {"granted", "refused"}
    /\ client' = [client EXCEPT ![p].pc = IF rpc[l].st = "granted" THEN "held" ELSE "backoff"]
    /\ rpc' = [rpc EXCEPT ![l] = IdleRpc]
    /\ UNCHANGED <<proc, holder, owner>>

\* The back-off ends and the same record is offered again.
Retry(p) ==
    /\ Running(p)
    /\ client[p].pc = "backoff"
    /\ client' = [client EXCEPT ![p].pc = "calling"]
    /\ rpc' = [rpc EXCEPT ![client[p].lease].st = "begin"]
    /\ UNCHANGED <<proc, holder, owner>>

\* The back-off sleep is the only cancellation point of acquire().
Cancel(p) ==
    /\ Running(p)
    /\ client[p].pc = "backoff"
    /\ client' = [client EXCEPT ![p] = IdleClient]
    /\ UNCHANGED <<proc, holder, rpc, owner>>

SendRelease(p) ==
    /\ Running(p)
    /\ client[p].pc = "held"
    /\ client' = [client EXCEPT ![p].pc = "releasing"]
    /\ rpc' = [rpc EXCEPT ![client[p].lease].st = "release"]
    /\ UNCHANGED <<proc, holder, owner>>

ReleaseReply(p) ==
    /\ Running(p)
    /\ client[p].pc = "releasing"
    /\ rpc[client[p].lease].st = "released"
    /\ client' = [client EXCEPT ![p] = IdleClient]
    /\ rpc' = [rpc EXCEPT ![client[p].lease] = IdleRpc]
    /\ UNCHANGED <<proc, holder, owner>>

-----------------------------------------------------------------------------
(* KeyedHolderTable, the server side.  Each action is one critical section *)
(* of the table's lock, or one probe made outside it.                      *)

\* try_acquire copies the record under the lock.
Snapshot(l) ==
    /\ rpc[l].st = "begin"
    /\ rpc' = [rpc EXCEPT ![l].snap = holder,
                          ![l].st = IF holder = Empty THEN "sample" ELSE "probe"]
    /\ UNCHANGED <<proc, client, holder, owner>>

\* _holder_dead, first probe: is there a process with the holder's pid?
ProbePid(l) ==
    /\ rpc[l].st = "probe"
    /\ rpc' = [rpc EXCEPT ![l].st =
                 IF ~ PidAlive(rpc[l].snap.pid)     THEN "sample"
                 ELSE IF rpc[l].snap.delta = NoDelta THEN "refused"
                                                     ELSE "probe_start"]
    /\ UNCHANGED <<proc, client, holder, owner>>

\* Fault: pid reuse is never noticed.
ReuseUnnoticed(l) ==
    /\ rpc[l].st = "probe_start"
    /\ rpc' = [rpc EXCEPT ![l].st = "refused"]
    /\ UNCHANGED <<proc, client, holder, owner>>

\* _holder_dead, second probe: is it the process the record was stamped for?
ProbeStart(l) ==
    /\ rpc[l].st = "probe_start"
    /\ \E d \in StartDelta(rpc[l].snap.pid) :
         rpc' = [rpc EXCEPT ![l].st =
                   IF d \notin {NoDelta, rpc[l].snap.delta} THEN "sample" ELSE "refused"]
    /\ UNCHANGED <<proc, client, holder, owner>>

\* The claimant's identity is sampled before the lock is taken again.
SampleClaimant(l) ==
    /\ rpc[l].st = "sample"
    /\ \E d \in StartDelta(owner[l].pid) :
         rpc' = [rpc EXCEPT ![l].delta = d, ![l].st = "install"]
    /\ UNCHANGED <<proc, client, holder, owner>>

\* Fault: the slot is written without looking at it again.
InstallUnchecked(l) ==
    /\ rpc[l].st = "install"
    /\ holder' = [pid |-> owner[l].pid, lease |-> l, delta |-> rpc[l].delta]
    /\ rpc' = [rpc EXCEPT ![l].st = "granted"]
    /\ UNCHANGED <<proc, client, owner>>

\* Fault: the record probed dead is recognised by its pid.
InstallByPid(l) ==
    /\ rpc[l].st = "install"
    /\ IF holder.pid = rpc[l].snap.pid
         THEN /\ holder' = [pid |-> owner[l].pid, lease |-> l, delta |-> rpc[l].delta]
              /\ rpc' = [rpc EXCEPT ![l].st = "granted"]
         ELSE /\ rpc' = [rpc EXCEPT ![l].st = "refused"]
              /\ UNCHANGED holder
    /\ UNCHANGED <<proc, client, owner>>

\* The slot is written only if it still is what the snapshot saw: still empty,
\* or still carrying the lease id that was probed dead.
Install(l) ==
    /\ rpc[l].st = "install"
    /\ IF holder.lease = rpc[l].snap.lease
         THEN /\ holder' = [pid |-> owner[l].pid, lease |-> l, delta |-> rpc[l].delta]
              /\ rpc' = [rpc EXCEPT ![l].st = "granted"]
         ELSE /\ rpc' = [rpc EXCEPT ![l].st = "refused"]
              /\ UNCHANGED holder
    /\ UNCHANGED <<proc, client, owner>>

\* Fault: a release pops whatever record is there.
ReleaseUnchecked(l) ==
    /\ rpc[l].st = "release"
    /\ holder' = Empty
    /\ rpc' = [rpc EXCEPT ![l].st = "released"]
    /\ UNCHANGED <<proc, client, owner>>

\* release pops the record iff it still carries the caller's lease id.
ServeRelease(l) ==
    /\ rpc[l].st = "release"
    /\ holder' = IF holder.lease = l THEN Empty ELSE holder
    /\ rpc' = [rpc EXCEPT ![l].st = "released"]
    /\ UNCHANGED <<proc, client, owner>>

-----------------------------------------------------------------------------
(* The operating system.                                                   *)

\* A worker is killed; whatever it was doing stops where it is.
Kill(p) ==
    /\ Running(p)
    /\ proc' = [proc EXCEPT ![p].st = "zombie"]
    /\ UNCHANGED <<client, holder, rpc, owner>>

\* The parent collects the zombie and the pid disappears from /proc.
Collect(p) ==
    /\ proc[p].st = "zombie"
    /\ proc' = [proc EXCEPT ![p].st = "gone"]
    /\ UNCHANGED <<client, holder, rpc, owner>>

\* A process with pid p would pass for the one that drew a lease before.
Mistakable(p) ==
    \/ \E l \in Lease : owner[l].pid = p /\ rpc[l].st \in {"begin", "probe", "probe_start",
                                                         "sample", "install"}
    \/ holder.pid = p /\ holder.delta = NoDelta

\* A new process gets the pid, with a later start time.
Spawn(p) ==
    /\ proc[p].st = "gone"
    /\ proc[p].start < MaxStart
    /\ EarlyReuse \/ ~ Mistakable(p)
    /\ proc' = [proc EXCEPT ![p] = [st |-> "up", start |-> @.start + 1]]
    /\ client' = [client EXCEPT ![p] = IdleClient]
    /\ UNCHANGED <<holder, rpc, owner>>

-----------------------------------------------------------------------------
ClientStep(p) == Acquire(p) \/ Reply(p) \/ Retry(p) \/ Cancel(p) \/ SendRelease(p) \/ ReleaseReply(p)
ServerStep(l) == \/ Snapshot(l) \/ ProbePid(l) \/ ProbeStart(l)
                 \/ SampleClaimant(l) \/ Install(l) \/ ServeRelease(l)
SystemStep(p) == Kill(p) \/ Collect(p) \/ Spawn(p)

Next == \/ \E p \in Pid : ClientStep(p) \/ SystemStep(p)
        \/ \E l \in Lease : ServerStep(l)

Spec == Init /\ [][Next]_vars

\* The event loop resumes a coroutine whose answer arrived or whose sleep ended,
\* the server runs its threads, and a dead worker is eventually collected.  Nothing
\* makes a worker acquire, cancel, release or die.
Fairness == /\ \A p \in Pid : /\ WF_vars(Reply(p))
                              /\ WF_vars(Retry(p) \/ Cancel(p))
                              /\ WF_vars(ReleaseReply(p))
                              /\ WF_vars(Collect(p))
            /\ \A l \in Lease : WF_vars(ServerStep(l))

FairSpec == Spec /\ Fairness

-----------------------------------------------------------------------------
\* p runs the code under the lock.
Holds(p) == Running(p) /\ client[p].pc = "held"

\* Two running workers are never both inside the critical section of the key,
\* whatever was killed, reclaimed or reused in between (KeyedHolderTable).
MutualExclusion == \A p, q \in Pid : Holds(p) /\ Holds(q) => p = q

\* A running worker inside the critical section owns the record: no probe, no
\* reused pid and no late request of a dead worker takes it away ("a live
\* (merely slow) owner is never preempted").
LiveHolderKeepsRecord == \A p \in Pid : Holds(p) => holder.lease = client[p].lease

\* A waiting worker is one whose try_acquire is being served or will be resent.
Waiting(p) == Running(p) /\ client[p].pc \in {"calling", "backoff"}

\* "A SIGKILLed holder can never deadlock other workers": the record of a dead
\* worker does not outlast the workers that wait for the key.
DeadHolderReclaimed ==
    \A l \in Lease : (holder.lease = l /\ Dead(l))
                        ~> (holder.lease # l \/ \A p \in Pid : ~ Waiting(p))

\* The holder table implements the promise its callers rely on: the key changes
\* hands only through the current lease's own release or after its owner's death.
Promise == INSTANCE ExclusiveLease
             WITH drawn   <- {l \in Lease : owner[l] # NoOwner},
                  dead    <- {l \in Lease : Dead(l)},
                  leaving <- {l \in Lease : rpc[l].st = "release"},
                  current <- holder.lease
LeaseExclusion == Promise!Spec

-----------------------------------------------------------------------------
(* The inductive invariant behind the safety properties.                   *)

Drawn(l) == owner[l] # NoOwner

\* A lease belongs to a past or present process of its pid, and start times only grow.
OwnerInv ==
    \A l \in Lease : Drawn(l) => /\ owner[l] \in Process
                                 /\ owner[l].start <= proc[owner[l].pid].start

\* Where a running worker's coroutine stands agrees with the request it waits for.
ClientOk(p) ==
    LET l == client[p].lease IN
    /\ client[p].pc = "idle" <=> l = NoLease
    /\ Running(p) /\ l # NoLease =>
         /\ owner[l] = ThisProcess(p)
         /\ client[p].pc \in {"held", "backoff"} => rpc[l].st = "idle"
         /\ client[p].pc = "calling"   => rpc[l].st \notin {"idle", "release", "released"}
         /\ client[p].pc = "releasing" => rpc[l].st \in {"release", "released"}

\* A record names the process that drew its lease, and is stamped with that
\* process's start time if it is stamped while the process lives.
Authentic(r) ==
    IF r.lease = NoLease
      THEN r = Empty
      ELSE /\ Drawn(r.lease)
           /\ r.pid = owner[r.lease].pid
           /\ Dead(r.lease) \/ r.delta \in {NoDelta, owner[r.lease].start}

\* What a request has established at each step of its service.
RequestOk(l) ==
    /\ rpc[l].st # "idle" => Drawn(l)
    /\ Authentic(rpc[l].snap)
    /\ rpc[l].st \in {"probe", "probe_start"} => rpc[l].snap.lease # NoLease
    /\ rpc[l].st = "probe_start" => rpc[l].snap.delta # NoDelta
    /\ rpc[l].st \in {"sample", "install"} =>
         rpc[l].snap.lease = NoLease \/ Dead(rpc[l].snap.lease)
    /\ rpc[l].st = "install" => Dead(l) \/ rpc[l].delta \in {NoDelta, owner[l].start}
    /\ rpc[l].st = "granted" => Dead(l) \/ holder.lease = l

HolderInv ==
    /\ TypeOK
    /\ OwnerInv
    /\ \A p \in Pid : ClientOk(p)
    /\ \A l \in Lease : RequestOk(l)
    /\ Authentic(holder)
    /\ LiveHolderKeepsRecord
=============================================================================

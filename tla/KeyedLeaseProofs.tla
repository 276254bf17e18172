-------------------------- MODULE KeyedLeaseProofs --------------------------
(***************************************************************************)
(* TLAPS proofs about KeyedLease, for any number of pids, leases and       *)
(* process restarts: type correctness, mutual exclusion of the workers     *)
(* that run under the lock, and refinement of ExclusiveLease.              *)
(***************************************************************************)
EXTENDS KeyedLease, TLAPS

USE NoPidAssumption, NoLeaseAssumption, MaxStartAssumption, FlagAssumption

\* The updates the actions make of one client or one request.
LEMMA ClientUpdate ==
    ASSUME NEW c \in Client, NEW pc \in {"idle", "calling", "backoff", "held", "releasing"}
    PROVE  [c EXCEPT !.pc = pc] \in Client
  BY DEF Client

LEMMA RequestStatus ==
    ASSUME NEW r \in Request,
           NEW st \in {"idle", "begin", "probe", "probe_start", "sample", "install",
                       "granted", "refused", "release", "released"}
    PROVE  [r EXCEPT !.st = st] \in Request
  BY DEF Request

LEMMA RequestUpdate ==
    ASSUME NEW r \in Request,
           NEW st \in {"idle", "begin", "probe", "probe_start", "sample", "install",
                       "granted", "refused", "release", "released"},
           NEW snap \in Record, NEW d \in Delta
    PROVE  /\ [r EXCEPT !.snap = snap, !.st = st] \in Request
           /\ [r EXCEPT !.delta = d, !.st = st] \in Request
  BY DEF Request

LEMMA Constants == Empty \in Record /\ IdleClient \in Client /\ IdleRpc \in Request
  BY DEF Empty, Record, IdleClient, Client, IdleRpc, Request, Delta, NoDelta

\* No step takes a variable out of its type.
LEMMA TypingStep == ASSUME TypeOK, [Next]_vars PROVE TypeOK'
<1>0. /\ client \in [Pid -> Client]
      /\ rpc \in [Lease -> Request]
      /\ holder \in Record
      /\ owner \in [Lease -> Process \cup {NoOwner}]
      /\ proc \in [Pid -> [st : {"up", "zombie", "gone"}, start : Start]]
  BY DEF TypeOK
<1>1. ASSUME NEW p \in Pid, ClientStep(p) PROVE TypeOK'
  <2>0. client[p] \in Client
    BY <1>0
  <2>1. CASE Acquire(p)
    <3> PICK l \in Lease : /\ owner' = [owner EXCEPT ![l] = ThisProcess(p)]
                           /\ client' = [client EXCEPT ![p] = [pc |-> "calling", lease |-> l]]
                           /\ rpc' = [rpc EXCEPT ![l].st = "begin"]
      BY <2>1 DEF Acquire
    <3>1. ThisProcess(p) \in Process
      BY <1>0 DEF ThisProcess, Process
    <3>2. [rpc[l] EXCEPT !.st = "begin"] \in Request
      BY <1>0, RequestStatus
    <3>3. [pc |-> "calling", lease |-> l] \in Client
      BY DEF Client
    <3>4. UNCHANGED <<proc, holder>>
      BY <2>1 DEF Acquire
    <3> QED BY <1>0, <3>1, <3>2, <3>3, <3>4 DEF TypeOK
  <2>2. CASE Reply(p)
    <3>0. [client[p] EXCEPT !.pc = "held"] \in Client
      BY <2>0, ClientUpdate
    <3>1. [client[p] EXCEPT !.pc = "backoff"] \in Client
      BY <2>0, ClientUpdate
    <3>2. client' \in [Pid -> Client]
      BY <1>0, <2>2, <3>0, <3>1 DEF Reply
    <3>3. rpc' \in [Lease -> Request]
      BY <1>0, <2>2, Constants DEF Reply
    <3> QED BY <1>0, <2>2, <3>2, <3>3 DEF Reply, TypeOK
  <2>3. CASE Retry(p) \/ SendRelease(p)
    <3>1. PICK pc \in {"calling", "releasing"}, st \in {"begin", "release"} :
             /\ client' = [client EXCEPT ![p].pc = pc]
             /\ rpc' = [rpc EXCEPT ![client[p].lease].st = st]
             /\ UNCHANGED <<proc, holder, owner>>
      BY <2>3 DEF Retry, SendRelease
    <3>2. [client[p] EXCEPT !.pc = pc] \in Client
      BY <2>0, <3>1, ClientUpdate
    <3>3. client' \in [Pid -> Client]
      BY <1>0, <3>1, <3>2
    <3>4. ASSUME client[p].lease \in Lease
          PROVE  [rpc[client[p].lease] EXCEPT !.st = st] \in Request
      <4>1. rpc[client[p].lease] \in Request
        BY <1>0, <3>4
      <4> QED BY <3>1, <4>1, RequestStatus
    <3>5. rpc' \in [Lease -> Request]
      BY <1>0, <3>1, <3>4
    <3> QED BY <1>0, <3>1, <3>3, <3>5 DEF TypeOK
  <2>4. CASE Cancel(p)
    BY <1>0, <2>4, Constants DEF Cancel, TypeOK
  <2>5. CASE ReleaseReply(p)
    BY <1>0, <2>5, Constants DEF ReleaseReply, TypeOK
  <2> QED BY <1>1, <2>1, <2>2, <2>3, <2>4, <2>5 DEF ClientStep
<1>2. ASSUME NEW p \in Pid, SystemStep(p) PROVE TypeOK'
  <2>1. CASE Kill(p)
    BY <1>0, <2>1 DEF Kill, TypeOK
  <2>2. CASE Collect(p)
    BY <1>0, <2>2 DEF Collect, TypeOK
  <2>3. CASE Spawn(p)
    BY <1>0, <2>3, Constants DEF Spawn, TypeOK, Start
  <2> QED BY <1>2, <2>1, <2>2, <2>3 DEF SystemStep
<1>3. ASSUME NEW l \in Lease, ServerStep(l) PROVE TypeOK'
  <2>0. rpc[l] \in Request /\ rpc[l].delta \in Delta
    BY <1>0 DEF Request
  <2>1. SUFFICES ASSUME NEW st \in {"probe", "probe_start", "sample", "install", "granted",
                                    "refused", "released"},
                        NEW d \in Delta, holder' \in Record,
                        \/ rpc' = [rpc EXCEPT ![l].st = st]
                        \/ rpc' = [rpc EXCEPT ![l].snap = holder, ![l].st = st]
                        \/ rpc' = [rpc EXCEPT ![l].delta = d, ![l].st = st],
                        UNCHANGED <<proc, client, owner>>
                 PROVE  TypeOK'
    <3>1. CASE Snapshot(l)       BY <1>0, <2>0, <3>1 DEF Snapshot
    <3>2. CASE ProbePid(l)       BY <1>0, <2>0, <3>2 DEF ProbePid
    <3>3. CASE ProbeStart(l)
      <4> PICK d \in StartDelta(rpc[l].snap.pid) :
             rpc' = [rpc EXCEPT ![l].st =
                       IF d \notin {NoDelta, rpc[l].snap.delta} THEN "sample" ELSE "refused"]
        BY <3>3 DEF ProbeStart
      <4> QED BY <1>0, <2>0, <3>3 DEF ProbeStart
    <3>4. CASE SampleClaimant(l)
      <4> PICK d \in StartDelta(owner[l].pid) :
             rpc' = [rpc EXCEPT ![l].delta = d, ![l].st = "install"]
        BY <3>4 DEF SampleClaimant
      <4>1. d \in Delta
        BY DEF StartDelta
      <4> QED BY <1>0, <2>0, <3>4, <4>1 DEF SampleClaimant
    <3>5. CASE Install(l)
      <4>1. owner[l].pid \in Pid \cup {NoPid}
        BY <1>0 DEF NoOwner, Process
      <4>2. [pid |-> owner[l].pid, lease |-> l, delta |-> rpc[l].delta] \in Record
        BY <2>0, <4>1 DEF Record
      <4> QED BY <1>0, <2>0, <3>5, <4>2 DEF Install
    <3>6. CASE ServeRelease(l)   BY <1>0, <2>0, <3>6, Constants DEF ServeRelease
    <3> QED BY <1>3, <3>1, <3>2, <3>3, <3>4, <3>5, <3>6 DEF ServerStep
  <2>2. /\ [rpc[l] EXCEPT !.st = st] \in Request
        /\ [rpc[l] EXCEPT !.snap = holder, !.st = st] \in Request
        /\ [rpc[l] EXCEPT !.delta = d, !.st = st] \in Request
    BY <1>0, <2>0, <2>1, RequestStatus, RequestUpdate
  <2>3. rpc' \in [Lease -> Request]
    BY <1>0, <2>1, <2>2
  <2> QED BY <1>0, <2>1, <2>3 DEF TypeOK
<1>4. CASE UNCHANGED vars
  BY <1>4 DEF vars, TypeOK
<1> QED BY <1>1, <1>2, <1>3, <1>4 DEF Next

\* The variables keep their types through every step of a worker, the server
\* and the operating system.
THEOREM Typing == Spec => []TypeOK
<1>1. Init => TypeOK
  BY DEF Init, TypeOK, Client, Request, Record, Process, Empty, IdleClient, IdleRpc, NoOwner,
         Delta, Start, NoDelta
<1>2. TypeOK /\ [Next]_vars => TypeOK'
  BY TypingStep
<1> QED BY <1>1, <1>2, PTL DEF Spec

-----------------------------------------------------------------------------
(* What every step preserves about the past.                               *)

\* A lease keeps the process that drew it.
LEMMA OwnerStable ==
    ASSUME TypeOK, [Next]_vars, NEW l \in Lease, Drawn(l)
    PROVE  owner'[l] = owner[l]
<1>1. ASSUME NEW p \in Pid, Acquire(p) PROVE owner'[l] = owner[l]
  <2> PICK m \in Lease : owner[m] = NoOwner /\ owner' = [owner EXCEPT ![m] = ThisProcess(p)]
    BY <1>1 DEF Acquire
  <2> QED BY DEF Drawn, TypeOK, Client, Request
<1> QED
  BY <1>1 DEF Next, vars, ClientStep, SystemStep, ServerStep, Reply, Retry, Cancel,
     SendRelease, ReleaseReply, Kill, Collect, Spawn, Snapshot, ProbePid, ProbeStart,
     SampleClaimant, Install, ServeRelease

\* Start times never decrease, and a pid that is not running comes back with a
\* later one.
LEMMA ProcessesAge ==
    ASSUME TypeOK, [Next]_vars, NEW p \in Pid
    PROVE  /\ proc[p].start <= proc'[p].start
           /\ ~ Running(p) => ~ Running(p)' \/ proc[p].start < proc'[p].start
<1> USE DEF TypeOK, Client, Request, Start, Running
<1>1. ASSUME NEW q \in Pid, SystemStep(q)
      PROVE  /\ proc[p].start <= proc'[p].start
             /\ ~ Running(p) => ~ Running(p)' \/ proc[p].start < proc'[p].start
  BY <1>1 DEF SystemStep, Kill, Collect, Spawn
<1>2. ASSUME proc' = proc
      PROVE  /\ proc[p].start <= proc'[p].start
             /\ ~ Running(p) => ~ Running(p)' \/ proc[p].start < proc'[p].start
  BY <1>2
<1>3. proc' = proc \/ \E q \in Pid : SystemStep(q)
  BY DEF Next, vars, ClientStep, ServerStep, Acquire, Reply, Retry, Cancel,
     SendRelease, ReleaseReply, Snapshot, ProbePid, ProbeStart, SampleClaimant, Install,
     ServeRelease
<1> QED BY <1>1, <1>2, <1>3

\* Death is final: no restart, and no reuse of the pid, revives the owner of a lease.
LEMMA DeathIsFinal ==
    ASSUME TypeOK, OwnerInv, [Next]_vars, NEW l \in Lease, Dead(l)
    PROVE  Dead(l)'
<1>1. Drawn(l) /\ owner[l] \in Process /\ owner[l].start <= proc[owner[l].pid].start
  BY DEF Dead, Drawn, OwnerInv
<1>2. PICK p \in Pid : p = owner[l].pid
  BY <1>1 DEF Process
<1>3. owner'[l] = owner[l]
  BY <1>1, OwnerStable
<1>4. /\ proc[p].start <= proc'[p].start
      /\ ~ Running(p) => ~ Running(p)' \/ proc[p].start < proc'[p].start
  BY <1>2, ProcessesAge
<1>5. proc[p].start \in Nat /\ proc'[p].start \in Nat /\ owner[l].start \in Nat
  <2>1. TypeOK'
    BY TypingStep
  <2> QED BY <1>1, <1>2, <2>1 DEF TypeOK, Client, Request, Process, Start
<1>6. owner[l] = [pid |-> p, start |-> owner[l].start]
  BY <1>1, <1>2 DEF Process
<1>7. ~ Running(p) \/ owner[l].start # proc[p].start
  BY <1>2, <1>6 DEF Dead, ThisProcess
<1>8. ~ Running(p)' \/ proc'[p].start # owner[l].start
  BY <1>1, <1>2, <1>4, <1>5, <1>7
<1> QED BY <1>1, <1>2, <1>3, <1>8 DEF Dead, Drawn, ThisProcess, NoOwner

\* An authentic record stays authentic: its owner does not change, and what the
\* stamp says matters only while that owner lives.
LEMMA AuthenticStable ==
    ASSUME TypeOK, OwnerInv, [Next]_vars, NEW r \in Record, Authentic(r)
    PROVE  Authentic(r)'
<1>1. CASE r.lease = NoLease
  BY <1>1 DEF Authentic
<1>2. CASE r.lease # NoLease
  <2>1. r.lease \in Lease /\ Drawn(r.lease) /\ r.pid = owner[r.lease].pid
    BY <1>2 DEF Record, Authentic
  <2>2. owner'[r.lease] = owner[r.lease]
    BY <2>1, OwnerStable
  <2>3. Dead(r.lease) => Dead(r.lease)'
    BY <2>1, DeathIsFinal
  <2> QED BY <1>2, <2>1, <2>2, <2>3 DEF Authentic, Drawn
<1> QED BY <1>1, <1>2

-----------------------------------------------------------------------------
(* The inductive invariant.                                                *)

LEMMA OwnerInvStep == ASSUME HolderInv, [Next]_vars PROVE OwnerInv'
<1> SUFFICES ASSUME NEW l \in Lease, Drawn(l)'
             PROVE  (owner[l] \in Process /\ owner[l].start <= proc[owner[l].pid].start)'
  BY DEF OwnerInv
<1> USE DEF HolderInv
<1>1. CASE Drawn(l)
  <2>1. owner'[l] = owner[l] /\ owner[l] \in Process
    BY <1>1, OwnerStable DEF OwnerInv
  <2>2. PICK p \in Pid : p = owner[l].pid
    BY <2>1 DEF Process
  <2>3. owner[l].start <= proc[p].start
    BY <1>1, <2>2 DEF OwnerInv
  <2>4. proc[p].start <= proc'[p].start
    BY <2>2, ProcessesAge
  <2>5. TypeOK'
    BY TypingStep
  <2>6. owner[l].start \in Nat /\ proc[p].start \in Nat /\ proc'[p].start \in Nat
    BY <2>1, <2>2, <2>5 DEF TypeOK, Client, Request, Process, Start
  <2> QED BY <2>1, <2>2, <2>3, <2>4, <2>6
<1>2. CASE ~ Drawn(l)
  <2>1. owner' # owner
    BY <1>2 DEF Drawn
  <2>2. PICK p \in Pid : Acquire(p)
    BY <2>1 DEF Next, vars, ClientStep, SystemStep, ServerStep, Reply, Retry, Cancel,
       SendRelease, ReleaseReply, Kill, Collect, Spawn, Snapshot, ProbePid, ProbeStart,
       SampleClaimant, Install, ServeRelease
  <2>3. owner'[l] = ThisProcess(p) /\ proc' = proc
    BY <1>2, <2>2 DEF Acquire, Drawn, TypeOK, Client, Request
  <2>4. ThisProcess(p) \in Process /\ ThisProcess(p).pid = p
        /\ ThisProcess(p).start <= proc[p].start
    BY DEF ThisProcess, Process, TypeOK, Client, Request, Start
  <2> QED BY <2>3, <2>4
<1> QED BY <1>1, <1>2

\* The holder record stays authentic: an install writes the pid of the process
\* that drew the lease, stamped as its service found it.
LEMMA HolderAuthenticStep == ASSUME HolderInv, [Next]_vars PROVE Authentic(holder)'
<1> USE DEF HolderInv
<1>1. CASE holder' = holder
  <2>1. holder \in Record
    BY DEF TypeOK, Client, Request
  <2> QED BY <1>1, <2>1, AuthenticStable DEF Authentic, Dead, Drawn
<1>2. CASE holder' # holder
  <2>1. \E l \in Lease : Install(l) \/ ServeRelease(l)
    BY <1>2 DEF Next, vars, ClientStep, SystemStep, ServerStep, Acquire, Reply, Retry, Cancel,
       SendRelease, ReleaseReply, Kill, Collect, Spawn, Snapshot, ProbePid, ProbeStart,
       SampleClaimant
  <2>2. ASSUME NEW l \in Lease, Install(l) PROVE Authentic(holder)'
    <3>1. holder' = [pid |-> owner[l].pid, lease |-> l, delta |-> rpc[l].delta]
          /\ UNCHANGED <<proc, owner>>
      BY <1>2, <2>2 DEF Install
    <3>2. Drawn(l) /\ (Dead(l) \/ rpc[l].delta \in {NoDelta, owner[l].start})
      BY <2>2 DEF Install, RequestOk
    <3> QED BY <3>1, <3>2 DEF Authentic, Drawn, Dead, Running, ThisProcess
  <2>3. ASSUME NEW l \in Lease, ServeRelease(l) PROVE Authentic(holder)'
    BY <1>2, <2>3 DEF ServeRelease, Authentic, Empty
  <2> QED BY <2>1, <2>2, <2>3
<1> QED BY <1>1, <1>2

\* A coroutine's position keeps agreeing with the request it waits for: leases are
\* drawn once, so no other process's request carries the same one.
LEMMA ClientOkStep == ASSUME HolderInv, [Next]_vars, NEW q \in Pid PROVE ClientOk(q)'
<1> USE DEF HolderInv
<1>1. ClientOk(q) /\ client[q].lease \in Lease \cup {NoLease}
  BY DEF TypeOK, Client, Request
<1> USE DEF TypeOK, Client, Request, ClientOk, Running, ThisProcess, IdleClient, IdleRpc
<1>2. ASSUME NEW p \in Pid, Acquire(p) PROVE ClientOk(q)'
  <2> PICK l \in Lease : /\ owner[l] = NoOwner
                         /\ owner' = [owner EXCEPT ![l] = ThisProcess(p)]
                         /\ client' = [client EXCEPT ![p] = [pc |-> "calling", lease |-> l]]
                         /\ rpc' = [rpc EXCEPT ![l].st = "begin"]
    BY <1>2 DEF Acquire
  <2>1. UNCHANGED proc
    BY <1>2 DEF Acquire
  <2>2. CASE q = p
    BY <2>1, <2>2
  <2>3. CASE q # p
    <3>1. [pid |-> q, start |-> proc[q].start] # NoOwner
      BY DEF NoOwner
    <3>2. Running(q) => client[q].lease # l
      BY <1>1, <3>1
    <3> QED BY <1>1, <2>1, <2>3, <3>2
  <2> QED BY <2>2, <2>3
<1>3. ASSUME NEW p \in Pid, Running(p), client[p].lease \in Lease,
             UNCHANGED <<proc, owner>>,
             \/ Reply(p) \/ Retry(p) \/ Cancel(p) \/ SendRelease(p) \/ ReleaseReply(p)
      PROVE  ClientOk(q)'
  <2>1. CASE q = p
    BY <1>1, <1>3, <2>1 DEF Reply, Retry, Cancel, SendRelease, ReleaseReply
  <2>2. CASE q # p
    <3>1. client'[q] = client[q]
      BY <1>3, <2>2 DEF Reply, Retry, Cancel, SendRelease, ReleaseReply
    <3>2. Running(q) /\ client[q].lease # NoLease => client[q].lease # client[p].lease
      <4>1. owner[client[p].lease] = [pid |-> p, start |-> proc[p].start]
        BY <1>3
      <4>2. Running(q) /\ client[q].lease # NoLease =>
              owner[client[q].lease] = [pid |-> q, start |-> proc[q].start]
        BY <1>1
      <4>3. [pid |-> q, start |-> proc[q].start] # [pid |-> p, start |-> proc[p].start]
        BY <2>2
      <4> QED BY <4>1, <4>2, <4>3
    <3>3. Running(q) /\ client[q].lease # NoLease => rpc'[client[q].lease] = rpc[client[q].lease]
      <4>1. CASE Reply(p)        BY <1>1, <3>2, <4>1 DEF Reply
      <4>2. CASE Retry(p)        BY <1>1, <3>2, <4>2 DEF Retry
      <4>3. CASE Cancel(p)       BY <4>3 DEF Cancel
      <4>4. CASE SendRelease(p)  BY <1>1, <3>2, <4>4 DEF SendRelease
      <4>5. CASE ReleaseReply(p) BY <1>1, <3>2, <4>5 DEF ReleaseReply
      <4> QED BY <1>3, <4>1, <4>2, <4>3, <4>4, <4>5
    <3> QED BY <1>1, <1>3, <3>1, <3>3
  <2> QED BY <2>1, <2>2
<1>4. ASSUME NEW l \in Lease, ServerStep(l) PROVE ClientOk(q)'
  <2>1. UNCHANGED <<proc, client, owner>>
    BY <1>4 DEF ServerStep, Snapshot, ProbePid, ProbeStart, SampleClaimant, Install, ServeRelease
  <2>2. /\ \A k \in Lease \ {l} : rpc'[k] = rpc[k]
        /\ \/ /\ rpc[l].st \notin {"idle", "release", "released"}
              /\ rpc'[l].st \notin {"idle", "release", "released"}
           \/ rpc[l].st = "release" /\ rpc'[l].st = "released"
    <3>1. CASE Snapshot(l)       BY <3>1 DEF Snapshot
    <3>2. CASE ProbePid(l)       BY <3>2 DEF ProbePid
    <3>3. CASE ProbeStart(l)     BY <3>3 DEF ProbeStart
    <3>4. CASE SampleClaimant(l) BY <3>4 DEF SampleClaimant
    <3>5. CASE Install(l)        BY <3>5 DEF Install
    <3>6. CASE ServeRelease(l)   BY <3>6 DEF ServeRelease
    <3> QED BY <1>4, <3>1, <3>2, <3>3, <3>4, <3>5, <3>6 DEF ServerStep
  <2> QED BY <1>1, <2>1, <2>2
<1>5. ASSUME NEW p \in Pid, SystemStep(p) PROVE ClientOk(q)'
  <2>1. CASE Kill(p)    BY <1>1, <2>1 DEF Kill
  <2>2. CASE Collect(p) BY <1>1, <2>2 DEF Collect
  <2>3. CASE Spawn(p)
    <3>1. CASE q = p    BY <2>3, <3>1 DEF Spawn
    <3>2. CASE q # p    BY <1>1, <2>3, <3>2 DEF Spawn
    <3> QED BY <3>1, <3>2
  <2> QED BY <1>5, <2>1, <2>2, <2>3 DEF SystemStep
<1>6. CASE UNCHANGED vars
  BY <1>1, <1>6 DEF vars
<1>7. ASSUME NEW p \in Pid, ClientStep(p), ~ Acquire(p) PROVE ClientOk(q)'
  <2>1. Running(p) /\ client[p].pc # "idle" /\ UNCHANGED <<proc, owner>>
    BY <1>7 DEF ClientStep, Reply, Retry, Cancel, SendRelease, ReleaseReply
  <2>2. client[p].lease \in Lease
    BY <2>1
  <2> QED BY <1>3, <1>7, <2>1, <2>2 DEF ClientStep
<1> QED BY <1>2, <1>4, <1>5, <1>6, <1>7 DEF Next

\* What a request has established stays true of it, whoever dies or restarts while
\* it is served.
LEMMA RequestOkStep == ASSUME HolderInv, [Next]_vars, NEW k \in Lease PROVE RequestOk(k)'
<1> USE DEF HolderInv
<1>1. PICK s \in Record, h \in Record : s = rpc[k].snap /\ h = holder
  BY DEF TypeOK, Client, Request
<1>2. RequestOk(k) /\ Authentic(s)' /\ Authentic(h)' /\ Authentic(Empty)'
  BY <1>1, AuthenticStable DEF RequestOk, Authentic, Empty
<1>3. \A l \in Lease : Dead(l) => Dead(l)'
  BY DeathIsFinal
<1>4. Drawn(k) => Drawn(k)' /\ owner'[k] = owner[k]
  BY OwnerStable DEF Drawn
<1>5. s.lease \in Lease \cup {NoLease} /\ h.lease \in Lease \cup {NoLease}
  BY DEF Record
\* The request itself does not move, and its grant still stands.
<1>6. ASSUME rpc'[k] = rpc[k],
             rpc[k].st = "granted" /\ ~ Dead(k)' /\ holder.lease = k => holder'.lease = k
      PROVE  RequestOk(k)'
  BY <1>1, <1>2, <1>3, <1>4, <1>5, <1>6 DEF RequestOk
\* The request ends, or its client starts, resends or drops it.
<1>7. ASSUME rpc'[k].st \in {"idle", "begin", "release", "released", "refused"},
             rpc'[k].snap \in {s, Empty}, Drawn(k)'
      PROVE  RequestOk(k)'
  BY <1>1, <1>2, <1>7 DEF RequestOk
<1>8. ASSUME NEW p \in Pid, Acquire(p) PROVE RequestOk(k)'
  <2> PICK l \in Lease : /\ owner[l] = NoOwner
                         /\ owner' = [owner EXCEPT ![l] = ThisProcess(p)]
                         /\ rpc' = [rpc EXCEPT ![l].st = "begin"]
    BY <1>8 DEF Acquire
  <2>1. CASE l = k
    <3>1. rpc'[k].st = "begin" /\ rpc'[k].snap = s
      BY <1>1, <2>1 DEF TypeOK, Client, Request
    <3>2. owner'[k] = ThisProcess(p) /\ ThisProcess(p) # NoOwner
      BY <2>1 DEF TypeOK, Client, Request, ThisProcess, NoOwner
    <3> QED BY <1>7, <3>1, <3>2 DEF Drawn
  <2>2. CASE l # k
    BY <1>6, <1>8, <2>2 DEF Acquire, TypeOK, Client, Request
  <2> QED BY <2>1, <2>2
<1>9. ASSUME NEW p \in Pid, ClientStep(p), ~ Acquire(p) PROVE RequestOk(k)'
  <2>1. client[p].lease \in Lease /\ Drawn(client[p].lease) /\ UNCHANGED <<holder, owner>>
    <3>1. /\ Running(p) /\ client[p].pc # "idle" /\ client[p].lease \in Lease \cup {NoLease}
          /\ UNCHANGED <<holder, owner>>
      BY <1>9 DEF ClientStep, Reply, Retry, Cancel, SendRelease, ReleaseReply, TypeOK, Client, Request
    <3>2. client[p].lease \in Lease /\ owner[client[p].lease] = ThisProcess(p)
      BY <3>1 DEF ClientOk
    <3> QED BY <3>1, <3>2 DEF Drawn, ThisProcess, NoOwner
  <2>2. CASE client[p].lease # k \/ Cancel(p)
    <3>1. rpc'[k] = rpc[k]
      <4>1. CASE Reply(p)        BY <2>2, <4>1 DEF Reply, Cancel
      <4>2. CASE Retry(p)        BY <2>2, <4>2 DEF Retry, Cancel
      <4>3. CASE Cancel(p)       BY <4>3 DEF Cancel
      <4>4. CASE SendRelease(p)  BY <2>2, <4>4 DEF SendRelease, Cancel
      <4>5. CASE ReleaseReply(p) BY <2>2, <4>5 DEF ReleaseReply, Cancel
      <4> QED BY <1>9, <4>1, <4>2, <4>3, <4>4, <4>5 DEF ClientStep
    <3> QED BY <1>6, <2>1, <3>1
  <2>3. CASE client[p].lease = k /\ ~ Cancel(p)
    <3>1. rpc'[k].st \in {"idle", "begin", "release"} /\ rpc'[k].snap \in {s, Empty}
      <4> USE <1>1, <2>3 DEF TypeOK, Client, Request, IdleRpc
      <4>1. CASE Reply(p)        BY <4>1 DEF Reply
      <4>2. CASE Retry(p)        BY <4>2 DEF Retry
      <4>3. CASE SendRelease(p)  BY <4>3 DEF SendRelease
      <4>4. CASE ReleaseReply(p) BY <4>4 DEF ReleaseReply
      <4> QED BY <1>9, <4>1, <4>2, <4>3, <4>4 DEF ClientStep
    <3>2. Drawn(k)'
      BY <1>4, <2>1, <2>3
    <3> QED BY <1>7, <3>1, <3>2
  <2> QED BY <2>2, <2>3
<1>10. ASSUME NEW l \in Lease, ServerStep(l), l # k PROVE RequestOk(k)'
  <2>1. rpc'[k] = rpc[k]
    <3>1. CASE Snapshot(l)       BY <1>10, <3>1 DEF Snapshot, TypeOK, Client, Request
    <3>2. CASE ProbePid(l)       BY <1>10, <3>2 DEF ProbePid, TypeOK, Client, Request
    <3>3. CASE ProbeStart(l)     BY <1>10, <3>3 DEF ProbeStart, TypeOK, Client, Request
    <3>4. CASE SampleClaimant(l) BY <1>10, <3>4 DEF SampleClaimant, TypeOK, Client, Request
    <3>5. CASE Install(l)        BY <1>10, <3>5 DEF Install, TypeOK, Client, Request
    <3>6. CASE ServeRelease(l)   BY <1>10, <3>6 DEF ServeRelease, TypeOK, Client, Request
    <3> QED BY <1>10, <3>1, <3>2, <3>3, <3>4, <3>5, <3>6 DEF ServerStep
  <2>2. CASE Install(l)
    \* An install over k's record had found k dead.
    <3>1. rpc[l].snap.lease = k => Dead(k)'
      BY <1>3, <2>2 DEF Install, RequestOk
    <3> QED BY <1>6, <2>1, <2>2, <3>1 DEF Install
  <2>3. CASE ServeRelease(l)
    BY <1>6, <1>10, <2>1, <2>3 DEF ServeRelease
  <2>4. CASE ~ Install(l) /\ ~ ServeRelease(l)
    <3>1. holder' = holder
      BY <1>10, <2>4 DEF ServerStep, Snapshot, ProbePid, ProbeStart, SampleClaimant
    <3> QED BY <1>6, <2>1, <3>1
  <2> QED BY <2>2, <2>3, <2>4
<1>11. ASSUME ServerStep(k) PROVE RequestOk(k)'
  <2> USE <1>1 DEF TypeOK, Client, Request
  <2>1. CASE Snapshot(k)
    <3>1. rpc'[k].snap = h
      BY <2>1 DEF Snapshot
    <3>2. rpc'[k].st \in {"sample", "probe"} /\ Drawn(k)
          /\ (rpc'[k].st = "sample" <=> h = Empty)
      BY <1>2, <2>1 DEF Snapshot, RequestOk
    <3>3. h.lease = NoLease <=> h = Empty
      BY DEF Authentic, Empty
    <3> QED BY <1>2, <1>4, <3>1, <3>2, <3>3 DEF RequestOk
  <2>2. CASE ProbePid(k)
    <3>1. rpc'[k].snap = s /\ rpc'[k].st \in {"sample", "refused", "probe_start"} /\ Drawn(k)
          /\ s.lease # NoLease /\ (rpc'[k].st = "probe_start" => s.delta # NoDelta)
      BY <1>2, <2>2 DEF ProbePid, RequestOk
    <3>2. rpc'[k].st = "sample" => Dead(s.lease)
      <4>1. s.lease \in Lease /\ Drawn(s.lease) /\ s.pid = owner[s.lease].pid
        BY <1>2, <1>5, <3>1 DEF RequestOk, Authentic
      <4>2. rpc'[k].st = "sample" => ~ Running(s.pid)
        BY <2>2 DEF ProbePid, PidAlive
      <4> QED BY <4>1, <4>2 DEF Dead, Drawn
    <3>3. rpc'[k].st = "sample" => Dead(s.lease)'
      BY <1>3, <1>5, <3>1, <3>2
    <3> QED BY <1>2, <1>4, <3>1, <3>3 DEF RequestOk
  <2>3. CASE ProbeStart(k)
    <3>1. PICK d \in StartDelta(s.pid) :
             rpc' = [rpc EXCEPT ![k].st =
                       IF d \notin {NoDelta, s.delta} THEN "sample" ELSE "refused"]
      BY <2>3 DEF ProbeStart
    <3>2. rpc'[k].snap = s /\ rpc'[k].st \in {"sample", "refused"} /\ Drawn(k)
          /\ s.lease # NoLease
      BY <1>2, <2>3, <3>1 DEF ProbeStart, RequestOk
    <3>3. rpc'[k].st = "sample" => Dead(s.lease)
      <4>1. /\ s.lease \in Lease /\ Drawn(s.lease) /\ s.pid = owner[s.lease].pid
            /\ Dead(s.lease) \/ s.delta \in {NoDelta, owner[s.lease].start}
        BY <1>2, <1>5, <3>2 DEF RequestOk, Authentic
      <4>2. ASSUME rpc'[k].st = "sample" PROVE Dead(s.lease)
        <5>1. d # NoDelta /\ d # s.delta /\ d = proc[s.pid].start
          BY <3>1, <4>2 DEF StartDelta
        <5>2. rpc[k].st = "probe_start"
          BY <2>3 DEF ProbeStart
        <5>3. s.delta # NoDelta
          BY <1>2, <5>2 DEF RequestOk
        <5>4. CASE s.delta = owner[s.lease].start
          BY <4>1, <5>1, <5>4 DEF Dead, Drawn, ThisProcess
        <5> QED BY <4>1, <5>3, <5>4
      <4> QED BY <4>2
    <3>4. rpc'[k].st = "sample" => Dead(s.lease)'
      BY <1>3, <1>5, <3>2, <3>3
    <3> QED BY <1>2, <1>4, <3>2, <3>4 DEF RequestOk
  <2>4. CASE SampleClaimant(k)
    <3>1. PICK d \in StartDelta(owner[k].pid) :
             rpc' = [rpc EXCEPT ![k].delta = d, ![k].st = "install"]
      BY <2>4 DEF SampleClaimant
    <3>2. rpc'[k].snap = s /\ rpc'[k].st = "install" /\ rpc'[k].delta = d /\ Drawn(k)
          /\ (s.lease = NoLease \/ Dead(s.lease))
      BY <1>2, <2>4, <3>1 DEF SampleClaimant, RequestOk
    <3>3. Dead(k) \/ d \in {NoDelta, owner[k].start}
      BY <3>1, <3>2 DEF StartDelta, Dead, Drawn, ThisProcess
    <3> QED BY <1>2, <1>3, <1>4, <1>5, <3>2, <3>3 DEF RequestOk
  <2>5. CASE Install(k)
    <3>1. Drawn(k) /\ rpc'[k].snap = s /\ rpc'[k].st \in {"granted", "refused"}
          /\ (rpc'[k].st = "granted" => holder'.lease = k)
      BY <1>2, <2>5 DEF Install, RequestOk
    <3> QED BY <1>2, <1>4, <3>1 DEF RequestOk
  <2>6. CASE ServeRelease(k)
    <3>1. Drawn(k) /\ rpc'[k].snap = s /\ rpc'[k].st = "released"
      BY <1>2, <2>6 DEF ServeRelease, RequestOk
    <3> QED BY <1>4, <1>7, <3>1
  <2> QED BY <1>11, <2>1, <2>2, <2>3, <2>4, <2>5, <2>6 DEF ServerStep
<1>12. ASSUME NEW p \in Pid, SystemStep(p) PROVE RequestOk(k)'
  BY <1>6, <1>12 DEF SystemStep, Kill, Collect, Spawn
<1>13. CASE UNCHANGED vars
  BY <1>6, <1>13 DEF vars
<1> QED BY <1>8, <1>9, <1>10, <1>11, <1>12, <1>13 DEF Next

\* A worker inside the critical section keeps its record: an install replaces only
\* the record it found dead, and a release pops only its own.
LEMMA LiveHolderStep == ASSUME HolderInv, [Next]_vars PROVE LiveHolderKeepsRecord'
<1> USE DEF HolderInv
<1> SUFFICES ASSUME NEW p \in Pid, Holds(p)' PROVE holder'.lease = client'[p].lease
  BY DEF LiveHolderKeepsRecord
<1>1. CASE ~ Holds(p)
  <2>1. PICK q \in Pid : ClientStep(q) \/ SystemStep(q)
    BY <1>1 DEF Next, vars, Holds, Running, ServerStep, Snapshot, ProbePid, ProbeStart,
       SampleClaimant, Install, ServeRelease
  <2>2. Reply(p)
    <3> USE <1>1, <2>1 DEF Holds, Running, IdleClient, TypeOK, Client, Request
    <3>1. ~ SystemStep(q)
      <4>1. ~ Kill(q) /\ ~ Collect(q)
        BY DEF Kill, Collect
      <4>2. ASSUME Spawn(q) PROVE FALSE
        <5>1. CASE q = p
          BY <4>2, <5>1 DEF Spawn
        <5>2. CASE q # p
          BY <4>2, <5>2 DEF Spawn
        <5> QED BY <5>1, <5>2
      <4> QED BY <4>1, <4>2 DEF SystemStep
    <3>2. ~ Acquire(q)
      BY DEF Acquire
    <3>3. ~ Retry(q) /\ ~ Cancel(q) /\ ~ SendRelease(q) /\ ~ ReleaseReply(q)
      BY DEF Retry, Cancel, SendRelease, ReleaseReply
    <3> QED BY <3>1, <3>2, <3>3 DEF ClientStep, Reply
  <2>3. /\ Running(p) /\ client[p].pc = "calling" /\ UNCHANGED holder
        /\ client'[p].lease = client[p].lease
        /\ rpc[client[p].lease].st = "granted"
    BY <2>2 DEF Reply, Holds, TypeOK, Client, Request
  <2>4. client[p].lease \in Lease /\ owner[client[p].lease] = ThisProcess(p)
    BY <2>3 DEF ClientOk, TypeOK, Client, Request
  <2>5. ~ Dead(client[p].lease)
    BY <2>3, <2>4 DEF Dead, ThisProcess, Running
  <2> QED BY <2>3, <2>4, <2>5 DEF RequestOk
<1>2. CASE Holds(p)
  <2>1. PICK l \in Lease : l = client[p].lease /\ owner[l] = ThisProcess(p) /\ rpc[l].st = "idle"
    BY <1>2 DEF Holds, ClientOk, TypeOK, Client, Request
  <2>2. holder.lease = l /\ ~ Dead(l)
    BY <1>2, <2>1 DEF LiveHolderKeepsRecord, Holds, Dead, ThisProcess, Running
  <2>3. client'[p] = client[p]
    <3> USE <1>2 DEF Holds, Running, TypeOK, Client, Request
    <3>1. ASSUME NEW q \in Pid, ClientStep(q) PROVE client'[p] = client[p]
      <4>1. CASE q = p
        BY <3>1, <4>1 DEF ClientStep, Acquire, Reply, Retry, Cancel, SendRelease, ReleaseReply
      <4>2. CASE q # p
        BY <3>1, <4>2 DEF ClientStep, Acquire, Reply, Retry, Cancel, SendRelease, ReleaseReply
      <4> QED BY <4>1, <4>2
    <3>2. ASSUME NEW q \in Pid, SystemStep(q) PROVE client'[p] = client[p]
      BY <3>2 DEF SystemStep, Kill, Collect, Spawn
    <3>3. ASSUME NEW k \in Lease, ServerStep(k) PROVE client'[p] = client[p]
      BY <3>3 DEF ServerStep, Snapshot, ProbePid, ProbeStart, SampleClaimant, Install, ServeRelease
    <3> QED BY <3>1, <3>2, <3>3 DEF Next, vars
  <2>4. holder'.lease = l
    <3>1. ASSUME NEW k \in Lease, Install(k) PROVE holder'.lease = l
      <4>1. rpc[k].snap.lease # l
        BY <2>2, <3>1 DEF Install, RequestOk
      <4> QED BY <2>2, <3>1, <4>1 DEF Install
    <3>2. ASSUME NEW k \in Lease, ServeRelease(k) PROVE holder'.lease = l
      BY <2>1, <2>2, <3>2 DEF ServeRelease
    <3>3. CASE holder' = holder
      BY <2>2, <3>3
    <3> QED
      BY <3>1, <3>2, <3>3 DEF Next, vars, ClientStep, SystemStep, ServerStep, Acquire, Reply,
         Retry, Cancel, SendRelease, ReleaseReply, Kill, Collect, Spawn, Snapshot, ProbePid,
         ProbeStart, SampleClaimant
  <2> QED BY <2>1, <2>3, <2>4
<1> QED BY <1>1, <1>2

\* The invariant that carries every safety theorem of the module.
THEOREM Invariance == Spec => []HolderInv
<1>1. Init => HolderInv
  <2> SUFFICES ASSUME Init PROVE HolderInv
    OBVIOUS
  <2>1. TypeOK
    BY DEF Init, TypeOK, Client, Request, Record, Process, Empty, IdleClient, IdleRpc, NoOwner,
           Delta, Start, NoDelta
  <2>2. OwnerInv /\ LiveHolderKeepsRecord
    BY DEF Init, OwnerInv, Drawn, LiveHolderKeepsRecord, Holds, IdleClient
  <2>3. (\A p \in Pid : ClientOk(p)) /\ (\A l \in Lease : RequestOk(l)) /\ Authentic(holder)
    BY DEF Init, ClientOk, RequestOk, Authentic, Empty, IdleClient, IdleRpc
  <2> QED BY <2>1, <2>2, <2>3 DEF HolderInv
<1>2. HolderInv /\ [Next]_vars => HolderInv'
  <2> SUFFICES ASSUME HolderInv, [Next]_vars PROVE HolderInv'
    OBVIOUS
  <2>1. TypeOK' /\ OwnerInv'
    BY TypingStep, OwnerInvStep DEF HolderInv
  <2>2. Authentic(holder)' /\ LiveHolderKeepsRecord'
    BY HolderAuthenticStep, LiveHolderStep
  <2>3. \A p \in Pid : ClientOk(p)'
    BY ClientOkStep
  <2>4. \A l \in Lease : RequestOk(l)'
    BY RequestOkStep
  <2> QED BY <2>1, <2>2, <2>3, <2>4 DEF HolderInv
<1> QED BY <1>1, <1>2, PTL DEF Spec

\* Two running workers are never both under the lock, for any number of workers,
\* kills and pid reuses.
THEOREM Exclusion == Spec => []MutualExclusion
<1>1. HolderInv => MutualExclusion
  <2> SUFFICES ASSUME HolderInv, NEW p \in Pid, NEW q \in Pid, Holds(p), Holds(q) PROVE p = q
    BY DEF MutualExclusion
  <2>1. holder.lease = client[p].lease /\ holder.lease = client[q].lease
    BY DEF HolderInv, LiveHolderKeepsRecord
  <2>2. owner[client[p].lease] = ThisProcess(p) /\ owner[client[q].lease] = ThisProcess(q)
    BY DEF HolderInv, ClientOk, Holds
  <2> QED BY <2>1, <2>2 DEF ThisProcess
<1> QED BY <1>1, Invariance, PTL

\* A worker under the lock is never preempted: the record stays its own.
THEOREM NoPreemption == Spec => []LiveHolderKeepsRecord
<1>1. HolderInv => LiveHolderKeepsRecord
  BY DEF HolderInv
<1> QED BY <1>1, Invariance, PTL

-----------------------------------------------------------------------------
(* Refinement.                                                             *)

DrawnLeases   == {l \in Lease : owner[l] # NoOwner}
DeadLeases    == {l \in Lease : Dead(l)}
LeavingLeases == {l \in Lease : rpc[l].st = "release"}

\* The three sets of the promise move only where the code's step says so.
LEMMA QuietStep ==
    ASSUME TypeOK, OwnerInv, [Next]_vars, UNCHANGED <<proc, owner, holder>>,
           \A l \in Lease : rpc'[l].st = "release" <=> rpc[l].st = "release"
    PROVE  UNCHANGED Promise!vars
BY DEF Promise!vars, Dead, Running, ThisProcess

\* Each step of the holder table is a step of the promise or leaves it alone.
LEMMA StepSimulation == ASSUME HolderInv, [Next]_vars PROVE [Promise!Next]_(Promise!vars)
<1> USE DEF HolderInv
<1>1. ASSUME NEW p \in Pid, Acquire(p) PROVE Promise!Draw
  <2> PICK l \in Lease : /\ owner[l] = NoOwner
                         /\ owner' = [owner EXCEPT ![l] = ThisProcess(p)]
                         /\ rpc' = [rpc EXCEPT ![l].st = "begin"]
    BY <1>1 DEF Acquire
  <2>1. owner'[l] = ThisProcess(p) /\ ThisProcess(p) # NoOwner /\ Running(p)
        /\ UNCHANGED <<proc, holder>> /\ (\A k \in Lease \ {l} : owner'[k] = owner[k])
    BY <1>1 DEF Acquire, TypeOK, Client, Request, ThisProcess, NoOwner
  <2>2. DrawnLeases' = DrawnLeases \cup {l} /\ l \notin DrawnLeases
    BY <2>1 DEF DrawnLeases
  <2>3. ~ Dead(l) /\ ~ Dead(l)'
    BY <2>1 DEF Dead, ThisProcess, Running
  <2>4. DeadLeases' = DeadLeases
    BY <2>1, <2>3 DEF DeadLeases, Dead, Running, ThisProcess
  <2>5. rpc[l].st = "idle"
    BY DEF RequestOk, Drawn
  <2>6. LeavingLeases' = LeavingLeases
    BY <2>5 DEF LeavingLeases, TypeOK, Client, Request
  <2> QED BY <2>1, <2>2, <2>4, <2>6 DEF Promise!Draw, DrawnLeases, DeadLeases, LeavingLeases
<1>2. ASSUME NEW p \in Pid, SendRelease(p) PROVE Promise!Leave
  <2>1. PICK l \in Lease : l = client[p].lease /\ Drawn(l)
    <3>1. client[p].lease \in Lease /\ owner[client[p].lease] = ThisProcess(p)
      BY <1>2 DEF SendRelease, ClientOk, TypeOK, Client, Request
    <3>2. ThisProcess(p) # NoOwner
      BY DEF ThisProcess, NoOwner
    <3> QED BY <3>1, <3>2 DEF Drawn
  <2>2. LeavingLeases' = LeavingLeases \cup {l}
    BY <1>2, <2>1 DEF SendRelease, LeavingLeases, TypeOK, Client, Request
  <2>3. DrawnLeases' = DrawnLeases /\ DeadLeases' = DeadLeases /\ UNCHANGED holder
        /\ l \in DrawnLeases
    BY <1>2, <2>1 DEF SendRelease, DrawnLeases, DeadLeases, Dead, Running, ThisProcess, Drawn
  <2> QED BY <2>2, <2>3 DEF Promise!Leave, DrawnLeases, DeadLeases, LeavingLeases
<1>3. ASSUME NEW p \in Pid, ClientStep(p), ~ Acquire(p), ~ SendRelease(p)
      PROVE  UNCHANGED Promise!vars
  <2>1. UNCHANGED <<proc, owner, holder>>
    BY <1>3 DEF ClientStep, Reply, Retry, Cancel, ReleaseReply
  <2>2. Running(p) /\ client[p].pc \in {"calling", "backoff", "releasing"}
        /\ client[p].lease \in Lease
    BY <1>3 DEF ClientStep, Reply, Retry, Cancel, ReleaseReply, ClientOk, TypeOK, Client, Request
  <2>3. \A l \in Lease : rpc'[l].st = "release" <=> rpc[l].st = "release"
    <3> USE <2>2 DEF TypeOK, Client, Request, IdleRpc
    <3>1. CASE Reply(p)        BY <3>1 DEF Reply
    <3>2. CASE Retry(p)        BY <3>2 DEF Retry, ClientOk
    <3>3. CASE Cancel(p)       BY <3>3 DEF Cancel
    <3>4. CASE ReleaseReply(p) BY <3>4 DEF ReleaseReply
    <3> QED BY <1>3, <3>1, <3>2, <3>3, <3>4 DEF ClientStep
  <2> QED BY <2>1, <2>3, QuietStep
<1>4. ASSUME NEW k \in Lease, Install(k) PROVE Promise!Grant \/ UNCHANGED Promise!vars
  <2>1. DrawnLeases' = DrawnLeases /\ DeadLeases' = DeadLeases /\ LeavingLeases' = LeavingLeases
    BY <1>4 DEF Install, DrawnLeases, DeadLeases, LeavingLeases, Dead, Running, ThisProcess, TypeOK, Client, Request
  <2>2. CASE holder' = holder
    BY <2>1, <2>2 DEF Promise!vars, DrawnLeases, DeadLeases, LeavingLeases
  <2>3. CASE holder' # holder
    <3>1. holder'.lease = k /\ (holder.lease = NoLease \/ Dead(holder.lease))
      BY <1>4, <2>3 DEF Install, RequestOk
    <3>2. k \in DrawnLeases
      BY <1>4 DEF Install, RequestOk, Drawn, DrawnLeases
    <3>3. holder.lease = NoLease \/ holder.lease \in DeadLeases
      BY <3>1 DEF DeadLeases, TypeOK, Client, Request, Record
    <3> QED BY <2>1, <3>1, <3>2, <3>3
            DEF Promise!Grant, DrawnLeases, DeadLeases, LeavingLeases
  <2> QED BY <2>2, <2>3
<1>5. ASSUME NEW k \in Lease, ServeRelease(k) PROVE Promise!Release
  <2>1. DrawnLeases' = DrawnLeases /\ DeadLeases' = DeadLeases
    BY <1>5 DEF ServeRelease, DrawnLeases, DeadLeases, Dead, Running, ThisProcess
  <2>2. k \in LeavingLeases /\ LeavingLeases' = LeavingLeases \ {k}
    BY <1>5 DEF ServeRelease, LeavingLeases, TypeOK, Client, Request
  <2>3. holder'.lease = IF holder.lease = k THEN NoLease ELSE holder.lease
    BY <1>5 DEF ServeRelease, Empty
  <2> QED BY <2>1, <2>2, <2>3 DEF Promise!Release, DrawnLeases, DeadLeases, LeavingLeases
<1>6. ASSUME NEW k \in Lease, Snapshot(k) \/ ProbePid(k) \/ ProbeStart(k) \/ SampleClaimant(k)
      PROVE  UNCHANGED Promise!vars
  <2>1. UNCHANGED <<proc, owner, holder>>
    BY <1>6 DEF Snapshot, ProbePid, ProbeStart, SampleClaimant
  <2>2. \A l \in Lease : rpc'[l].st = "release" <=> rpc[l].st = "release"
    <3> USE DEF TypeOK, Client, Request
    <3>1. CASE Snapshot(k)       BY <3>1 DEF Snapshot
    <3>2. CASE ProbePid(k)       BY <3>2 DEF ProbePid
    <3>3. CASE ProbeStart(k)     BY <3>3 DEF ProbeStart
    <3>4. CASE SampleClaimant(k) BY <3>4 DEF SampleClaimant
    <3> QED BY <1>6, <3>1, <3>2, <3>3, <3>4
  <2> QED BY <2>1, <2>2, QuietStep
<1>7. ASSUME NEW p \in Pid, SystemStep(p) PROVE Promise!Die
  <2>1. UNCHANGED <<rpc, owner, holder>>
    BY <1>7 DEF SystemStep, Kill, Collect, Spawn
  <2>2. DeadLeases \subseteq DeadLeases'
    BY DeathIsFinal DEF DeadLeases
  <2>3. DeadLeases' \subseteq DrawnLeases
    BY <2>1 DEF DeadLeases, DrawnLeases, Dead
  <2>4. DeadLeases' = DeadLeases \cup DeadLeases'
    BY <2>2
  <2> QED BY <2>1, <2>3, <2>4 DEF Promise!Die, DrawnLeases, DeadLeases, LeavingLeases
<1>8. CASE UNCHANGED vars
  BY <1>8, QuietStep DEF vars
<1> QED
  BY <1>1, <1>2, <1>3, <1>4, <1>5, <1>6, <1>7, <1>8 DEF Next, ServerStep, Promise!Next

\* The holder table implements the exclusive lease it stands for: a lease ends
\* only by its own release or after its owner's death.
THEOREM Refinement == Spec => LeaseExclusion
<1>1. Init => Promise!Init
  BY DEF Init, Promise!Init, Dead, Empty, IdleRpc
<1>2. HolderInv /\ [Next]_vars => [Promise!Next]_(Promise!vars)
  BY StepSimulation
<1> QED BY <1>1, <1>2, Invariance, PTL DEF Spec, LeaseExclusion, Promise!Spec
=============================================================================

---------------------------- MODULE KeyedContext ----------------------------
(***************************************************************************)
(* get_storage_keyed_lock (ontorag/kg/shared_storage.py): one `async with' *)
(* over the locks of several keys, entered one after another.  Every key   *)
(* has, in each process, an asyncio.Lock that lives while somebody refers  *)
(* to it; with several processes that lock is only a gate, and the lease   *)
(* of the key (module KeyedLease, here what ExclusiveLease promises of it) *)
(* is polled behind it.                                                    *)
(*                                                                         *)
(* Coroutines of a process run one at a time.  A stretch without a         *)
(* suspension spans several actions when other processes can come between  *)
(* them; `running' keeps the rest of the process out meanwhile.            *)
(***************************************************************************)
EXTENDS Integers, FiniteSets, Sequences, SequencesExt, SequenceFilter

CONSTANTS
    Proc,        \* worker processes
    Coroutine,   \* coroutines, each of which enters one context
    Home,        \* Home[c]: the process that runs c, when there are several
    Nobody,
    Entity,      \* the names that are locked, 1 .. n in their sort order
    SelfLoops,   \* whether a caller may name a relation of an entity with itself
    MaxTroubles  \* bound: cancellations, and calls to the holder table that raise

Lost == "lost"               \* held under a lease id that nobody remembers

ASSUME CoroutineAssumption ==
    /\ IsFiniteSet(Coroutine) /\ {Nobody, Lost} \cap Coroutine = {}
    /\ Home \in [Coroutine -> Proc]
ASSUME EntityAssumption == Entity \subseteq Nat /\ SelfLoops \in BOOLEAN
ASSUME BoundAssumption == MaxTroubles \in Nat

VARIABLES
    multi,    \* _is_multiprocess
    home,     \* home[c]: the process whose event loop runs c
    running,  \* running[p]: the coroutine p is in the middle of, or Nobody
    table,    \* table[p][k]: _async_lock[k] and _async_lock_count[k]
    gate,     \* gate[g]: the asyncio.Lock object g, its holder and its waiters
    lease,    \* lease[k]: who holds the lease, Nobody, or lost
    ctx,      \* ctx[c]: the context of c, see Context
    budget    \* what is left of MaxTroubles

vars == <<multi, home, running, table, gate, lease, ctx, budget>>

Gates == 1 .. (2 * Cardinality(Coroutine))
NoGate == 0
NoEntry == [lock |-> NoGate, count |-> 0]
Unlocked == [holder |-> Nobody, waiters |-> <<>>]

\* Where a coroutine is: it has not started; takes the next key; waits for the
\* gate of its last entry; polls its lease; is in the body; waits for its release
\* task or for its rollback; has gone on, with an exception or without.
Place == {"new", "next", "gate", "lease", "inside", "exit", "rollback", "over"}

\* keys: what __init__ sorted; ul: the entries of _ul; cleanup: the entries that the
\* rollback or the release task still has.
Entry == [key : Entity, lock : Gates, entered : BOOLEAN]
Context == [at : Place, keys : Seq(Entity), ul : Seq(Entry), cleanup : Seq(Entry)]
NewContext == [at |-> "new", keys |-> <<>>, ul |-> <<>>, cleanup |-> <<>>]

\* An entity operation locks its entity, a relation operation both ends
\* (utils_graph.py, operate.py).
EntityKeys == {<<e>> : e \in Entity}
RelationKeys == {<<s, t>> : s, t \in Entity}
Requests == EntityKeys \cup {r \in RelationKeys : SelfLoops \/ r[1] # r[2]}

Init ==
    /\ multi \in BOOLEAN
    /\ home \in IF multi THEN {Home} ELSE {[c \in Coroutine |-> p] : p \in Proc}
    /\ running = [p \in Proc |-> Nobody]
    /\ table = [p \in Proc |-> [k \in Entity |-> NoEntry]]
    /\ gate = [g \in Gates |-> Unlocked]
    /\ lease = [k \in Entity |-> Nobody]
    /\ ctx = [c \in Coroutine |-> NewContext]
    /\ budget = MaxTroubles

\* c may go on: nobody else of its process is between two suspensions.
OnLoop(c) == running[home[c]] \in {Nobody, c}
Continue(c) == running' = [running EXCEPT ![home[c]] = c]
Suspend(c) == running' = [running EXCEPT ![home[c]] = Nobody]

At(c, place) == ctx[c].at = place
LastEntry(c) == Last(ctx[c].ul)
Enter(context) == [context EXCEPT !.at = "next", !.ul[Len(context.ul)].entered = TRUE]

\* The entries of c, those its cleanup still has included.
Entries(c) == ctx[c].ul \o ctx[c].cleanup

-----------------------------------------------------------------------------
(* The table of gates (KeyedUnifiedLock) and asyncio.Lock.                 *)

\* An object nobody refers to, neither in a table nor in an entry.
FreshGate ==
    CHOOSE g \in Gates :
        /\ \A p \in Proc, k \in Entity : table[p][k].lock # g
        /\ \A c \in Coroutine : \A i \in DOMAIN Entries(c) : Entries(c)[i].lock # g

GetOrCreate(entry) == [lock |-> IF entry.lock = NoGate THEN FreshGate ELSE entry.lock,
                       count |-> entry.count + 1]

\* Mutant: a reference is dropped twice.
DropTwice(entry) == [entry EXCEPT !.count = @ - 2]

\* Mutant: the lock is dropped with its first holder, whoever waits.
DropAtOnce(entry) == NoEntry

ReleaseRef(entry) == IF entry.count <= 1 THEN NoEntry ELSE [entry EXCEPT !.count = @ - 1]

\* A free lock is taken at once, unless somebody already waits.
FreeGate(g) == g.holder = Nobody /\ g.waiters = <<>>

-----------------------------------------------------------------------------
(* __aenter__.                                                             *)

\* Mutant: the keys are locked in the order they are given.
AsGiven(request) == request

\* A request names two keys at most.
SortedKeys(request) == IF Last(request) < Head(request) THEN Reverse(request) ELSE request

Start(c) ==
    /\ At(c, "new") /\ OnLoop(c)
    /\ \E request \in Requests :
         ctx' = [ctx EXCEPT ![c].at = "next", ![c].keys = SortedKeys(request)]
    /\ Continue(c)
    /\ UNCHANGED <<multi, home, table, gate, lease, budget>>

\* The next key: a reference, an entry, and the gate if it is free.
TakeKey(c) ==
    /\ At(c, "next") /\ OnLoop(c)
    /\ Len(ctx[c].ul) < Len(ctx[c].keys)
    /\ LET p == home[c]
           k == ctx[c].keys[Len(ctx[c].ul) + 1]
           entry == GetOrCreate(table[p][k])
           g == entry.lock
           after == [ctx[c] EXCEPT !.ul = Append(@, [key |-> k, lock |-> g, entered |-> FALSE])]
       IN  /\ table' = [table EXCEPT ![p][k] = entry]
           /\ IF FreeGate(gate[g])
                THEN /\ gate' = [gate EXCEPT ![g].holder = c]
                     /\ ctx' = [ctx EXCEPT ![c] = IF multi THEN [after EXCEPT !.at = "lease"]
                                                           ELSE Enter(after)]
                     /\ Continue(c)
                ELSE /\ gate' = [gate EXCEPT ![g].waiters = Append(@, c)]
                     /\ ctx' = [ctx EXCEPT ![c] = [after EXCEPT !.at = "gate"]]
                     /\ Suspend(c)
    /\ UNCHANGED <<multi, home, lease, budget>>

\* A released lock wakes its first waiter.
TakeGate(c) ==
    /\ At(c, "gate") /\ OnLoop(c)
    /\ LET g == LastEntry(c).lock IN
         /\ gate[g].holder = Nobody /\ Head(gate[g].waiters) = c
         /\ gate' = [gate EXCEPT ![g] = [holder |-> c, waiters |-> Tail(@.waiters)]]
    /\ ctx' = [ctx EXCEPT ![c] = IF multi THEN [@ EXCEPT !.at = "lease"] ELSE Enter(@)]
    /\ Continue(c)
    /\ UNCHANGED <<multi, home, table, lease, budget>>

\* One round of the poll of _KeyedLeaseLock.acquire: granted, or a sleep.
PollLease(c) ==
    /\ At(c, "lease") /\ OnLoop(c)
    /\ LET k == LastEntry(c).key IN
         IF lease[k] = Nobody
           THEN /\ lease' = [lease EXCEPT ![k] = c]
                /\ ctx' = [ctx EXCEPT ![c] = Enter(@)]
                /\ Continue(c)
           ELSE /\ Suspend(c)
                /\ UNCHANGED <<lease, ctx>>
    /\ UNCHANGED <<multi, home, table, gate, budget>>

\* All keys are held: the body runs, with suspensions of its own.
EnterBody(c) ==
    /\ At(c, "next") /\ OnLoop(c)
    /\ Len(ctx[c].ul) = Len(ctx[c].keys)
    /\ ctx' = [ctx EXCEPT ![c].at = "inside"]
    /\ Suspend(c)
    /\ UNCHANGED <<multi, home, table, gate, lease, budget>>

\* __aenter__ fails: what it has of the last key's gate goes back there and then,
\* the rest is left to the shielded rollback.
RollBack(c) ==
    /\ ctx' = [ctx EXCEPT ![c] = [@ EXCEPT !.at = "rollback", !.cleanup = ctx[c].ul, !.ul = <<>>]]
    /\ Suspend(c)

\* try_acquire raises: UnifiedLock gives the gate back.
PollFails(c) ==
    /\ At(c, "lease") /\ OnLoop(c) /\ budget > 0
    /\ gate' = [gate EXCEPT ![LastEntry(c).lock].holder = Nobody]
    /\ RollBack(c)
    /\ budget' = budget - 1
    /\ UNCHANGED <<multi, home, table, lease>>

-----------------------------------------------------------------------------
(* __aexit__, and the two clean-ups.                                       *)

\* The body ends or raises; _ul is cleared before the release task is created.
Leave(c) ==
    /\ At(c, "inside") /\ OnLoop(c)
    /\ ctx' = [ctx EXCEPT ![c] = [@ EXCEPT !.at = "exit", !.cleanup = ctx[c].ul, !.ul = <<>>]]
    /\ Suspend(c)
    /\ UNCHANGED <<multi, home, table, gate, lease, budget>>

\* Mutant: only what was entered is released, the reference of the key that was
\* waited for is not.
CleanUpEntered(c, raised) ==
    LET entry == Last(ctx[c].cleanup)
        rest == Front(ctx[c].cleanup)
        p == home[c]
    IN  /\ ctx[c].cleanup # <<>> /\ OnLoop(c)
        /\ gate' = IF entry.entered THEN [gate EXCEPT ![entry.lock].holder = Nobody] ELSE gate
        /\ lease' = IF ~ (entry.entered /\ multi) THEN lease
                    ELSE [lease EXCEPT ![entry.key] = IF raised THEN Lost ELSE Nobody]
        /\ table' = IF entry.entered THEN [table EXCEPT ![p][entry.key] = ReleaseRef(@)] ELSE table
        /\ ctx' = [ctx EXCEPT ![c].cleanup = rest]
        /\ IF At(c, "exit") /\ rest # <<>> THEN Continue(c) ELSE Suspend(c)
        /\ UNCHANGED <<multi, home>>

\* One entry, the last first: the lease, the gate, the reference.  The rollback runs each
\* entry in a task of its own, the release task runs through.
CleanUp(c, raised) ==
    LET entry == Last(ctx[c].cleanup)
        rest == Front(ctx[c].cleanup)
        p == home[c]
    IN  /\ ctx[c].cleanup # <<>> /\ OnLoop(c)
        /\ gate' = IF entry.entered THEN [gate EXCEPT ![entry.lock].holder = Nobody] ELSE gate
        /\ lease' = IF ~ (entry.entered /\ multi) THEN lease
                    ELSE [lease EXCEPT ![entry.key] = IF raised THEN Lost ELSE Nobody]
        /\ table' = [table EXCEPT ![p][entry.key] = ReleaseRef(@)]
        /\ ctx' = [ctx EXCEPT ![c].cleanup = rest]
        /\ IF At(c, "exit") /\ rest # <<>> THEN Continue(c) ELSE Suspend(c)
        /\ UNCHANGED <<multi, home>>

ReleaseEntry(c) == CleanUp(c, FALSE) /\ UNCHANGED budget

\* The release call raises: the gate and the reference are given back all the same, the
\* holder table keeps a record whose lease id is forgotten.
ReleaseFails(c) ==
    /\ multi /\ budget > 0
    /\ ctx[c].cleanup # <<>> /\ Last(ctx[c].cleanup).entered
    /\ CleanUp(c, TRUE)
    /\ budget' = budget - 1

\* The clean-up is over: __aexit__ or __aenter__ goes on.
GoOn(c) ==
    /\ ctx[c].at \in {"exit", "rollback"} /\ OnLoop(c)
    /\ ctx[c].cleanup = <<>>
    /\ ctx' = [ctx EXCEPT ![c].at = "over"]
    /\ UNCHANGED <<multi, home, running, table, gate, lease, budget>>

-----------------------------------------------------------------------------
(* Cancellation, by another task of the process.                           *)

Cancellable(c) == running[home[c]] = Nobody /\ budget > 0

\* Waiting for the gate: the waiter leaves the queue.
CancelWaiter(c) ==
    /\ At(c, "gate") /\ Cancellable(c)
    /\ gate' = [gate EXCEPT ![LastEntry(c).lock].waiters = Without(@, {c})]
    /\ RollBack(c)
    /\ UNCHANGED lease

\* Asleep between two polls: UnifiedLock gives the gate back.
CancelPoll(c) ==
    /\ At(c, "lease") /\ Cancellable(c)
    /\ gate' = [gate EXCEPT ![LastEntry(c).lock].holder = Nobody]
    /\ RollBack(c)
    /\ UNCHANGED lease

\* A second one, during the shielded rollback: __aenter__ raises, the rollback goes on.
CancelRollback(c) ==
    /\ At(c, "rollback") /\ Cancellable(c)
    /\ ctx' = [ctx EXCEPT ![c].at = "over"]
    /\ UNCHANGED <<running, gate, lease>>

\* Mutant: __aexit__ returns when it is cancelled.
CancelReturns(c) ==
    /\ At(c, "exit") /\ Cancellable(c)
    /\ ctx' = [ctx EXCEPT ![c].at = "over"]
    /\ UNCHANGED <<running, gate, lease>>

\* During the release: put off until the release task is done.
CancelExit(c) ==
    /\ At(c, "exit") /\ Cancellable(c)
    /\ UNCHANGED <<running, gate, lease, ctx>>

Cancel(c) ==
    /\ CancelWaiter(c) \/ CancelPoll(c) \/ CancelRollback(c) \/ CancelExit(c)
    /\ budget' = budget - 1
    /\ UNCHANGED <<multi, home, table>>

-----------------------------------------------------------------------------
Step(c) == \/ TakeKey(c) \/ TakeGate(c) \/ PollLease(c) \/ EnterBody(c)
           \/ Leave(c) \/ ReleaseEntry(c) \/ GoOn(c)

Trouble(c) == PollFails(c) \/ ReleaseFails(c) \/ Cancel(c)

Over(c) == At(c, "over") /\ ctx[c].cleanup = <<>>
Finished == (\A c \in Coroutine : Over(c)) /\ UNCHANGED vars

Next == (\E c \in Coroutine : Start(c) \/ Step(c) \/ Trouble(c)) \/ Finished

Spec == Init /\ [][Next]_vars

\* The event loops run their coroutines and tasks; bodies end; the poll of a lease
\* that stays free is granted.  Nobody has to start, to be cancelled or to fail.
FairSpec == Spec /\ \A c \in Coroutine : WF_vars(Step(c))

-----------------------------------------------------------------------------
\* The references of p's contexts to k that are still to be dropped.
References == UNION {{c} \X DOMAIN Entries(c) : c \in Coroutine}
RefsTo(p, k) == {r \in References : home[r[1]] = p /\ Entries(r[1])[r[2]].key = k}

TypeOK ==
    /\ multi \in BOOLEAN /\ home \in [Coroutine -> Proc]
    /\ running \in [Proc -> Coroutine \cup {Nobody}]
    /\ table \in [Proc -> [Entity -> [lock : Gates \cup {NoGate}, count : Nat]]]
    /\ gate \in [Gates -> [holder : Coroutine \cup {Nobody}, waiters : Seq(Coroutine)]]
    /\ lease \in [Entity -> Coroutine \cup {Nobody, Lost}]
    /\ ctx \in [Coroutine -> Context]
    /\ budget \in 0 .. MaxTroubles

\* "An entry exists <=> its refcount >= 1" and "same-key coroutines MUST share one
\* asyncio.Lock while any of them is active": the counts of a process are the entries its
\* contexts have still to drop, and those of one key are of one lock, whichever of them
\* fail, are cancelled or are half rolled back.
CountsMatch ==
    /\ TypeOK
    /\ \A p \in Proc, k \in Entity :
         /\ table[p][k].count = Cardinality(RefsTo(p, k))
         /\ table[p][k].lock = NoGate <=> table[p][k].count = 0
         /\ \A r \in RefsTo(p, k) : Entries(r[1])[r[2]].lock = table[p][k].lock

Holding(c, k) == \E i \in DOMAIN Entries(c) : Entries(c)[i].key = k /\ Entries(c)[i].entered

\* No two coroutines, of one process or of several, hold the lock of one name.
KeyExclusion ==
    \A c, d \in Coroutine, k \in Entity : Holding(c, k) /\ Holding(d, k) => c = d

\* "__aexit__ never returns while a lock is still held", however often it is cancelled:
\* when it goes on, no gate, no lease and no reference of its context are left.
ExitReleases ==
    [][\A c \in Coroutine : At(c, "exit") /\ ctx'[c].at # "exit" =>
         /\ Entries(c)' = <<>>
         /\ \A g \in Gates : gate'[g].holder # c
         /\ \A k \in Entity : lease'[k] # c]_vars

\* "The sorting is critical to ensure proper lock and release order to avoid deadlocks":
\* who asks for keys gets them all or fails, unless a failed release has lost a lease.
EnterEnds ==
    \A c \in Coroutine :
       At(c, "next") ~> (ctx[c].at \in {"inside", "rollback"} \/ \E k \in Entity : lease[k] = Lost)
=============================================================================

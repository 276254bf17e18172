----------------------------- MODULE VectorStore -----------------------------
(***************************************************************************)
(* The file-backed vector store, NanoVectorDBStorage                       *)
(* (ontorag/kg/nano_vector_db_impl.py), shared by several worker           *)
(* processes.  Every process holds the whole index in memory; one JSON     *)
(* file is the only thing they share, and a flag per process tells it that *)
(* somebody else has replaced the file.                                    *)
(*                                                                         *)
(* A write is buffered (pendUp, pendDel), materialized by a flush into the *)
(* memory copy and two redo logs (redoUp, redoDel), and durable once a     *)
(* save lands.  The embedding call and the save may fail, a process may be *)
(* killed between any two steps, and another process may replace the file  *)
(* while this one still has work in its buffers or logs.                   *)
(*                                                                         *)
(* All sections run under the storage lock, a keyed lease (KeyedLease):    *)
(* one that awaits nothing is one action; a commit is several, during      *)
(* which no other section of any process runs.  A killed holder's lock is  *)
(* reclaimed.                                                              *)
(***************************************************************************)
EXTENDS Naturals

CONSTANTS
    Proc,       \* worker processes
    Id,         \* ids of the rows
    Stored,     \* the ids that have a row when the server starts
    NoRow, NoProc, Nothing,
    Preload,    \* gunicorn preload_app: workers inherit the master's copy
    MaxClock,   \* bound: readings of time_ns
    MaxWrites,  \* bound: upserts
    MaxRemovals, \* bound: removal requests and drops
    MaxFaults   \* bound: killed processes, failed embeddings, saves,
                \* notifications and drops

ASSUME StoredAssumption == Stored \subseteq Id
ASSUME NoProcAssumption == NoProc \notin Proc
ASSUME PreloadAssumption == Preload \in BOOLEAN
ASSUME BoundAssumption ==
    {MaxClock, MaxWrites, MaxRemovals, MaxFaults} \subseteq Nat

\* A version of a row: its __write_seq__ token and the process that wrote it.
\* The fingerprint of a row identifies exactly this.
Row == [seq : Nat, by : Proc \cup {NoProc}]
ASSUME NoRowAssumption == NoRow \notin Row /\ Nothing \notin Row \cup {NoRow}

Cell == Row \cup {NoRow}
Index == [Id -> Cell]

VARIABLES
    disk,    \* the rows of vdb_<namespace>.json
    clock,   \* time_ns, the same for all processes
    stage,   \* stage[p]: down, loaded (__post_init__), up (initialize)
    flag,    \* flag[p]: storage_updated
    client,  \* client[p]: the index in memory
    dirty,   \* dirty[p]: _client_dirty
    pendUp,  \* pendUp[p]: _pending_upserts
    pendDel, \* pendDel[p]: _pending_deletes
    redoUp,  \* redoUp[p]: _unsaved_upserts
    redoDel, \* redoDel[p]: _unsaved_deletes, the removed version of each id
    lastSeq, \* lastSeq[p]: write_seq._last_seq
    pc,      \* pc[p]: where the section that holds the storage lock is
    budget,  \* what is left of the bounds
    asked,   \* asked[p][i]: what p asked i to become since its last commit (history)
    want,    \* want[p][i]: p's last request for i that still stands (history)
    missed   \* processes whose copy lacks a commit they were not told of (history)

shared == <<disk, clock, stage, flag, budget, missed>>
local  == <<client, dirty, pendUp, pendDel, redoUp, redoDel, lastSeq, pc>>
history == <<asked, want>>
vars == <<shared, local, history>>

NoRows == [i \in Id |-> NoRow]
Boot   == [i \in Id |-> IF i \in Stored THEN [seq |-> 0, by |-> NoProc] ELSE NoRow]
Unasked == [i \in Id |-> {}]
NoWants == [i \in Id |-> Nothing]

\* row_is_strictly_newer; a and b are rows that both carry a token.
Newer(a, b) == a # NoRow /\ b # NoRow /\ a.seq > b.seq

\* The storage lock is free: no section is between two of its steps.
LockFree == \A q \in Proc : pc[q] = "idle"
Ready(p) == stage[p] = "up" /\ LockFree

Spend(b) == /\ budget[b] > 0
            /\ budget' = [budget EXCEPT ![b] = @ - 1]

Init ==
    /\ disk = Boot
    /\ clock = 1
    /\ stage = [p \in Proc |-> "loaded"]
    /\ flag = [p \in Proc |-> FALSE]
    /\ client = [p \in Proc |-> Boot]
    /\ dirty = [p \in Proc |-> FALSE]
    /\ pendUp = [p \in Proc |-> NoRows]
    /\ pendDel = [p \in Proc |-> {}]
    /\ redoUp = [p \in Proc |-> NoRows]
    /\ redoDel = [p \in Proc |-> NoRows]
    /\ lastSeq = [p \in Proc |-> 0]
    /\ pc = [p \in Proc |-> "idle"]
    /\ budget = [writes |-> MaxWrites, removals |-> MaxRemovals, faults |-> MaxFaults]
    /\ asked = [p \in Proc |-> Unasked]
    /\ want = [p \in Proc |-> NoWants]
    /\ missed = {}

-----------------------------------------------------------------------------
(* The life of a process.                                                  *)

\* initialize: the process gets its update flag, FALSE.
Initialize(p) ==
    /\ stage[p] = "loaded"
    /\ stage' = [stage EXCEPT ![p] = "up"]
    /\ flag' = [flag EXCEPT ![p] = FALSE]
    /\ UNCHANGED <<disk, clock, budget, missed, local, history>>

\* A new worker: __post_init__ reads the file, in the worker itself or, with
\* preload_app, in the master when the server started.
Spawn(p) ==
    /\ stage[p] = "down"
    /\ stage' = [stage EXCEPT ![p] = "loaded"]
    /\ client' = [client EXCEPT ![p] = IF Preload THEN Boot ELSE disk]
    /\ missed' = IF Preload /\ disk # Boot THEN missed \cup {p} ELSE missed
    /\ UNCHANGED <<disk, clock, flag, budget, dirty, pendUp, pendDel, redoUp, redoDel,
                   lastSeq, pc, history>>

\* The processes F were told of p's commit; the others run on without it.
Told(p, F) ==
    /\ flag' = [q \in Proc |-> flag[q] \/ q \in F]
    /\ missed' = (missed \ {p}) \cup
                 {q \in Proc \ (F \cup {p}) : stage[q] = "up" /\ ~ flag[q]}

\* SIGKILL.  A process killed inside set_all_update_flags has told some.  The
\* clock a new incarnation reads is past every token of this one, so lastSeq
\* stands for it.
Kill(p) ==
    /\ stage[p] # "down"
    /\ Spend("faults")
    /\ stage' = [stage EXCEPT ![p] = "down"]
    /\ pc' = [pc EXCEPT ![p] = "idle"]
    /\ dirty' = [dirty EXCEPT ![p] = FALSE]
    /\ pendUp' = [pendUp EXCEPT ![p] = NoRows]
    /\ pendDel' = [pendDel EXCEPT ![p] = {}]
    /\ redoUp' = [redoUp EXCEPT ![p] = NoRows]
    /\ redoDel' = [redoDel EXCEPT ![p] = NoRows]
    /\ asked' = [asked EXCEPT ![p] = Unasked]
    /\ want' = [want EXCEPT ![p] = NoWants]
    /\ IF pc[p] = "published"
       THEN \E F \in SUBSET {q \in Proc \ {p} : stage[q] = "up"} : Told(p, F)
       ELSE /\ missed' = missed \ {p}
            /\ UNCHANGED flag
    /\ UNCHANGED <<disk, clock, client, lastSeq>>

-----------------------------------------------------------------------------
(* Requests: they touch the buffers of the process, never the file.        *)

\* upsert: one token for the batch S; a queued delete is superseded, the redo
\* logs are left alone.
Upsert(p, S) ==
    /\ Ready(p)
    /\ Spend("writes")
    /\ \E now \in {clock, clock + 1} :
         LET seq == IF now > lastSeq[p] THEN now ELSE lastSeq[p] + 1
             row == [seq |-> seq, by |-> p]
         IN /\ now <= MaxClock
            /\ clock' = now
            /\ lastSeq' = [lastSeq EXCEPT ![p] = seq]
            /\ pendUp' = [pendUp EXCEPT ![p] = [i \in Id |-> IF i \in S THEN row ELSE @[i]]]
            /\ asked' = [asked EXCEPT ![p] =
                           [i \in Id |-> IF i \in S THEN @[i] \cup {row} ELSE @[i]]]
            /\ want' = [want EXCEPT ![p] = [i \in Id |-> IF i \in S THEN row ELSE @[i]]]
    /\ pendDel' = [pendDel EXCEPT ![p] = @ \ S]
    /\ UNCHANGED <<disk, stage, flag, missed, client, dirty, redoUp, redoDel, pc>>

\* The history of a removal request for the ids S.
AskedGone(p, S) ==
    /\ asked' = [asked EXCEPT ![p] = [i \in Id |-> IF i \in S THEN @[i] \cup {NoRow} ELSE @[i]]]
    /\ want' = [want EXCEPT ![p] = [i \in Id |->
         IF i \notin S THEN @[i] ELSE IF p \in missed' THEN Nothing ELSE NoRow]]

Without(rows, S) == [i \in Id |-> IF i \in S THEN NoRow ELSE rows[i]]

\* Mutant: the logged upserts of the ids survive, and are replayed later.
DeleteKeepingLog(p, S) ==
    /\ Ready(p)
    /\ Spend("removals")
    /\ pendUp' = [pendUp EXCEPT ![p] = Without(@, S)]
    /\ pendDel' = [pendDel EXCEPT ![p] = @ \cup S]
    /\ UNCHANGED <<disk, clock, stage, flag, missed, client, dirty, redoUp, redoDel,
                   lastSeq, pc>>
    /\ AskedGone(p, S)

\* delete: the ids are queued, their buffered and logged upserts evicted.
Delete(p, S) ==
    /\ Ready(p)
    /\ Spend("removals")
    /\ pendUp' = [pendUp EXCEPT ![p] = Without(@, S)]
    /\ redoUp' = [redoUp EXCEPT ![p] = Without(@, S)]
    /\ pendDel' = [pendDel EXCEPT ![p] = @ \cup S]
    /\ UNCHANGED <<disk, clock, stage, flag, missed, client, dirty, redoDel, lastSeq, pc>>
    /\ AskedGone(p, S)

\* Mutant: a section starts from the copy in memory, flagged or not.
FreshStale(p) == client[p]

\* _reload_client_from_disk_locked: the copy a section starts from.
Fresh(p) == IF flag[p] THEN disk ELSE client[p]
Reloaded(p) ==
    /\ flag' = [flag EXCEPT ![p] = FALSE]
    /\ missed' = IF flag[p] THEN missed \ {p} ELSE missed

\* delete_entity and delete_entity_relation: the rows S leave the memory copy at
\* once and the redo log remembers the versions removed.
DeleteEager(p, S) ==
    LET found == {i \in S : Fresh(p)[i] # NoRow} IN
    /\ Ready(p)
    /\ Spend("removals")
    /\ Reloaded(p)
    /\ client' = [client EXCEPT ![p] = Without(Fresh(p), found)]
    /\ redoDel' = [redoDel EXCEPT ![p] =
                     [i \in Id |-> IF i \in found THEN Fresh(p)[i] ELSE @[i]]]
    /\ pendDel' = [pendDel EXCEPT ![p] = @ \ found]
    /\ dirty' = [dirty EXCEPT ![p] = @ \/ found # {}]
    /\ pendUp' = [pendUp EXCEPT ![p] = Without(@, S)]
    /\ redoUp' = [redoUp EXCEPT ![p] = Without(@, S)]
    /\ AskedGone(p, S)
    /\ UNCHANGED <<disk, clock, stage, lastSeq, pc>>

\* drop_pending_index_ops: an aborting batch gives up what is only buffered.
DropPending(p) ==
    /\ Ready(p)
    /\ pendUp[p] # NoRows \/ pendDel[p] # {}
    /\ pendUp' = [pendUp EXCEPT ![p] = NoRows]
    /\ pendDel' = [pendDel EXCEPT ![p] = {}]
    /\ want' = [want EXCEPT ![p] =
         [i \in Id |-> IF pendUp[p][i] # NoRow \/ i \in pendDel[p] THEN Nothing ELSE @[i]]]
    /\ UNCHANGED <<shared, client, dirty, redoUp, redoDel, lastSeq, pc, asked>>

\* _get_client: a read reloads a flagged copy.
Read(p) ==
    /\ Ready(p)
    /\ flag[p]
    /\ Reloaded(p)
    /\ client' = [client EXCEPT ![p] = disk]
    /\ UNCHANGED <<disk, clock, stage, budget, dirty, pendUp, pendDel, redoUp, redoDel,
                   lastSeq, pc, history>>

\* Mutant: the log wins over the copy, however new its row is.
ReadByIdLogFirst(p, i) ==
    IF pendUp[p][i] # NoRow THEN pendUp[p][i]
    ELSE IF i \in pendDel[p] THEN NoRow
    ELSE IF redoUp[p][i] # NoRow THEN redoUp[p][i]
    ELSE IF Fresh(p)[i] = redoDel[p][i] THEN NoRow ELSE Fresh(p)[i]

\* get_by_id: buffer, queue, then the redo logs against the (reloaded) copy.
ReadById(p, i) ==
    LET resident == Fresh(p)[i] IN
    IF pendUp[p][i] # NoRow THEN pendUp[p][i]
    ELSE IF i \in pendDel[p] THEN NoRow
    ELSE IF redoUp[p][i] # NoRow
    THEN IF Newer(resident, redoUp[p][i]) THEN resident ELSE redoUp[p][i]
    ELSE IF resident = redoDel[p][i] THEN NoRow ELSE resident

-----------------------------------------------------------------------------
(* A commit: reload, flush, save, notify.                                  *)

\* Mutant: the removals of the log are not replayed.
MatchedQueued(p) == {i \in Id : Fresh(p)[i] # NoRow /\ i \in pendDel[p]}

\* The rows the flush deletes: a queued id whatever its row, a logged id only
\* if the row is the version removed before.
Matched(p) == {i \in Id : /\ Fresh(p)[i] # NoRow
                          /\ i \in pendDel[p] \/ redoDel[p][i] = Fresh(p)[i]}

\* Mutants: only absent rows are replayed; a newer row is overwritten.
ReplayedMissing(p, rows) == {i \in Id : /\ redoUp[p][i] # NoRow
                                        /\ pendUp[p][i] = NoRow
                                        /\ rows[i] = NoRow}
ReplayedOlder(p, rows) == {i \in Id : /\ redoUp[p][i] \notin {NoRow, rows[i]}
                                      /\ pendUp[p][i] = NoRow}

\* The logged upserts that have something to replay on the remaining rows, and
\* those a strictly newer row has superseded.
Replayed(p, rows) == {i \in Id : /\ redoUp[p][i] \notin {NoRow, rows[i]}
                                 /\ pendUp[p][i] = NoRow
                                 /\ ~ Newer(rows[i], redoUp[p][i])}
Superseded(p, rows) == {i \in Id : /\ redoUp[p][i] # NoRow
                                   /\ pendUp[p][i] = NoRow
                                   /\ Newer(rows[i], redoUp[p][i])}

\* The memory copy after the deletes and the replay of the flush.
Flushed(p) ==
    LET rows == Without(Fresh(p), Matched(p)) IN
    [i \in Id |-> IF i \in Replayed(p, rows) THEN redoUp[p][i] ELSE rows[i]]

\* The first half of _flush_pending_locked, up to the embedding call.
Flush(p) ==
    LET rows == Without(Fresh(p), Matched(p)) IN
    /\ Reloaded(p)
    /\ client' = [client EXCEPT ![p] = Flushed(p)]
    /\ redoDel' = [redoDel EXCEPT ![p] =
                     [i \in Id |-> IF i \in Matched(p) THEN Fresh(p)[i] ELSE @[i]]]
    /\ pendDel' = [pendDel EXCEPT ![p] = {}]
    /\ redoUp' = [redoUp EXCEPT ![p] = Without(@, Superseded(p, rows))]
    /\ UNCHANGED <<disk, clock, stage, budget, pendUp, lastSeq, history>>

FlushChanges(p) ==
    Matched(p) # {} \/ Replayed(p, Without(Fresh(p), Matched(p))) # {}

\* index_done_callback always goes on to save.
Commit(p) ==
    /\ Ready(p)
    /\ Flush(p)
    /\ dirty' = [dirty EXCEPT ![p] = @ \/ FlushChanges(p)]
    /\ pc' = [pc EXCEPT ![p] = IF pendUp[p] # NoRows THEN "embed" ELSE "save"]

\* finalize saves only what differs from the copy it started from.
Finalize(p) ==
    /\ Ready(p)
    /\ \/ pendUp[p] # NoRows \/ pendDel[p] # {}
       \/ redoDel[p] # NoRows \/ redoUp[p] # NoRows \/ dirty[p]
    /\ Flush(p)
    /\ dirty' = [dirty EXCEPT ![p] = (@ /\ ~ flag[p]) \/ FlushChanges(p)]
    /\ pc' = [pc EXCEPT ![p] = IF pendUp[p] # NoRows THEN "embed"
                               ELSE IF dirty'[p] THEN "save" ELSE "idle"]

\* The rest of the flush: the embedded rows enter the copy and the redo log.
Embed(p) ==
    /\ pc[p] = "embed"
    /\ client' = [client EXCEPT ![p] =
                    [i \in Id |-> IF pendUp[p][i] # NoRow THEN pendUp[p][i] ELSE @[i]]]
    /\ redoUp' = [redoUp EXCEPT ![p] =
                    [i \in Id |-> IF pendUp[p][i] # NoRow THEN pendUp[p][i] ELSE @[i]]]
    /\ pendUp' = [pendUp EXCEPT ![p] = NoRows]
    /\ dirty' = [dirty EXCEPT ![p] = TRUE]
    /\ pc' = [pc EXCEPT ![p] = "save"]
    /\ UNCHANGED <<shared, pendDel, redoDel, lastSeq, history>>

\* The embedding call or the save raises (or the caller is cancelled before
\* anything was submitted): the lock is released, buffers and logs stay.
Fails(p) ==
    /\ pc[p] \in {"embed", "save"}
    /\ Spend("faults")
    /\ pc' = [pc EXCEPT ![p] = "idle"]
    /\ UNCHANGED <<disk, clock, stage, flag, missed, client, dirty, pendUp, pendDel, redoUp,
                   redoDel, lastSeq, history>>

\* The request of another process for i stops standing when this commit changes
\* the row it removed, or publishes a newer row than the one it has flushed.
Overtaken(q, i) ==
    \/ want[q][i] = NoRow /\ disk'[i] # disk[i]
    \/ want[q][i] \in Row /\ pendUp[q][i] = NoRow /\ Newer(disk'[i], want[q][i])

\* atomic_write renames the new file into place.
Publish(p) ==
    /\ pc[p] = "save"
    /\ disk' = client[p]
    /\ pc' = [pc EXCEPT ![p] = "published"]
    /\ missed' = (missed \ {p}) \cup {q \in Proc \ {p} : stage[q] = "loaded"}
    /\ want' = [q \in Proc |-> [i \in Id |->
                 IF q # p /\ Overtaken(q, i) THEN Nothing ELSE want[q][i]]]
    /\ UNCHANGED <<clock, stage, flag, budget, client, dirty, pendUp, pendDel, redoUp,
                   redoDel, lastSeq, asked>>

\* The first statements of _committed: the rows are durable, the logs go.
Retire(p) ==
    /\ pc' = [pc EXCEPT ![p] = "idle"]
    /\ redoUp' = [redoUp EXCEPT ![p] = NoRows]
    /\ redoDel' = [redoDel EXCEPT ![p] = NoRows]
    /\ asked' = [asked EXCEPT ![p] = Unasked]
    /\ want' = [want EXCEPT ![p] = NoWants]
    /\ UNCHANGED <<disk, clock, stage, client, pendUp, pendDel, lastSeq>>

\* _committed: set_all_update_flags, then the own flag and the dirty bit.
Notify(p) ==
    /\ pc[p] = "published"
    /\ Retire(p)
    /\ flag' = [q \in Proc |-> q # p /\ (flag[q] \/ stage[q] = "up")]
    /\ dirty' = [dirty EXCEPT ![p] = FALSE]
    /\ UNCHANGED <<budget, missed>>

\* set_all_update_flags raises: a call to the Manager failed on the way.
NotifyFails(p) ==
    /\ pc[p] = "published"
    /\ Spend("faults")
    /\ Retire(p)
    /\ \E F \in SUBSET {q \in Proc : stage[q] = "up"} : Told(p, F)
    /\ UNCHANGED dirty

\* drop: everything goes, then the same notification; the buffers go first, so
\* they are lost even if the file cannot be removed.
ClearBuffers(p) ==
    /\ pendUp' = [pendUp EXCEPT ![p] = NoRows]
    /\ pendDel' = [pendDel EXCEPT ![p] = {}]
    /\ redoUp' = [redoUp EXCEPT ![p] = NoRows]
    /\ redoDel' = [redoDel EXCEPT ![p] = NoRows]
    /\ want' = [want EXCEPT ![p] = NoWants]
    /\ UNCHANGED <<clock, stage, flag, lastSeq>>

Drop(p) ==
    /\ Ready(p)
    /\ Spend("removals")
    /\ ClearBuffers(p)
    /\ disk' = NoRows
    /\ client' = [client EXCEPT ![p] = NoRows]
    /\ dirty' = [dirty EXCEPT ![p] = FALSE]
    /\ pc' = [pc EXCEPT ![p] = "published"]
    /\ missed' = (missed \ {p}) \cup {q \in Proc \ {p} : stage[q] = "loaded"}
    /\ UNCHANGED asked

\* What a failed drop leaves in the copy is no longer in the logs.
DropFails(p) ==
    /\ Ready(p)
    /\ Spend("faults")
    /\ ClearBuffers(p)
    /\ asked' = [asked EXCEPT ![p] = [i \in Id |-> @[i] \cup {Nothing}]]
    /\ UNCHANGED <<disk, client, dirty, pc, missed>>

Next == \E p \in Proc :
    \/ Initialize(p) \/ Spawn(p) \/ Kill(p)
    \/ \E S \in SUBSET Id \ {{}} : Upsert(p, S) \/ Delete(p, S) \/ DeleteEager(p, S)
    \/ DropPending(p) \/ Read(p)
    \/ Commit(p) \/ Finalize(p) \/ Embed(p) \/ Fails(p)
    \/ Publish(p) \/ Notify(p) \/ NotifyFails(p)
    \/ Drop(p) \/ DropFails(p)

Spec == Init /\ [][Next]_vars

-----------------------------------------------------------------------------
TypeOK ==
    /\ disk \in Index
    /\ clock \in Nat
    /\ stage \in [Proc -> {"down", "loaded", "up"}]
    /\ flag \in [Proc -> BOOLEAN]
    /\ client \in [Proc -> Index]
    /\ dirty \in [Proc -> BOOLEAN]
    /\ pendUp \in [Proc -> Index]
    /\ pendDel \in [Proc -> SUBSET Id]
    /\ redoUp \in [Proc -> Index]
    /\ redoDel \in [Proc -> Index]
    /\ lastSeq \in [Proc -> Nat]
    /\ pc \in [Proc -> {"idle", "embed", "save", "published"}]
    /\ asked \in [Proc -> [Id -> SUBSET (Cell \cup {Nothing})]]
    /\ want \in [Proc -> [Id -> Cell \cup {Nothing}]]
    /\ missed \in SUBSET Proc

Saves(p) == pc[p] = "save" /\ pc'[p] = "published"

\* A save by a process that was told of every commit leaves the rows of the
\* others alone: a row of the file changes only to something the process itself
\* asked for since its last commit, whatever failed, was reloaded, replayed or
\* aborted in between.
KeepsForeign == [][\A p \in Proc, i \in Id :
    Saves(p) /\ p \notin missed => disk'[i] \in {disk[i]} \cup asked[p][i]]_vars

\* An upsert that no later request, abort, drop or newer commit has overtaken is
\* what the next save of the process writes, after any number of failed
\* embeddings and saves and of commits of other processes.
UpsertDurable == [][\A p \in Proc, i \in Id :
    Saves(p) /\ want[p][i] \in Row => disk'[i] = want[p][i]]_vars

\* A removal that still stands is durable with the next save, as long as the
\* process has not also written the row since its last commit.
RemovalDurable == [][\A p \in Proc, i \in Id :
    Saves(p) /\ want[p][i] = NoRow /\ asked[p][i] = {NoRow} => disk'[i] = NoRow]_vars

\* The reload stays lossless for deletes: the same for every removal.
DeletesSurviveReload == [][\A p \in Proc, i \in Id :
    Saves(p) /\ want[p][i] = NoRow => disk'[i] = NoRow]_vars

\* The replay of the redo logs on a reloaded copy never puts an older row over a
\* newer one that another process has committed.
ReplayNeverReverts == [][\A p \in Proc, i \in Id :
    /\ pc[p] = "idle" /\ pc'[p] \in {"embed", "save"} /\ flag[p]
    /\ disk[i] \notin {NoRow, redoDel[p][i]} /\ client'[p][i] # NoRow
    => ~ Newer(disk[i], client'[p][i])]_vars

-----------------------------------------------------------------------------
(* The inductive invariant behind the four action properties above.        *)

\* One section at a time, and what it has already emptied.
Sections ==
    /\ \A p, q \in Proc : pc[p] # "idle" /\ pc[q] # "idle" => p = q
    /\ \A p \in Proc :
         /\ pc[p] # "idle" => stage[p] = "up" /\ pendDel[p] = {}
         /\ pc[p] \in {"embed", "save"} => ~ flag[p]
         /\ pc[p] \in {"save", "published"} => pendUp[p] = NoRows
         /\ pc[p] = "published" => client[p] = disk
         /\ stage[p] # "up" => want[p] = NoWants
         /\ stage[p] = "loaded" /\ p \notin missed => client[p] = disk

\* Buffers and logs hold only what the process asked for; a queued removal has
\* evicted the logged upsert.
Logged == \A p \in Proc, i \in Id :
    /\ pendUp[p][i] \in asked[p][i] \cup {NoRow}
    /\ redoUp[p][i] \in asked[p][i] \cup {NoRow}
    /\ redoDel[p][i] # NoRow \/ i \in pendDel[p] => NoRow \in asked[p][i]
    /\ i \in pendDel[p] => redoUp[p][i] = NoRow

\* A commit is out whose writer has not told the others yet.
Untold(p) == \E r \in Proc \ {p} : pc[r] = "published"

\* p has the rows of the file, but for what it asked for itself.
InStep(p) == stage[p] = "up" /\ p \notin missed /\ ~ flag[p] /\ ~ Untold(p)
SyncedAt(p, i) == InStep(p) => client[p][i] \in {disk[i]} \cup asked[p][i]
Synced == \A p \in Proc, i \in Id : SyncedAt(p, i)

\* A standing upsert is buffered, or logged and not older than its row.
StandingAt(p, i) == want[p][i] \in Row =>
    /\ i \notin pendDel[p]
    /\ \/ pendUp[p][i] = want[p][i]
       \/ /\ pendUp[p][i] = NoRow
          /\ redoUp[p][i] = want[p][i]
          /\ ~ flag[p] => ~ Newer(client[p][i], want[p][i])
          /\ flag[p] \/ Untold(p) => ~ Newer(disk[i], want[p][i])
          /\ pc[p] \in {"embed", "save"} => client[p][i] = want[p][i]
Standing == \A p \in Proc, i \in Id : StandingAt(p, i)

\* A row that was only removed is still queued, or the version in the file is
\* the one the log names.
OnlyRemoved(p, i) == asked[p][i] = {NoRow}
RemovedAt(p, i) == OnlyRemoved(p, i) =>
    LET gone == {NoRow, redoDel[p][i]} IN
    /\ InStep(p) /\ client[p][i] = NoRow => disk[i] \in gone
    /\ want[p][i] = NoRow =>
         /\ i \notin pendDel[p] => disk[i] \in gone
         /\ i \notin pendDel[p] /\ ~ flag[p] => client[p][i] \in gone
         /\ i \in pendDel[p] /\ ~ flag[p] =>
              \/ client[p][i] # NoRow /\ disk[i] \in {NoRow, client[p][i]}
              \/ client[p][i] = NoRow /\ disk[i] \in gone
         /\ pc[p] \in {"embed", "save"} => client[p][i] = NoRow
Removed == \A p \in Proc, i \in Id : RemovedAt(p, i)

CopyInv == TypeOK /\ Sections /\ Logged /\ Synced /\ Standing /\ Removed

\* A read answers what the next flush will leave in the copy, unless the process
\* removed a version whose token is later than the one it wrote afterwards.
ReadMatchesFlush == \A p \in Proc, i \in Id :
    Ready(p) /\ ~ Newer(redoDel[p][i], redoUp[p][i]) =>
        ReadById(p, i) = IF pendUp[p][i] # NoRow THEN pendUp[p][i] ELSE Flushed(p)[i]
=============================================================================

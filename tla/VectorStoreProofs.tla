-------------------------- MODULE VectorStoreProofs --------------------------
(***************************************************************************)
(* The vector store's inductive invariant CopyInv and what follows from it.   *)
(* One lemma per action shows that the action preserves CopyInv; its parts    *)
(* Synced, Standing and Removed are stated for one process and one id, so  *)
(* each is shown for the acting process and for the others.                *)
(***************************************************************************)
EXTENDS VectorStore, TLAPS

\* The constants, as the provers want them.
LEMMA Consts == /\ NoRow \notin Row /\ Nothing \notin Row \cup {NoRow}
                /\ NoProc \notin Proc /\ Stored \subseteq Id
  BY NoRowAssumption, NoProcAssumption, StoredAssumption

\* A worker that initializes has the file, or is missed.
LEMMA InitializeStep ==
  ASSUME CopyInv, NEW p \in Proc, Initialize(p)
  PROVE  CopyInv'
<1>1. TypeOK'
  BY Consts DEF CopyInv, TypeOK, Index, Initialize, local, history
<1>2. Sections'
  BY <1>1, Consts DEF CopyInv, TypeOK, Index, Sections, Initialize, local, history
<1>3. Logged'
  BY <1>1, Consts DEF CopyInv, TypeOK, Index, Logged, Initialize, local, history
<1>4. Synced'
  <2> SUFFICES ASSUME NEW q \in Proc, NEW i \in Id PROVE SyncedAt(q, i)'
    BY DEF Synced
  <2>0. SyncedAt(q, i)
    BY DEF CopyInv, Synced
  <2>1. CASE q = p
    BY <2>0, <2>1, <1>1, Consts DEF CopyInv, TypeOK, Index, SyncedAt, InStep, Sections,
       Initialize, local
  <2>2. CASE q # p
    BY <2>0, <2>2, <1>1, Consts DEF CopyInv, TypeOK, Index, SyncedAt, InStep, Untold,
       Initialize, local, history
  <2> QED  BY <2>1, <2>2
<1>5. Standing'
  <2> SUFFICES ASSUME NEW q \in Proc, NEW i \in Id PROVE StandingAt(q, i)'
    BY DEF Standing
  <2>0. StandingAt(q, i) /\ SyncedAt(q, i)
    BY DEF CopyInv, Standing, Synced
  <2>1. CASE q = p
    <3>1. want[p][i] = Nothing
      BY DEF CopyInv, Sections, NoWants, Initialize
    <3> QED  BY <2>1, <3>1, Consts DEF StandingAt, Initialize, history
  <2>2. CASE q # p
    BY <2>0, <2>2, <1>1, Consts DEF CopyInv, TypeOK, Index, Boot, StandingAt, Untold,
       Initialize, local, history
  <2> QED  BY <2>1, <2>2
<1>6. Removed'
  <2> SUFFICES ASSUME NEW q \in Proc, NEW i \in Id PROVE RemovedAt(q, i)'
    BY DEF Removed
  <2>0. RemovedAt(q, i) /\ SyncedAt(q, i)
    BY DEF CopyInv, Removed, Synced
  <2>1. CASE q = p
    <3>1. want[p][i] = Nothing
      BY DEF CopyInv, Sections, NoWants, Initialize
    <3>2. p \notin missed => client[p] = disk
      BY DEF CopyInv, Sections, Initialize
    <3> QED  BY <2>1, <3>1, <3>2, Consts DEF RemovedAt, InStep, Initialize, local, history
  <2>2. CASE q # p
    BY <2>0, <2>2, <1>1, Consts DEF CopyInv, TypeOK, Index, Boot, RemovedAt, OnlyRemoved,
       InStep, Untold, Initialize, local, history
  <2> QED  BY <2>1, <2>2
<1> QED  BY <1>1, <1>2, <1>3, <1>4, <1>5, <1>6 DEF CopyInv

\* A spawned worker has the file, or the master's copy and is missed.
LEMMA SpawnStep ==
  ASSUME CopyInv, NEW p \in Proc, Spawn(p)
  PROVE  CopyInv'
<1>1. TypeOK'
  BY Consts DEF CopyInv, TypeOK, Index, Boot, Cell, Row, Spawn, history
<1>2. Sections'
  BY <1>1, Consts DEF CopyInv, TypeOK, Index, Sections, Spawn, history
<1>3. Logged'
  BY <1>1, Consts DEF CopyInv, TypeOK, Index, Logged, Spawn, history
<1>4. Synced'
  <2> SUFFICES ASSUME NEW q \in Proc, NEW i \in Id PROVE SyncedAt(q, i)'
    BY DEF Synced
  <2>0. SyncedAt(q, i)
    BY DEF CopyInv, Synced
  <2>1. CASE q = p
    BY <2>0, <2>1, <1>1, Consts DEF CopyInv, TypeOK, Index, SyncedAt, InStep, Spawn
  <2>2. CASE q # p
    BY <2>0, <2>2, <1>1, Consts DEF CopyInv, TypeOK, Index, SyncedAt, InStep, Untold, Spawn,
       history
  <2> QED  BY <2>1, <2>2
<1>5. Standing'
  <2> SUFFICES ASSUME NEW q \in Proc, NEW i \in Id PROVE StandingAt(q, i)'
    BY DEF Standing
  <2>0. StandingAt(q, i) /\ SyncedAt(q, i)
    BY DEF CopyInv, Standing, Synced
  <2>1. CASE q = p
    <3>1. want[p][i] = Nothing
      BY DEF CopyInv, Sections, NoWants, Spawn
    <3> QED  BY <2>1, <3>1, Consts DEF StandingAt, Spawn, history
  <2>2. CASE q # p
    BY <2>0, <2>2, <1>1, Consts DEF CopyInv, TypeOK, Index, Boot, StandingAt, Untold, Spawn,
       history
  <2> QED  BY <2>1, <2>2
<1>6. Removed'
  <2> SUFFICES ASSUME NEW q \in Proc, NEW i \in Id PROVE RemovedAt(q, i)'
    BY DEF Removed
  <2>0. RemovedAt(q, i) /\ SyncedAt(q, i)
    BY DEF CopyInv, Removed, Synced
  <2>1. CASE q = p
    <3>1. want[p][i] = Nothing
      BY DEF CopyInv, Sections, NoWants, Spawn
    <3> QED  BY <2>1, <3>1, Consts DEF RemovedAt, InStep, Spawn, history
  <2>2. CASE q # p
    BY <2>0, <2>2, <1>1, Consts DEF CopyInv, TypeOK, Index, Boot, RemovedAt, OnlyRemoved,
       InStep, Untold, Spawn, history
  <2> QED  BY <2>1, <2>2
<1> QED  BY <1>1, <1>2, <1>3, <1>4, <1>5, <1>6 DEF CopyInv

\* A killed process leaves nothing to keep; told or not, the others keep what they had.
LEMMA KillStep ==
  ASSUME CopyInv, NEW p \in Proc, Kill(p)
  PROVE  CopyInv'
<1>1. TypeOK'
  <2>1. flag' \in [Proc -> BOOLEAN] /\ missed' \in SUBSET Proc
    BY DEF CopyInv, TypeOK, Kill, Told
  <2>2. /\ NoRows \in Index /\ NoWants \in [Id -> Cell \cup {Nothing}]
        /\ Unasked \in [Id -> SUBSET (Cell \cup {Nothing})]
    BY DEF NoRows, NoWants, Unasked, Index, Cell
  <2> QED  BY <2>1, <2>2 DEF CopyInv, TypeOK, Kill
<1>2. Sections'
  BY <1>1, Consts DEF CopyInv, TypeOK, Index, Boot, Cell, Sections, Kill, Told
<1>3. Logged'
  BY <1>1, Consts DEF CopyInv, TypeOK, Index, Boot, Cell, Logged, NoRows, Kill
<1>4. Synced'
  <2> SUFFICES ASSUME NEW q \in Proc, NEW i \in Id PROVE SyncedAt(q, i)'
    BY DEF Synced
  <2>0. SyncedAt(q, i)
    BY DEF CopyInv, Synced
  <2>1. CASE q = p
    BY <2>0, <2>1, <1>1, Consts DEF CopyInv, TypeOK, Index, Boot, SyncedAt, InStep, Kill
  <2>2. CASE q # p
    BY <2>0, <2>2, <1>1, Consts DEF CopyInv, TypeOK, Index, Boot, SyncedAt, InStep, Untold,
       Kill, Told
  <2> QED  BY <2>1, <2>2
<1>5. Standing'
  <2> SUFFICES ASSUME NEW q \in Proc, NEW i \in Id PROVE StandingAt(q, i)'
    BY DEF Standing
  <2>0. StandingAt(q, i) /\ SyncedAt(q, i)
    BY DEF CopyInv, Standing, Synced
  <2>1. CASE q = p
    BY <2>0, <2>1, <1>1, Consts DEF CopyInv, TypeOK, Index, Boot, StandingAt, Untold, NoWants,
       Kill
  <2>2. CASE q # p
    BY <2>0, <2>2, <1>1, Consts DEF CopyInv, TypeOK, Index, Boot, StandingAt, Untold, Kill,
       Told
  <2> QED  BY <2>1, <2>2
<1>6. Removed'
  <2> SUFFICES ASSUME NEW q \in Proc, NEW i \in Id PROVE RemovedAt(q, i)'
    BY DEF Removed
  <2>0. RemovedAt(q, i) /\ SyncedAt(q, i)
    BY DEF CopyInv, Removed, Synced
  <2>1. CASE q = p
    BY <2>0, <2>1, <1>1, Consts DEF CopyInv, TypeOK, Index, Boot, RemovedAt, OnlyRemoved,
       InStep, Untold, SyncedAt, Logged, Unasked, Kill
  <2>2. CASE q # p
    BY <2>0, <2>2, <1>1, Consts DEF CopyInv, TypeOK, Index, Boot, RemovedAt, OnlyRemoved,
       InStep, Untold, SyncedAt, Logged, Kill, Told
  <2> QED  BY <2>1, <2>2
<1> QED  BY <1>1, <1>2, <1>3, <1>4, <1>5, <1>6 DEF CopyInv

\* A buffered upsert stands: it is the newest request of its process.
LEMMA UpsertStep ==
  ASSUME CopyInv, NEW p \in Proc, NEW S \in SUBSET Id, Upsert(p, S)
  PROVE  CopyInv'
<1>1. TypeOK'
  BY Consts DEF CopyInv, TypeOK, Index, Boot, Cell, Row, Upsert
<1>2. Sections'
  BY <1>1, Consts DEF CopyInv, TypeOK, Index, Boot, Sections, Upsert, Ready, LockFree
<1>3. Logged'
  BY <1>1, Consts DEF CopyInv, TypeOK, Index, Boot, Logged, Upsert
<1>4. Synced'
  <2> SUFFICES ASSUME NEW q \in Proc, NEW i \in Id PROVE SyncedAt(q, i)'
    BY DEF Synced
  <2>0. SyncedAt(q, i)
    BY DEF CopyInv, Synced
  <2>1. CASE q = p
    BY <2>0, <2>1, <1>1, Consts DEF CopyInv, TypeOK, Index, Boot, SyncedAt, InStep, Untold,
       Upsert
  <2>2. CASE q # p
    BY <2>0, <2>2, <1>1, Consts DEF CopyInv, TypeOK, Index, Boot, SyncedAt, InStep, Untold,
       Upsert
  <2> QED  BY <2>1, <2>2
<1>5. Standing'
  <2> SUFFICES ASSUME NEW q \in Proc, NEW i \in Id PROVE StandingAt(q, i)'
    BY DEF Standing
  <2>0. StandingAt(q, i) /\ SyncedAt(q, i)
    BY DEF CopyInv, Standing, Synced
  <2>1. CASE q = p
    BY <2>0, <2>1, <1>1, Consts DEF CopyInv, TypeOK, Index, Boot, Cell, Row, StandingAt,
       Untold, Upsert
  <2>2. CASE q # p
    BY <2>0, <2>2, <1>1, Consts DEF CopyInv, TypeOK, Index, Boot, Cell, Row, StandingAt,
       Untold, Upsert
  <2> QED  BY <2>1, <2>2
<1>6. Removed'
  <2> SUFFICES ASSUME NEW q \in Proc, NEW i \in Id PROVE RemovedAt(q, i)'
    BY DEF Removed
  <2>0. RemovedAt(q, i) /\ SyncedAt(q, i)
    BY DEF CopyInv, Removed, Synced
  <2>1. CASE q = p
    <3>1. CASE i \in S
      <4>1. PICK now \in {clock, clock + 1} :
              asked' = [asked EXCEPT ![p] = [j \in Id |-> IF j \in S
                THEN @[j] \cup {[seq |-> IF now > lastSeq[p] THEN now ELSE lastSeq[p] + 1,
                                 by |-> p]}
                ELSE @[j]]]
        BY DEF Upsert
      <4>2. \E row \in Row : row \in asked'[p][i]
        <5> DEFINE seq == IF now > lastSeq[p] THEN now ELSE lastSeq[p] + 1
        <5>1. seq \in Nat
          BY DEF CopyInv, TypeOK
        <5>2. [seq |-> seq, by |-> p] \in Row
          BY <5>1 DEF Row
        <5>3. [seq |-> seq, by |-> p] \in asked'[p][i]
          BY <3>1, <4>1 DEF CopyInv, TypeOK
        <5> QED  BY <5>2, <5>3
      <4> QED  BY <2>1, <4>2, Consts DEF RemovedAt, OnlyRemoved
    <3>2. CASE i \notin S
      BY <2>0, <3>2 DEF RemovedAt, OnlyRemoved, InStep, Untold, Upsert
    <3> QED  BY <3>1, <3>2
  <2>2. CASE q # p
    BY <2>0, <2>2, <1>1, Consts DEF CopyInv, TypeOK, Index, Boot, RemovedAt, OnlyRemoved,
       InStep, Untold, SyncedAt, Upsert
  <2> QED  BY <2>1, <2>2
<1> QED  BY <1>1, <1>2, <1>3, <1>4, <1>5, <1>6 DEF CopyInv

\* A queued removal evicts the logged upsert of its id.
LEMMA DeleteStep ==
  ASSUME CopyInv, NEW p \in Proc, NEW S \in SUBSET Id, Delete(p, S)
  PROVE  CopyInv'
<1>1. TypeOK'
  BY Consts DEF CopyInv, TypeOK, Index, Boot, Cell, Row, Delete, AskedGone, Without
<1>2. Sections'
  BY <1>1, Consts DEF CopyInv, TypeOK, Index, Boot, Cell, Row, Sections, Delete, AskedGone,
     Ready, LockFree
<1>3. Logged'
  BY <1>1, Consts DEF CopyInv, TypeOK, Index, Boot, Cell, Row, Logged, Delete, AskedGone,
     Without
<1>4. Synced'
  <2> SUFFICES ASSUME NEW q \in Proc, NEW i \in Id PROVE SyncedAt(q, i)'
    BY DEF Synced
  <2>0. SyncedAt(q, i)
    BY DEF CopyInv, Synced
  <2>1. CASE q = p
    BY <2>0, <2>1, <1>1, Consts DEF CopyInv, TypeOK, Index, Boot, SyncedAt, InStep, Untold,
       Delete, AskedGone
  <2>2. CASE q # p
    BY <2>0, <2>2, <1>1, Consts DEF CopyInv, TypeOK, Index, Boot, SyncedAt, InStep, Untold,
       Delete, AskedGone
  <2> QED  BY <2>1, <2>2
<1>5. Standing'
  <2> SUFFICES ASSUME NEW q \in Proc, NEW i \in Id PROVE StandingAt(q, i)'
    BY DEF Standing
  <2>0. StandingAt(q, i) /\ SyncedAt(q, i)
    BY DEF CopyInv, Standing, Synced
  <2>1. CASE q = p
    BY <2>0, <2>1, <1>1, Consts DEF CopyInv, TypeOK, Index, Boot, StandingAt, Untold, Newer,
       Delete, AskedGone, Without
  <2>2. CASE q # p
    BY <2>0, <2>2, <1>1, Consts DEF CopyInv, TypeOK, Index, Boot, StandingAt, Untold, Newer,
       Delete, AskedGone
  <2> QED  BY <2>1, <2>2
<1>6. Removed'
  <2> SUFFICES ASSUME NEW q \in Proc, NEW i \in Id PROVE RemovedAt(q, i)'
    BY DEF Removed
  <2>0. RemovedAt(q, i) /\ SyncedAt(q, i)
    BY DEF CopyInv, Removed, Synced
  <2>1. CASE q = p
    BY <2>0, <2>1, <1>1, Consts DEF CopyInv, TypeOK, Index, Boot, RemovedAt, OnlyRemoved,
       InStep, Untold, SyncedAt, Logged, Sections, Delete, AskedGone, Ready, LockFree
  <2>2. CASE q # p
    BY <2>0, <2>2, <1>1, Consts DEF CopyInv, TypeOK, Index, Boot, RemovedAt, OnlyRemoved,
       InStep, Untold, SyncedAt, Logged, Sections, Delete, AskedGone
  <2> QED  BY <2>1, <2>2
<1> QED  BY <1>1, <1>2, <1>3, <1>4, <1>5, <1>6 DEF CopyInv

\* An eager removal starts from a fresh copy and logs the version it removed.
LEMMA DeleteEagerStep ==
  ASSUME CopyInv, NEW p \in Proc, NEW S \in SUBSET Id, DeleteEager(p, S)
  PROVE  CopyInv'
<1>1. TypeOK'
  BY Consts DEF CopyInv, TypeOK, Index, Boot, Cell, Row, NoRows, NoWants, DeleteEager,
     AskedGone, Without, Fresh, Reloaded
<1>2. Sections'
  BY <1>1, Consts DEF CopyInv, TypeOK, Index, Boot, Cell, Row, Sections, NoRows, DeleteEager,
     AskedGone, Reloaded, Ready, LockFree
<1>3. Logged'
  BY <1>1, Consts DEF CopyInv, TypeOK, Index, Boot, Cell, Row, Logged, NoRows, DeleteEager,
     AskedGone, Without
<1>4. Synced'
  <2> SUFFICES ASSUME NEW q \in Proc, NEW i \in Id PROVE SyncedAt(q, i)'
    BY DEF Synced
  <2>0. SyncedAt(q, i)
    BY DEF CopyInv, Synced
  <2>1. CASE q = p
    BY <2>0, <2>1, <1>1, Consts DEF CopyInv, TypeOK, Index, Boot, SyncedAt, InStep, Untold,
       Sections, DeleteEager, AskedGone, Without, Fresh, Reloaded
  <2>2. CASE q # p
    BY <2>0, <2>2, <1>1, Consts DEF CopyInv, TypeOK, Index, Boot, SyncedAt, InStep, Untold,
       Sections, DeleteEager, AskedGone, Reloaded
  <2> QED  BY <2>1, <2>2
<1>5. Standing'
  <2> SUFFICES ASSUME NEW q \in Proc, NEW i \in Id PROVE StandingAt(q, i)'
    BY DEF Standing
  <2>0. StandingAt(q, i) /\ SyncedAt(q, i)
    BY DEF CopyInv, Standing, Synced
  <2>1. CASE q = p
    BY <2>0, <2>1, <1>1, Consts DEF CopyInv, TypeOK, Index, Boot, StandingAt, Untold, Newer,
       NoRows, NoWants, Sections, DeleteEager, AskedGone, Without, Fresh, Reloaded
  <2>2. CASE q # p
    BY <2>0, <2>2, <1>1, Consts DEF CopyInv, TypeOK, Index, Boot, StandingAt, Untold, Newer,
       NoRows, NoWants, DeleteEager, AskedGone, Reloaded
  <2> QED  BY <2>1, <2>2
<1>6. Removed'
  <2> SUFFICES ASSUME NEW q \in Proc, NEW i \in Id PROVE RemovedAt(q, i)'
    BY DEF Removed
  <2>0. RemovedAt(q, i) /\ SyncedAt(q, i)
    BY DEF CopyInv, Removed, Synced
  <2>1. CASE q = p
    BY <2>0, <2>1, <1>1, Consts DEF CopyInv, TypeOK, Index, Boot, RemovedAt, OnlyRemoved,
       InStep, Untold, SyncedAt, Logged, Sections, Unasked, NoWants, DeleteEager, AskedGone,
       Without, Fresh, Reloaded, Ready, LockFree
  <2>2. CASE q # p
    BY <2>0, <2>2, <1>1, Consts DEF CopyInv, TypeOK, Index, Boot, RemovedAt, OnlyRemoved,
       InStep, Untold, SyncedAt, Logged, Sections, Unasked, NoWants, DeleteEager, AskedGone,
       Reloaded
  <2> QED  BY <2>1, <2>2
<1> QED  BY <1>1, <1>2, <1>3, <1>4, <1>5, <1>6 DEF CopyInv

\* An abort ends the requests it gives up.
LEMMA DropPendingStep ==
  ASSUME CopyInv, NEW p \in Proc, DropPending(p)
  PROVE  CopyInv'
<1>1. TypeOK'
  BY Consts DEF CopyInv, TypeOK, Index, Cell, NoRows, DropPending, shared
<1>2. Sections'
  BY <1>1, Consts DEF CopyInv, TypeOK, Index, Sections, NoWants, DropPending, shared
<1>3. Logged'
  BY <1>1, Consts DEF CopyInv, TypeOK, Index, Logged, NoRows, DropPending
<1>4. Synced'
  <2> SUFFICES ASSUME NEW q \in Proc, NEW i \in Id PROVE SyncedAt(q, i)'
    BY DEF Synced
  <2>0. SyncedAt(q, i)
    BY DEF CopyInv, Synced
  <2>1. CASE q = p
    BY <2>0, <2>1, <1>1, Consts DEF CopyInv, TypeOK, Index, SyncedAt, InStep, Untold,
       DropPending, shared
  <2>2. CASE q # p
    BY <2>0, <2>2, <1>1, Consts DEF CopyInv, TypeOK, Index, SyncedAt, InStep, Untold,
       DropPending, shared
  <2> QED  BY <2>1, <2>2
<1>5. Standing'
  <2> SUFFICES ASSUME NEW q \in Proc, NEW i \in Id PROVE StandingAt(q, i)'
    BY DEF Standing
  <2>0. StandingAt(q, i) /\ SyncedAt(q, i)
    BY DEF CopyInv, Standing, Synced
  <2>1. CASE q = p
    BY <2>0, <2>1, <1>1, Consts DEF CopyInv, TypeOK, Index, Boot, StandingAt, Untold, NoRows,
       DropPending, shared
  <2>2. CASE q # p
    BY <2>0, <2>2, <1>1, Consts DEF CopyInv, TypeOK, Index, Boot, StandingAt, Untold,
       DropPending, shared
  <2> QED  BY <2>1, <2>2
<1>6. Removed'
  <2> SUFFICES ASSUME NEW q \in Proc, NEW i \in Id PROVE RemovedAt(q, i)'
    BY DEF Removed
  <2>0. RemovedAt(q, i) /\ SyncedAt(q, i)
    BY DEF CopyInv, Removed, Synced
  <2>1. CASE q = p
    BY <2>0, <2>1, <1>1, Consts DEF CopyInv, TypeOK, Index, Boot, RemovedAt, OnlyRemoved,
       InStep, Untold, DropPending, shared
  <2>2. CASE q # p
    BY <2>0, <2>2, <1>1, Consts DEF CopyInv, TypeOK, Index, Boot, RemovedAt, OnlyRemoved,
       InStep, Untold, DropPending, shared
  <2> QED  BY <2>1, <2>2
<1> QED  BY <1>1, <1>2, <1>3, <1>4, <1>5, <1>6 DEF CopyInv

\* A read only brings the copy in step with the file.
LEMMA ReadStep ==
  ASSUME CopyInv, NEW p \in Proc, Read(p)
  PROVE  CopyInv'
<1>1. TypeOK'
  BY Consts DEF CopyInv, TypeOK, Index, Boot, Cell, Read, Reloaded, history
<1>2. Sections'
  BY <1>1, Consts DEF CopyInv, TypeOK, Index, Boot, Cell, Sections, Read, Reloaded, history
<1>3. Logged'
  BY <1>1, Consts DEF CopyInv, TypeOK, Index, Boot, Cell, Logged, Read, history
<1>4. Synced'
  <2> SUFFICES ASSUME NEW q \in Proc, NEW i \in Id PROVE SyncedAt(q, i)'
    BY DEF Synced
  <2>0. SyncedAt(q, i)
    BY DEF CopyInv, Synced
  <2>1. CASE q = p
    BY <2>0, <2>1, <1>1, Consts DEF CopyInv, TypeOK, Index, Boot, SyncedAt, Read
  <2>2. CASE q # p
    BY <2>0, <2>2, <1>1, Consts DEF CopyInv, TypeOK, Index, Boot, SyncedAt, InStep, Untold,
       Read, Reloaded, history
  <2> QED  BY <2>1, <2>2
<1>5. Standing'
  <2> SUFFICES ASSUME NEW q \in Proc, NEW i \in Id PROVE StandingAt(q, i)'
    BY DEF Standing
  <2>0. StandingAt(q, i) /\ SyncedAt(q, i)
    BY DEF CopyInv, Standing, Synced
  <2>1. CASE q = p
    BY <2>0, <2>1, <1>1, Consts DEF CopyInv, TypeOK, Index, Boot, StandingAt, Untold, Sections,
       Read, history
  <2>2. CASE q # p
    BY <2>0, <2>2, <1>1, Consts DEF CopyInv, TypeOK, Index, Boot, StandingAt, Untold, Read,
       Reloaded, history
  <2> QED  BY <2>1, <2>2
<1>6. Removed'
  <2> SUFFICES ASSUME NEW q \in Proc, NEW i \in Id PROVE RemovedAt(q, i)'
    BY DEF Removed
  <2>0. RemovedAt(q, i) /\ SyncedAt(q, i)
    BY DEF CopyInv, Removed, Synced
  <2>1. CASE q = p
    BY <2>0, <2>1, <1>1, Consts DEF CopyInv, TypeOK, Index, Boot, RemovedAt, OnlyRemoved,
       InStep, Untold, SyncedAt, Logged, Sections, Read, history
  <2>2. CASE q # p
    BY <2>0, <2>2, <1>1, Consts DEF CopyInv, TypeOK, Index, Boot, RemovedAt, OnlyRemoved,
       InStep, Untold, SyncedAt, Logged, Read, Reloaded, history
  <2> QED  BY <2>1, <2>2
<1> QED  BY <1>1, <1>2, <1>3, <1>4, <1>5, <1>6 DEF CopyInv

\* The embedded rows enter the copy and the log together.
LEMMA EmbedStep ==
  ASSUME CopyInv, NEW p \in Proc, Embed(p)
  PROVE  CopyInv'
<1>1. TypeOK'
  BY Consts DEF CopyInv, TypeOK, Index, Cell, NoRows, Embed, shared, history
<1>2. Sections'
  BY <1>1, Consts DEF CopyInv, TypeOK, Index, Sections, Embed, shared, history
<1>3. Logged'
  <2> SUFFICES ASSUME NEW q \in Proc, NEW i \in Id
               PROVE  /\ pendUp'[q][i] \in asked'[q][i] \cup {NoRow}
                      /\ redoUp'[q][i] \in asked'[q][i] \cup {NoRow}
                      /\ redoDel'[q][i] # NoRow \/ i \in pendDel'[q] => NoRow \in asked'[q][i]
                      /\ i \in pendDel'[q] => redoUp'[q][i] = NoRow
    BY DEF Logged
  <2>1. CASE q = p
    <3>1. /\ pendDel'[p] = {} /\ asked' = asked /\ redoDel' = redoDel /\ pendUp'[p] = NoRows
          /\ redoUp'[p][i] = IF pendUp[p][i] # NoRow THEN pendUp[p][i] ELSE redoUp[p][i]
      BY DEF CopyInv, TypeOK, Sections, Embed, history
    <3> QED  BY <2>1, <3>1 DEF CopyInv, Logged, NoRows
  <2>2. CASE q # p
    BY <2>2 DEF CopyInv, Logged, Embed, history
  <2> QED  BY <2>1, <2>2
<1>4. Synced'
  <2> SUFFICES ASSUME NEW q \in Proc, NEW i \in Id PROVE SyncedAt(q, i)'
    BY DEF Synced
  <2>0. SyncedAt(q, i)
    BY DEF CopyInv, Synced
  <2>1. CASE q = p
    <3>1. pendUp[p][i] \in asked[p][i] \cup {NoRow}
      BY DEF CopyInv, Logged
    <3>2. /\ client'[p][i] = IF pendUp[p][i] # NoRow THEN pendUp[p][i] ELSE client[p][i]
          /\ InStep(p)' => InStep(p)
      BY DEF CopyInv, TypeOK, InStep, Untold, Embed, shared
    <3> QED  BY <2>0, <2>1, <3>1, <3>2 DEF SyncedAt, Embed, shared, history
  <2>2. CASE q # p
    BY <2>0, <2>2, <1>1, Consts DEF CopyInv, TypeOK, Index, SyncedAt, InStep, Untold, Embed,
       shared, history
  <2> QED  BY <2>1, <2>2
<1>5. Standing'
  <2> SUFFICES ASSUME NEW q \in Proc, NEW i \in Id PROVE StandingAt(q, i)'
    BY DEF Standing
  <2>0. StandingAt(q, i) /\ SyncedAt(q, i)
    BY DEF CopyInv, Standing, Synced
  <2>1. CASE q = p
    <3>1. ~ flag'[p] /\ ~ Untold(p)'
      BY DEF CopyInv, Sections, Untold, Embed, shared
    <3>2. want[p][i] \in Row => ~ Newer(want[p][i], want[p][i])
      BY DEF Row, Newer
    <3>3. /\ want' = want /\ pendDel' = pendDel /\ pendUp'[p][i] = NoRow
          /\ redoUp'[p][i] = IF pendUp[p][i] # NoRow THEN pendUp[p][i] ELSE redoUp[p][i]
          /\ client'[p][i] = IF pendUp[p][i] # NoRow THEN pendUp[p][i] ELSE client[p][i]
      BY DEF CopyInv, TypeOK, Embed, NoRows, history
    <3> QED  BY <2>0, <2>1, <3>1, <3>2, <3>3 DEF StandingAt, Embed
  <2>2. CASE q # p
    BY <2>0, <2>2, <1>1, Consts DEF CopyInv, TypeOK, Index, Boot, StandingAt, Untold, Embed,
       shared, history
  <2> QED  BY <2>1, <2>2
<1>6. Removed'
  <2> SUFFICES ASSUME NEW q \in Proc, NEW i \in Id PROVE RemovedAt(q, i)'
    BY DEF Removed
  <2>0. RemovedAt(q, i) /\ SyncedAt(q, i)
    BY DEF CopyInv, Removed, Synced
  <2>1. CASE q = p
    <3>1. OnlyRemoved(p, i) => pendUp[p][i] = NoRow
      BY DEF CopyInv, Logged, OnlyRemoved
    <3>2. /\ pendUp[p][i] = NoRow => client'[p][i] = client[p][i]
          /\ Untold(p)' => Untold(p)
      BY DEF Embed, Untold
    <3> QED  BY <2>0, <3>1 DEF RemovedAt, OnlyRemoved, InStep, Untold, Embed, shared,
                history
  <2>2. CASE q # p
    BY <2>0, <2>2, <1>1, Consts DEF CopyInv, TypeOK, Index, Boot, RemovedAt, OnlyRemoved,
       InStep, Untold, Embed, shared, history
  <2> QED  BY <2>1, <2>2
<1> QED  BY <1>1, <1>2, <1>3, <1>4, <1>5, <1>6 DEF CopyInv

\* A failed embedding or save leaves the buffers and the logs.
LEMMA FailsStep ==
  ASSUME CopyInv, NEW p \in Proc, Fails(p)
  PROVE  CopyInv'
<1>1. TypeOK'
  BY Consts DEF CopyInv, TypeOK, Index, Boot, Fails, history
<1>2. Sections'
  BY <1>1, Consts DEF CopyInv, TypeOK, Index, Boot, Sections, Fails, history
<1>3. Logged'
  BY <1>1, Consts DEF CopyInv, TypeOK, Index, Boot, Logged, Fails, history
<1>4. Synced'
  <2> SUFFICES ASSUME NEW q \in Proc, NEW i \in Id PROVE SyncedAt(q, i)'
    BY DEF Synced
  <2>0. SyncedAt(q, i)
    BY DEF CopyInv, Synced
  <2>1. CASE q = p
    BY <2>0, <2>1, <1>1, Consts DEF CopyInv, TypeOK, Index, Boot, SyncedAt, InStep, Untold,
       Fails, history
  <2>2. CASE q # p
    BY <2>0, <2>2, <1>1, Consts DEF CopyInv, TypeOK, Index, Boot, SyncedAt, InStep, Untold,
       Fails, history
  <2> QED  BY <2>1, <2>2
<1>5. Standing'
  <2> SUFFICES ASSUME NEW q \in Proc, NEW i \in Id PROVE StandingAt(q, i)'
    BY DEF Standing
  <2>0. StandingAt(q, i) /\ SyncedAt(q, i)
    BY DEF CopyInv, Standing, Synced
  <2>1. CASE q = p
    BY <2>0, <2>1, <1>1, Consts DEF CopyInv, TypeOK, Index, Boot, StandingAt, Untold, Fails,
       history
  <2>2. CASE q # p
    BY <2>0, <2>2, <1>1, Consts DEF CopyInv, TypeOK, Index, Boot, StandingAt, Untold, Fails,
       history
  <2> QED  BY <2>1, <2>2
<1>6. Removed'
  <2> SUFFICES ASSUME NEW q \in Proc, NEW i \in Id PROVE RemovedAt(q, i)'
    BY DEF Removed
  <2>0. RemovedAt(q, i) /\ SyncedAt(q, i)
    BY DEF CopyInv, Removed, Synced
  <2>1. CASE q = p
    BY <2>0, <2>1, <1>1, Consts DEF CopyInv, TypeOK, Index, Boot, RemovedAt, OnlyRemoved,
       InStep, Untold, SyncedAt, Fails, history
  <2>2. CASE q # p
    BY <2>0, <2>2, <1>1, Consts DEF CopyInv, TypeOK, Index, Boot, RemovedAt, OnlyRemoved,
       InStep, Untold, SyncedAt, Fails, history
  <2> QED  BY <2>1, <2>2
<1> QED  BY <1>1, <1>2, <1>3, <1>4, <1>5, <1>6 DEF CopyInv

\* A save ends the requests of the other processes it overtakes.
LEMMA PublishStep ==
  ASSUME CopyInv, NEW p \in Proc, Publish(p)
  PROVE  CopyInv'
<1>1. TypeOK'
  BY Consts DEF CopyInv, TypeOK, Index, Boot, Publish
<1>2. Sections'
  BY <1>1, Consts DEF CopyInv, TypeOK, Index, Boot, Sections, NoWants, Publish
<1>3. Logged'
  BY <1>1, Consts DEF CopyInv, TypeOK, Index, Boot, Logged, Publish
<1>4. Synced'
  <2> SUFFICES ASSUME NEW q \in Proc, NEW i \in Id PROVE SyncedAt(q, i)'
    BY DEF Synced
  <2>0. SyncedAt(q, i)
    BY DEF CopyInv, Synced
  <2>1. CASE q = p
    BY <2>0, <2>1, <1>1, Consts DEF CopyInv, TypeOK, Index, Boot, SyncedAt, Publish
  <2>2. CASE q # p
    BY <2>0, <2>2, <1>1, Consts DEF CopyInv, TypeOK, Index, Boot, SyncedAt, InStep, Untold,
       Publish
  <2> QED  BY <2>1, <2>2
<1>5. Standing'
  <2> SUFFICES ASSUME NEW q \in Proc, NEW i \in Id PROVE StandingAt(q, i)'
    BY DEF Standing
  <2>0. StandingAt(q, i) /\ SyncedAt(q, i)
    BY DEF CopyInv, Standing, Synced
  <2>1. CASE q = p
    BY <2>0, <2>1, <1>1, Consts DEF CopyInv, TypeOK, Index, Boot, StandingAt, Sections, Publish
  <2>2. CASE q # p
    BY <2>0, <2>2, <1>1, Consts DEF CopyInv, TypeOK, Index, Boot, StandingAt, Publish,
       Overtaken
  <2> QED  BY <2>1, <2>2
<1>6. Removed'
  <2> SUFFICES ASSUME NEW q \in Proc, NEW i \in Id PROVE RemovedAt(q, i)'
    BY DEF Removed
  <2>0. RemovedAt(q, i) /\ SyncedAt(q, i)
    BY DEF CopyInv, Removed, Synced
  <2>1. CASE q = p
    BY <2>0, <2>1, <1>1, Consts DEF CopyInv, TypeOK, Index, Boot, RemovedAt, OnlyRemoved,
       InStep, Untold, SyncedAt, Publish
  <2>2. CASE q # p
    BY <2>0, <2>2, <1>1, Consts DEF CopyInv, TypeOK, Index, Boot, RemovedAt, OnlyRemoved,
       InStep, Untold, SyncedAt, Publish, Overtaken
  <2> QED  BY <2>1, <2>2
<1> QED  BY <1>1, <1>2, <1>3, <1>4, <1>5, <1>6 DEF CopyInv

\* The notification flags every other process and retires the logs.
LEMMA NotifyStep ==
  ASSUME CopyInv, NEW p \in Proc, Notify(p)
  PROVE  CopyInv'
<1>1. TypeOK'
  BY Consts DEF CopyInv, TypeOK, Index, Boot, Cell, NoRows, NoWants, Unasked, Notify, Retire
<1>2. Sections'
  BY <1>1, Consts DEF CopyInv, TypeOK, Index, Boot, Sections, Notify, Retire
<1>3. Logged'
  <2> SUFFICES ASSUME NEW q \in Proc, NEW i \in Id
               PROVE  /\ pendUp'[q][i] \in asked'[q][i] \cup {NoRow}
                      /\ redoUp'[q][i] \in asked'[q][i] \cup {NoRow}
                      /\ redoDel'[q][i] # NoRow \/ i \in pendDel'[q] => NoRow \in asked'[q][i]
                      /\ i \in pendDel'[q] => redoUp'[q][i] = NoRow
    BY DEF Logged
  <2>1. CASE q = p
    <3>1. pendUp[p] = NoRows /\ pendDel[p] = {}
      BY DEF CopyInv, Sections, Notify
    <3> QED  BY <2>1, <3>1 DEF CopyInv, TypeOK, NoRows, Notify, Retire
  <2>2. CASE q # p
    BY <2>2 DEF CopyInv, Logged, Notify, Retire
  <2> QED  BY <2>1, <2>2
<1>4. Synced'
  <2> SUFFICES ASSUME NEW q \in Proc, NEW i \in Id PROVE SyncedAt(q, i)'
    BY DEF Synced
  <2>0. SyncedAt(q, i)
    BY DEF CopyInv, Synced
  <2>1. CASE q = p
    BY <2>0, <2>1, <1>1, Consts DEF CopyInv, TypeOK, Index, Boot, SyncedAt, Sections, Notify,
       Retire
  <2>2. CASE q # p
    BY <2>0, <2>2, <1>1, Consts DEF CopyInv, TypeOK, Index, Boot, SyncedAt, InStep, Notify,
       Retire
  <2> QED  BY <2>1, <2>2
<1>5. Standing'
  <2> SUFFICES ASSUME NEW q \in Proc, NEW i \in Id PROVE StandingAt(q, i)'
    BY DEF Standing
  <2>0. StandingAt(q, i) /\ SyncedAt(q, i)
    BY DEF CopyInv, Standing, Synced
  <2>1. CASE q = p
    BY <2>0, <2>1, <1>1, Consts DEF CopyInv, TypeOK, Index, Boot, StandingAt, NoWants, Notify,
       Retire
  <2>2. CASE q # p
    BY <2>0, <2>2, <1>1, Consts DEF CopyInv, TypeOK, Index, Boot, StandingAt, Untold, Notify,
       Retire
  <2> QED  BY <2>1, <2>2
<1>6. Removed'
  <2> SUFFICES ASSUME NEW q \in Proc, NEW i \in Id PROVE RemovedAt(q, i)'
    BY DEF Removed
  <2>0. RemovedAt(q, i) /\ SyncedAt(q, i)
    BY DEF CopyInv, Removed, Synced
  <2>1. CASE q = p
    BY <2>0, <2>1, <1>1, Consts DEF CopyInv, TypeOK, Index, Boot, RemovedAt, OnlyRemoved,
       InStep, Untold, SyncedAt, Unasked, Notify, Retire
  <2>2. CASE q # p
    <3>1. stage[q] = "up" => flag'[q] \/ FALSE
      BY <2>2 DEF Notify
    <3>2. stage[q] # "up" => want[q][i] = Nothing
      BY DEF CopyInv, Sections, NoWants
    <3>3. flag[q] => flag'[q]
      BY <2>2 DEF Notify
    <3>4. UNCHANGED <<disk, client[q], redoDel[q], pendDel[q], want[q], asked[q], pc[q], stage>>
      BY <2>2 DEF Notify, Retire
    <3> QED  BY <2>0, <3>1, <3>3, <3>4 DEF RemovedAt, OnlyRemoved, InStep
  <2> QED  BY <2>1, <2>2
<1> QED  BY <1>1, <1>2, <1>3, <1>4, <1>5, <1>6 DEF CopyInv

\* A failed notification retires the logs too; those not told are missed.
LEMMA NotifyFailsStep ==
  ASSUME CopyInv, NEW p \in Proc, NotifyFails(p)
  PROVE  CopyInv'
<1>1. TypeOK'
  BY Consts DEF CopyInv, TypeOK, Index, Boot, Cell, Row, NoRows, NoWants, Unasked, NotifyFails,
     Retire, Told
<1>2. Sections'
  BY <1>1, Consts DEF CopyInv, TypeOK, Index, Boot, Cell, Row, Sections, NotifyFails, Retire,
     Told
<1>3. Logged'
  <2> SUFFICES ASSUME NEW q \in Proc, NEW i \in Id
               PROVE  /\ pendUp'[q][i] \in asked'[q][i] \cup {NoRow}
                      /\ redoUp'[q][i] \in asked'[q][i] \cup {NoRow}
                      /\ redoDel'[q][i] # NoRow \/ i \in pendDel'[q] => NoRow \in asked'[q][i]
                      /\ i \in pendDel'[q] => redoUp'[q][i] = NoRow
    BY DEF Logged
  <2>1. CASE q = p
    <3>1. pendUp[p] = NoRows /\ pendDel[p] = {}
      BY DEF CopyInv, Sections, NotifyFails
    <3> QED  BY <2>1, <3>1 DEF CopyInv, TypeOK, NoRows, NotifyFails, Retire
  <2>2. CASE q # p
    BY <2>2 DEF CopyInv, Logged, NotifyFails, Retire
  <2> QED  BY <2>1, <2>2
<1>4. Synced'
  <2> SUFFICES ASSUME NEW q \in Proc, NEW i \in Id PROVE SyncedAt(q, i)'
    BY DEF Synced
  <2>0. SyncedAt(q, i)
    BY DEF CopyInv, Synced
  <2>1. CASE q = p
    BY <2>0, <2>1, <1>1, Consts DEF CopyInv, TypeOK, Index, Boot, SyncedAt, InStep, Sections,
       NotifyFails, Retire
  <2>2. CASE q # p
    BY <2>0, <2>2, <1>1, Consts DEF CopyInv, TypeOK, Index, Boot, SyncedAt, InStep,
       NotifyFails, Retire, Told
  <2> QED  BY <2>1, <2>2
<1>5. Standing'
  <2> SUFFICES ASSUME NEW q \in Proc, NEW i \in Id PROVE StandingAt(q, i)'
    BY DEF Standing
  <2>0. StandingAt(q, i) /\ SyncedAt(q, i)
    BY DEF CopyInv, Standing, Synced
  <2>1. CASE q = p
    BY <2>0, <2>1, <1>1, Consts DEF CopyInv, TypeOK, Index, Boot, StandingAt, Untold, Newer,
       NoWants, NotifyFails, Retire
  <2>2. CASE q # p
    BY <2>0, <2>2, <1>1, Consts DEF CopyInv, TypeOK, Index, Boot, StandingAt, Untold, Newer,
       NotifyFails, Retire, Told
  <2> QED  BY <2>1, <2>2
<1>6. Removed'
  <2> SUFFICES ASSUME NEW q \in Proc, NEW i \in Id PROVE RemovedAt(q, i)'
    BY DEF Removed
  <2>0. RemovedAt(q, i) /\ SyncedAt(q, i)
    BY DEF CopyInv, Removed, Synced
  <2>1. CASE q = p
    BY <2>0, <2>1, <1>1, Consts DEF CopyInv, TypeOK, Index, Boot, RemovedAt, OnlyRemoved,
       InStep, Untold, SyncedAt, Logged, Sections, Unasked, NotifyFails, Retire
  <2>2. CASE q # p
    <3>1. stage[q] = "up" => flag'[q] \/ q \in missed'
      BY <2>2 DEF NotifyFails, Told
    <3>2. stage[q] # "up" => want[q][i] = Nothing
      BY DEF CopyInv, Sections, NoWants
    <3>3. flag[q] => flag'[q]
      BY DEF NotifyFails, Told
    <3>4. UNCHANGED <<disk, client[q], redoDel[q], pendDel[q], want[q], asked[q], pc[q], stage>>
      BY <2>2 DEF NotifyFails, Retire
    <3> QED  BY <2>0, <3>1, <3>3, <3>4 DEF RemovedAt, OnlyRemoved, InStep
  <2> QED  BY <2>1, <2>2
<1> QED  BY <1>1, <1>2, <1>3, <1>4, <1>5, <1>6 DEF CopyInv

\* A drop empties the file and every buffer of its process.
LEMMA DropStep ==
  ASSUME CopyInv, NEW p \in Proc, Drop(p)
  PROVE  CopyInv'
<1>1. TypeOK'
  BY Consts DEF CopyInv, TypeOK, Index, Boot, Cell, NoRows, NoWants, Drop, ClearBuffers
<1>2. Sections'
  BY <1>1, Consts DEF CopyInv, TypeOK, Index, Boot, Cell, Sections, Drop, ClearBuffers, Ready,
     LockFree
<1>3. Logged'
  BY <1>1, Consts DEF CopyInv, TypeOK, Index, Boot, Cell, Logged, NoRows, Drop, ClearBuffers
<1>4. Synced'
  <2> SUFFICES ASSUME NEW q \in Proc, NEW i \in Id PROVE SyncedAt(q, i)'
    BY DEF Synced
  <2>0. SyncedAt(q, i)
    BY DEF CopyInv, Synced
  <2>1. CASE q = p
    BY <2>0, <2>1, <1>1, Consts DEF CopyInv, TypeOK, Index, Boot, SyncedAt, Drop
  <2>2. CASE q # p
    BY <2>0, <2>2, <1>1, Consts DEF CopyInv, TypeOK, Index, Boot, SyncedAt, InStep, Untold,
       Drop
  <2> QED  BY <2>1, <2>2
<1>5. Standing'
  <2> SUFFICES ASSUME NEW q \in Proc, NEW i \in Id PROVE StandingAt(q, i)'
    BY DEF Standing
  <2>0. StandingAt(q, i) /\ SyncedAt(q, i)
    BY DEF CopyInv, Standing, Synced
  <2>1. CASE q = p
    BY <2>0, <2>1, <1>1, Consts DEF CopyInv, TypeOK, Index, Boot, StandingAt, Untold, NoWants,
       Drop, ClearBuffers
  <2>2. CASE q # p
    BY <2>0, <2>2, <1>1, Consts DEF CopyInv, TypeOK, Index, Boot, StandingAt, Untold, Newer,
       NoRows, Drop, ClearBuffers
  <2> QED  BY <2>1, <2>2
<1>6. Removed'
  <2> SUFFICES ASSUME NEW q \in Proc, NEW i \in Id PROVE RemovedAt(q, i)'
    BY DEF Removed
  <2>0. RemovedAt(q, i) /\ SyncedAt(q, i)
    BY DEF CopyInv, Removed, Synced
  <2>1. CASE q = p
    BY <2>0, <2>1, <1>1, Consts DEF CopyInv, TypeOK, Index, Boot, RemovedAt, OnlyRemoved,
       InStep, Untold, SyncedAt, Logged, NoRows, Drop
  <2>2. CASE q # p
    BY <2>0, <2>2, <1>1, Consts DEF CopyInv, TypeOK, Index, Boot, RemovedAt, OnlyRemoved,
       InStep, Untold, SyncedAt, Logged, NoRows, Drop, ClearBuffers
  <2> QED  BY <2>1, <2>2
<1> QED  BY <1>1, <1>2, <1>3, <1>4, <1>5, <1>6 DEF CopyInv

\* A failed drop has emptied the buffers only.
LEMMA DropFailsStep ==
  ASSUME CopyInv, NEW p \in Proc, DropFails(p)
  PROVE  CopyInv'
<1>1. TypeOK'
  BY Consts DEF CopyInv, TypeOK, Index, Boot, Cell, NoRows, NoWants, DropFails, ClearBuffers
<1>2. Sections'
  BY <1>1, Consts DEF CopyInv, TypeOK, Index, Boot, Cell, Sections, DropFails, ClearBuffers
<1>3. Logged'
  BY <1>1, Consts DEF CopyInv, TypeOK, Index, Boot, Cell, Logged, NoRows, DropFails,
     ClearBuffers
<1>4. Synced'
  <2> SUFFICES ASSUME NEW q \in Proc, NEW i \in Id PROVE SyncedAt(q, i)'
    BY DEF Synced
  <2>0. SyncedAt(q, i)
    BY DEF CopyInv, Synced
  <2>1. CASE q = p
    BY <2>0, <2>1, <1>1, Consts DEF CopyInv, TypeOK, Index, Boot, SyncedAt, InStep, Untold,
       DropFails, ClearBuffers
  <2>2. CASE q # p
    BY <2>0, <2>2, <1>1, Consts DEF CopyInv, TypeOK, Index, Boot, SyncedAt, InStep, Untold,
       DropFails, ClearBuffers
  <2> QED  BY <2>1, <2>2
<1>5. Standing'
  <2> SUFFICES ASSUME NEW q \in Proc, NEW i \in Id PROVE StandingAt(q, i)'
    BY DEF Standing
  <2>0. StandingAt(q, i) /\ SyncedAt(q, i)
    BY DEF CopyInv, Standing, Synced
  <2>1. CASE q = p
    BY <2>0, <2>1, <1>1, Consts DEF CopyInv, TypeOK, Index, Boot, StandingAt, Untold, NoWants,
       DropFails, ClearBuffers
  <2>2. CASE q # p
    BY <2>0, <2>2, <1>1, Consts DEF CopyInv, TypeOK, Index, Boot, StandingAt, Untold,
       DropFails, ClearBuffers
  <2> QED  BY <2>1, <2>2
<1>6. Removed'
  <2> SUFFICES ASSUME NEW q \in Proc, NEW i \in Id PROVE RemovedAt(q, i)'
    BY DEF Removed
  <2>0. RemovedAt(q, i) /\ SyncedAt(q, i)
    BY DEF CopyInv, Removed, Synced
  <2>1. CASE q = p
    <3>1. Nothing \in asked'[p][i]
      BY DEF CopyInv, TypeOK, DropFails
    <3> QED  BY <2>1, <3>1, Consts DEF RemovedAt, OnlyRemoved
  <2>2. CASE q # p
    BY <2>0, <2>2, <1>1, Consts DEF CopyInv, TypeOK, Index, Boot, RemovedAt, OnlyRemoved,
       InStep, Untold, SyncedAt, Logged, DropFails, ClearBuffers
  <2> QED  BY <2>1, <2>2
<1> QED  BY <1>1, <1>2, <1>3, <1>4, <1>5, <1>6 DEF CopyInv

\* Row by row, what the first half of a flush does to the copy and the logs.
LEMMA FlushRow ==
  ASSUME TypeOK, NEW p \in Proc, NEW i \in Id, Flush(p)
  PROVE  /\ i \in Matched(p) =>
              /\ Fresh(p)[i] # NoRow
              /\ redoDel'[p][i] = Fresh(p)[i]
              /\ client'[p][i] = IF redoUp[p][i] # NoRow /\ pendUp[p][i] = NoRow
                                 THEN redoUp[p][i] ELSE NoRow
              /\ redoUp'[p][i] = redoUp[p][i]
         /\ i \notin Matched(p) =>
              /\ redoDel'[p][i] = redoDel[p][i]
              /\ client'[p][i] = IF /\ redoUp[p][i] # NoRow /\ pendUp[p][i] = NoRow
                                    /\ ~ Newer(Fresh(p)[i], redoUp[p][i])
                                 THEN redoUp[p][i] ELSE Fresh(p)[i]
              /\ redoUp'[p][i] = IF /\ redoUp[p][i] # NoRow /\ pendUp[p][i] = NoRow
                                    /\ Newer(Fresh(p)[i], redoUp[p][i])
                                 THEN NoRow ELSE redoUp[p][i]
<1> DEFINE rows == Without(Fresh(p), Matched(p))
<1>1. rows[i] = IF i \in Matched(p) THEN NoRow ELSE Fresh(p)[i]
  BY DEF Without
<1>2. /\ client'[p][i] = IF i \in Replayed(p, rows) THEN redoUp[p][i] ELSE rows[i]
      /\ redoDel'[p][i] = IF i \in Matched(p) THEN Fresh(p)[i] ELSE redoDel[p][i]
      /\ redoUp'[p][i] = IF i \in Superseded(p, rows) THEN NoRow ELSE redoUp[p][i]
  BY DEF TypeOK, Flush, Flushed, Without
<1>3. /\ i \in Replayed(p, rows) <=> /\ redoUp[p][i] \notin {NoRow, rows[i]}
                                     /\ pendUp[p][i] = NoRow
                                     /\ ~ Newer(rows[i], redoUp[p][i])
      /\ i \in Superseded(p, rows) <=> /\ redoUp[p][i] # NoRow
                                       /\ pendUp[p][i] = NoRow
                                       /\ Newer(rows[i], redoUp[p][i])
      /\ i \in Matched(p) => Fresh(p)[i] # NoRow
  BY DEF Replayed, Superseded, Matched
<1>4. ~ Newer(NoRow, redoUp[p][i])
  BY DEF Newer
<1> QED  BY <1>1, <1>2, <1>3, <1>4

\* The first half of a flush keeps the invariant, wherever it leaves the section.
LEMMA FlushStep ==
  ASSUME CopyInv, NEW p \in Proc, Ready(p), Flush(p),
         NEW d \in BOOLEAN, dirty' = [dirty EXCEPT ![p] = d],
         NEW c \in {"idle", "embed", "save"}, pc' = [pc EXCEPT ![p] = c],
         c = "save" => pendUp[p] = NoRows
  PROVE  CopyInv'
<1>0. /\ TypeOK /\ flag' = [flag EXCEPT ![p] = FALSE]
      /\ missed' = IF flag[p] THEN missed \ {p} ELSE missed
      /\ pendDel' = [pendDel EXCEPT ![p] = {}]
      /\ UNCHANGED <<disk, stage, pendUp, lastSeq, asked, want>>
      /\ stage[p] = "up" /\ \A q \in Proc : pc[q] = "idle"
      /\ \A q \in Proc \ {p} : client'[q] = client[q] /\ redoUp'[q] = redoUp[q] /\ redoDel'[q] = redoDel[q]
      /\ Fresh(p) = IF flag[p] THEN disk ELSE client[p]
  BY DEF CopyInv, Flush, Reloaded, Ready, LockFree, history, Fresh
<1>1. TypeOK'
  <2>1. Fresh(p) \in Index /\ NoRow \in Cell
    BY DEF CopyInv, TypeOK, Fresh, Cell
  <2>2. ASSUME NEW rows \in Index, NEW S \in SUBSET Id PROVE Without(rows, S) \in Index
    BY <2>1 DEF Without, Index
  <2>3. Flushed(p) \in Index
    <3>1. Without(Fresh(p), Matched(p)) \in Index /\ redoUp[p] \in Index
      BY <2>1, <2>2 DEF CopyInv, TypeOK, Matched
    <3> QED  BY <3>1 DEF Flushed, Index
  <2>4. client' \in [Proc -> Index] /\ redoUp' \in [Proc -> Index]
    BY <2>2, <2>3 DEF CopyInv, TypeOK, Flush, Superseded
  <2>5. redoDel' \in [Proc -> Index]
    BY <2>1 DEF CopyInv, TypeOK, Flush, Index
  <2> QED  BY <1>0, <2>4, <2>5 DEF TypeOK, Flush
<1>2. Sections'
  BY <1>0 DEF CopyInv, TypeOK, Sections
<1>3. Logged'
  <2> SUFFICES ASSUME NEW q \in Proc, NEW i \in Id
               PROVE  /\ pendUp[q][i] \in asked[q][i] \cup {NoRow}
                      /\ redoUp'[q][i] \in asked[q][i] \cup {NoRow}
                      /\ redoDel'[q][i] # NoRow \/ i \in pendDel'[q] => NoRow \in asked[q][i]
                      /\ i \in pendDel'[q] => redoUp'[q][i] = NoRow
    BY <1>0 DEF Logged
  <2>0. /\ pendUp[q][i] \in asked[q][i] \cup {NoRow}
        /\ redoUp[q][i] \in asked[q][i] \cup {NoRow}
        /\ redoDel[q][i] # NoRow \/ i \in pendDel[q] => NoRow \in asked[q][i]
        /\ i \in pendDel[q] => redoUp[q][i] = NoRow
    BY DEF CopyInv, Logged
  <2>1. CASE q = p
    <3>1. i \in Matched(p) => i \in pendDel[p] \/ redoDel[p][i] # NoRow
      BY DEF Matched
    <3> QED  BY <1>0, <2>0, <3>1, FlushRow
  <2>2. CASE q # p
    BY <1>0, <2>0, <2>2
  <2> QED  BY <2>1, <2>2
<1>4. Synced'
  <2> SUFFICES ASSUME NEW q \in Proc, NEW i \in Id PROVE SyncedAt(q, i)'
    BY DEF Synced
  <2>0. SyncedAt(q, i) /\ Untold(q)' = FALSE /\ Untold(q) = FALSE
    BY <1>0 DEF CopyInv, Synced, Untold
  <2>1. CASE q = p
    <3>1. InStep(p)' => Fresh(p)[i] \in {disk[i]} \cup asked[p][i]
      BY <1>0, <2>0, <2>1 DEF InStep, SyncedAt
    <3>2. /\ i \in Matched(p) => NoRow \in asked[p][i]
          /\ redoUp[p][i] \in asked[p][i] \cup {NoRow}
      BY DEF CopyInv, Logged, Matched
    <3> QED  BY <1>0, <2>1, <3>1, <3>2, FlushRow DEF SyncedAt
  <2>2. CASE q # p
    BY <1>0, <2>0, <2>2 DEF SyncedAt, InStep
  <2> QED  BY <2>1, <2>2
<1>5. Standing'
  <2> SUFFICES ASSUME NEW q \in Proc, NEW i \in Id PROVE StandingAt(q, i)'
    BY DEF Standing
  <2>0. StandingAt(q, i) /\ Untold(q)' = FALSE /\ Untold(q) = FALSE
    BY <1>0 DEF CopyInv, Standing, Untold
  <2>1. CASE q = p
    <3> SUFFICES ASSUME want[p][i] \in Row, pendUp[p][i] # want[p][i]
                 PROVE  StandingAt(p, i)'
      BY <1>0, <2>0 DEF StandingAt
    <3>1. /\ pendUp[p][i] = NoRow /\ redoUp[p][i] = want[p][i]
          /\ ~ Newer(Fresh(p)[i], want[p][i])
      BY <1>0, <2>0, <2>1 DEF StandingAt
    <3>2. client'[p][i] = want[p][i] /\ redoUp'[p][i] = want[p][i]
      BY <1>0, <3>1, FlushRow
    <3>3. ~ Newer(want[p][i], want[p][i])
      BY DEF Newer, Row
    <3> QED  BY <1>0, <2>0, <2>1, <3>2, <3>3 DEF StandingAt
  <2>2. CASE q # p
    BY <1>0, <2>0, <2>2 DEF StandingAt
  <2> QED  BY <2>1, <2>2
<1>6. Removed'
  <2> SUFFICES ASSUME NEW q \in Proc, NEW i \in Id PROVE RemovedAt(q, i)'
    BY DEF Removed
  <2>0. RemovedAt(q, i) /\ SyncedAt(q, i) /\ Untold(q)' = FALSE /\ Untold(q) = FALSE
    BY <1>0 DEF CopyInv, Removed, Synced, Untold
  <2>1. CASE q = p
    <3> SUFFICES ASSUME OnlyRemoved(p, i) PROVE RemovedAt(p, i)'
      BY <1>0, <2>1 DEF RemovedAt, OnlyRemoved
    <3>1. redoUp[p][i] = NoRow
      BY DEF CopyInv, Logged, OnlyRemoved
    <3>2. i \in Matched(p) <=> /\ Fresh(p)[i] # NoRow
                               /\ i \in pendDel[p] \/ redoDel[p][i] = Fresh(p)[i]
      BY DEF Matched
    <3>3. /\ i \in Matched(p) => client'[p][i] = NoRow /\ redoDel'[p][i] = Fresh(p)[i]
          /\ i \notin Matched(p) => client'[p][i] = Fresh(p)[i] /\ redoDel'[p][i] = redoDel[p][i]
      BY <1>0, <3>1, FlushRow
    <3>4. i \notin pendDel'[p] /\ ~ flag'[p] /\ pc'[p] = c
      BY <1>0 DEF TypeOK
    <3>5. InStep(p)' /\ client'[p][i] = NoRow => disk[i] \in {NoRow, redoDel'[p][i]}
      <4>1. CASE flag[p]
        BY <1>0, <3>3, <4>1
      <4>2. CASE ~ flag[p]
        <5>1. InStep(p)' => InStep(p)
          BY <1>0, <2>0, <2>1, <4>2 DEF InStep
        <5> QED  BY <1>0, <2>0, <2>1, <3>2, <3>3, <5>1 DEF RemovedAt, SyncedAt, OnlyRemoved
      <4> QED  BY <4>1, <4>2
    <3>6. want[p][i] = NoRow => /\ client'[p][i] = NoRow
                                /\ disk[i] \in {NoRow, redoDel'[p][i]}
      <4>1. CASE flag[p]
        BY <1>0, <2>0, <2>1, <3>2, <3>3 DEF RemovedAt
      <4>2. CASE ~ flag[p]
        BY <1>0, <2>0, <2>1, <3>2, <3>3 DEF RemovedAt
      <4> QED  BY <4>1, <4>2
    <3> QED  BY <1>0, <3>5, <3>6 DEF RemovedAt
  <2>2. CASE q # p
    BY <1>0, <2>0, <2>2 DEF RemovedAt, OnlyRemoved, InStep
  <2> QED  BY <2>1, <2>2
<1> QED  BY <1>1, <1>2, <1>3, <1>4, <1>5, <1>6 DEF CopyInv

\* A commit is a flush that goes on to embed or to save.
LEMMA CommitStep ==
  ASSUME CopyInv, NEW p \in Proc, Commit(p)
  PROVE  CopyInv'
<1> DEFINE d == dirty[p] \/ FlushChanges(p)
           c == IF pendUp[p] # NoRows THEN "embed" ELSE "save"
<1>1. /\ Ready(p) /\ Flush(p)
      /\ dirty' = [dirty EXCEPT ![p] = d] /\ d \in BOOLEAN
      /\ pc' = [pc EXCEPT ![p] = c] /\ c \in {"idle", "embed", "save"}
      /\ c = "save" => pendUp[p] = NoRows
  BY DEF Commit
<1> HIDE DEF d, c
<1> QED  BY <1>1, FlushStep

\* A finalize is a flush that saves only what differs.
LEMMA FinalizeStep ==
  ASSUME CopyInv, NEW p \in Proc, Finalize(p)
  PROVE  CopyInv'
<1> DEFINE d == (dirty[p] /\ ~ flag[p]) \/ FlushChanges(p)
           c == IF pendUp[p] # NoRows THEN "embed"
                ELSE IF dirty'[p] THEN "save" ELSE "idle"
<1>1. /\ Ready(p) /\ Flush(p)
      /\ dirty' = [dirty EXCEPT ![p] = d] /\ d \in BOOLEAN
      /\ pc' = [pc EXCEPT ![p] = c] /\ c \in {"idle", "embed", "save"}
      /\ c = "save" => pendUp[p] = NoRows
  BY DEF Finalize
<1> HIDE DEF d, c
<1> QED  BY <1>1, FlushStep

\* Every step keeps the invariant.
LEMMA NextStep ==
  ASSUME CopyInv, [Next]_vars
  PROVE  CopyInv'
<1>1. CASE UNCHANGED vars
  <2>1. UNCHANGED <<disk, clock, stage, flag, client, dirty, pendUp, pendDel, redoUp,
                    redoDel, lastSeq, pc, asked, want, missed>>
    BY <1>1 DEF vars, shared, local, history
  <2>2. TypeOK' /\ Sections' /\ Logged'
    BY <2>1 DEF CopyInv, TypeOK, Sections, Logged
  <2>3. Synced' /\ Standing' /\ Removed'
    BY <2>1 DEF CopyInv, Synced, SyncedAt, InStep, Untold, Standing, StandingAt, Removed,
       RemovedAt, OnlyRemoved
  <2> QED  BY <2>2, <2>3 DEF CopyInv
<1>2. CASE Next
  <2>1. PICK p \in Proc :
          \/ Initialize(p) \/ Spawn(p) \/ Kill(p)
          \/ \E S \in SUBSET Id \ {{}} : Upsert(p, S) \/ Delete(p, S) \/ DeleteEager(p, S)
          \/ DropPending(p) \/ Read(p)
          \/ Commit(p) \/ Finalize(p) \/ Embed(p) \/ Fails(p)
          \/ Publish(p) \/ Notify(p) \/ NotifyFails(p)
          \/ Drop(p) \/ DropFails(p)
    BY <1>2 DEF Next
  <2>2. CASE \E S \in SUBSET Id \ {{}} : Upsert(p, S) \/ Delete(p, S) \/ DeleteEager(p, S)
    BY <2>2, UpsertStep, DeleteStep, DeleteEagerStep
  <2> QED  BY <2>1, <2>2, InitializeStep, SpawnStep, KillStep, DropPendingStep, ReadStep,
              CommitStep, FinalizeStep, EmbedStep, FailsStep, PublishStep, NotifyStep,
              NotifyFailsStep, DropStep, DropFailsStep
<1> QED  BY <1>1, <1>2

\* The invariant holds when the server starts.
LEMMA InitStep == Init => CopyInv
<1> SUFFICES ASSUME Init PROVE CopyInv
  OBVIOUS
<1>1. /\ NoRows \in Index /\ Boot \in Index
      /\ NoWants \in [Id -> Cell \cup {Nothing}]
      /\ Unasked \in [Id -> SUBSET (Cell \cup {Nothing})]
  BY DEF NoRows, Boot, NoWants, Unasked, Index, Cell, Row
<1>2. TypeOK
  BY <1>1 DEF Init, TypeOK
<1>3. Sections /\ Logged
  BY DEF Init, Sections, Logged, NoRows
<1>4. Synced /\ Standing
  BY Consts DEF Init, Synced, SyncedAt, Standing, StandingAt, NoWants
<1>5. Removed
  BY DEF Init, Removed, RemovedAt, OnlyRemoved, Unasked
<1> QED  BY <1>2, <1>3, <1>4, <1>5 DEF CopyInv

\* The inductive invariant of the vector store: what buffers, redo logs, memory
\* copy and file of every process have to do with each other.
THEOREM VectorInvariance == Spec => []CopyInv
<1>1. Init => CopyInv
  BY InitStep
<1>2. CopyInv /\ [Next]_vars => CopyInv'
  BY NextStep
<1> QED  BY <1>1, <1>2, PTL DEF Spec

\* Publish is the only step that saves.
LEMMA SaveIsPublish ==
  ASSUME CopyInv, [Next]_vars, NEW p \in Proc, Saves(p)
  PROVE  Publish(p)
<1>1. \A q \in Proc : q # p => pc[q] = "idle"
  BY DEF CopyInv, Sections, Saves
<1>2. CASE UNCHANGED vars
  BY <1>2 DEF Saves, vars, local
<1>3. CASE Next
  <2>1. PICK q \in Proc :
          \/ Initialize(q) \/ Spawn(q) \/ Kill(q)
          \/ \E S \in SUBSET Id \ {{}} : Upsert(q, S) \/ Delete(q, S) \/ DeleteEager(q, S)
          \/ DropPending(q) \/ Read(q)
          \/ Commit(q) \/ Finalize(q) \/ Embed(q) \/ Fails(q)
          \/ Publish(q) \/ Notify(q) \/ NotifyFails(q)
          \/ Drop(q) \/ DropFails(q)
    BY <1>3 DEF Next
  <2>2. ~ LockFree
    BY DEF LockFree, Saves
  <2>3. pc'[p] # pc[p]
    BY DEF Saves
  <2>4. ~ (Initialize(q) \/ Spawn(q))
    BY <2>3 DEF Initialize, Spawn, local
  <2>5. ~ (Kill(q) \/ Fails(q) \/ Embed(q) \/ Notify(q) \/ NotifyFails(q))
    <3>1. pc \in [Proc -> {"idle", "embed", "save", "published"}] /\ pc[p] = "save" /\ pc'[p] = "published"
      BY DEF CopyInv, TypeOK, Saves
    <3>2. ~ Kill(q) /\ ~ Fails(q)
      BY <3>1 DEF Kill, Fails
    <3>3. ~ Embed(q)
      BY <3>1 DEF Embed
    <3>4. ~ Notify(q) /\ ~ NotifyFails(q)
      BY <3>1 DEF Notify, NotifyFails, Retire
    <3> QED  BY <3>2, <3>3, <3>4
  <2>6. Publish(q) => q = p
    BY <1>1 DEF Publish
  <2> QED  BY <2>1, <2>2, <2>4, <2>5, <2>6 DEF Upsert, Delete, DeleteEager, DropPending,
              Read, Commit, Finalize, Drop, DropFails, Ready
<1> QED  BY <1>2, <1>3

\* No save of a process that was told of every commit touches a row that the
\* process did not itself ask to write or remove since its last commit.
THEOREM ForeignRowsKept == Spec => KeepsForeign
<1>1. ASSUME CopyInv, [Next]_vars, NEW p \in Proc, NEW i \in Id, Saves(p), p \notin missed
      PROVE  disk'[i] \in {disk[i]} \cup asked[p][i]
  <2>1. disk' = client[p]
    BY <1>1, SaveIsPublish DEF Publish
  <2>2. InStep(p)
    BY <1>1 DEF CopyInv, Sections, InStep, Untold, Saves
  <2> QED  BY <1>1, <2>1, <2>2 DEF CopyInv, Synced, SyncedAt
<1>2. CopyInv /\ [Next]_vars => [\A p \in Proc, i \in Id :
        Saves(p) /\ p \notin missed => disk'[i] \in {disk[i]} \cup asked[p][i]]_vars
  BY <1>1
<1> QED  BY <1>2, VectorInvariance, PTL DEF Spec, KeepsForeign

\* An upsert that still stands is what the next save of its process writes.
THEOREM UpsertsDurable == Spec => UpsertDurable
<1>1. ASSUME CopyInv, [Next]_vars, NEW p \in Proc, NEW i \in Id, Saves(p), want[p][i] \in Row
      PROVE  disk'[i] = want[p][i]
  <2>1. disk' = client[p] /\ pc[p] = "save"
    BY <1>1, SaveIsPublish DEF Publish
  <2>2. pendUp[p][i] = NoRow
    BY <1>1, <2>1 DEF CopyInv, Sections, NoRows
  <2> QED  BY <1>1, <2>1, <2>2, Consts DEF CopyInv, Standing, StandingAt
<1>2. CopyInv /\ [Next]_vars => [\A p \in Proc, i \in Id :
        Saves(p) /\ want[p][i] \in Row => disk'[i] = want[p][i]]_vars
  BY <1>1
<1> QED  BY <1>2, VectorInvariance, PTL DEF Spec, UpsertDurable

\* A removal that still stands is durable with the next save, if its process
\* has not also written the row since its last commit.
THEOREM RemovalsDurable == Spec => RemovalDurable
<1>1. ASSUME CopyInv, [Next]_vars, NEW p \in Proc, NEW i \in Id, Saves(p),
             want[p][i] = NoRow, asked[p][i] = {NoRow}
      PROVE  disk'[i] = NoRow
  <2>1. disk' = client[p] /\ pc[p] = "save"
    BY <1>1, SaveIsPublish DEF Publish
  <2> QED  BY <1>1, <2>1 DEF CopyInv, Removed, RemovedAt, OnlyRemoved
<1>2. CopyInv /\ [Next]_vars => [\A p \in Proc, i \in Id :
        Saves(p) /\ want[p][i] = NoRow /\ asked[p][i] = {NoRow} => disk'[i] = NoRow]_vars
  BY <1>1
<1> QED  BY <1>2, VectorInvariance, PTL DEF Spec, RemovalDurable

\* A read answers what the next flush will leave in the copy.
THEOREM ReadsMatchFlush == Spec => []ReadMatchesFlush
<1>1. ASSUME CopyInv, NEW p \in Proc, NEW i \in Id, ~ Newer(redoDel[p][i], redoUp[p][i])
      PROVE  ReadById(p, i) = IF pendUp[p][i] # NoRow THEN pendUp[p][i] ELSE Flushed(p)[i]
  <2> DEFINE rows == Without(Fresh(p), Matched(p))
             f == IF i \in Replayed(p, rows) THEN redoUp[p][i] ELSE rows[i]
  <2>1. Flushed(p)[i] = f
    BY DEF Flushed
  <2>2. /\ rows[i] = IF i \in Matched(p) THEN NoRow ELSE Fresh(p)[i]
        /\ i \in Matched(p) <=> /\ Fresh(p)[i] # NoRow
                                /\ i \in pendDel[p] \/ redoDel[p][i] = Fresh(p)[i]
        /\ i \in Replayed(p, rows) <=> /\ redoUp[p][i] \notin {NoRow, rows[i]}
                                       /\ pendUp[p][i] = NoRow
                                       /\ ~ Newer(rows[i], redoUp[p][i])
        /\ ~ Newer(NoRow, redoUp[p][i])
    BY DEF Without, Matched, Replayed, Newer
  <2> HIDE DEF rows, f
  <2>3. i \in pendDel[p] => redoUp[p][i] = NoRow
    BY <1>1 DEF CopyInv, Logged
  <2> QED  BY <1>1, <2>1, <2>2, <2>3 DEF ReadById, f
<1>2. CopyInv => ReadMatchesFlush
  BY <1>1 DEF ReadMatchesFlush
<1> QED  BY <1>2, VectorInvariance, PTL

\* Only a commit, or the flush of finalize, takes the lock into a save or an
\* embedding call.
LEMMA FlushStarts ==
  ASSUME CopyInv, [Next]_vars, NEW p \in Proc, pc[p] = "idle", pc'[p] \in {"embed", "save"}
  PROVE  Ready(p) /\ Flush(p)
<1>0. /\ pc \in [Proc -> {"idle", "embed", "save", "published"}]
      /\ pc' # pc /\ pc'[p] # pc[p]
  BY DEF CopyInv, TypeOK
<1>1. PICK q \in Proc :
        \/ Initialize(q) \/ Spawn(q) \/ Kill(q)
        \/ \E S \in SUBSET Id \ {{}} : Upsert(q, S) \/ Delete(q, S) \/ DeleteEager(q, S)
        \/ DropPending(q) \/ Read(q)
        \/ Commit(q) \/ Finalize(q) \/ Embed(q) \/ Fails(q)
        \/ Publish(q) \/ Notify(q) \/ NotifyFails(q)
        \/ Drop(q) \/ DropFails(q)
  BY <1>0 DEF Next, vars, local
<1>2. ~ (Initialize(q) \/ Spawn(q) \/ DropPending(q) \/ Read(q) \/ DropFails(q))
  BY <1>0 DEF Initialize, Spawn, DropPending, Read, DropFails, local
<1>3. ~ \E S \in SUBSET Id \ {{}} : Upsert(q, S) \/ Delete(q, S) \/ DeleteEager(q, S)
  BY <1>0 DEF Upsert, Delete, DeleteEager
<1>4. ~ (Kill(q) \/ Fails(q) \/ Publish(q) \/ Drop(q))
  BY <1>0 DEF Kill, Fails, Publish, Drop
<1>5. ~ (Notify(q) \/ NotifyFails(q))
  BY <1>0 DEF Notify, NotifyFails, Retire
<1>6. ~ Embed(q)
  BY <1>0 DEF Embed
<1>7. Commit(q) \/ Finalize(q)
  BY <1>1, <1>2, <1>3, <1>4, <1>5, <1>6
<1>8. q = p
  BY <1>0, <1>7 DEF Commit, Finalize
<1> QED  BY <1>7, <1>8 DEF Commit, Finalize

\* Replaying the redo logs on a reloaded copy never puts an older row over the
\* newer one that another process has committed.
THEOREM ReplaysKeepNewer == Spec => ReplayNeverReverts
<1>1. ASSUME CopyInv, [Next]_vars, NEW p \in Proc, NEW i \in Id,
             pc[p] = "idle", pc'[p] \in {"embed", "save"}, flag[p],
             disk[i] \notin {NoRow, redoDel[p][i]}, client'[p][i] # NoRow
      PROVE  ~ Newer(disk[i], client'[p][i])
  <2>1. TypeOK /\ Flush(p) /\ Fresh(p)[i] = disk[i]
    BY <1>1, FlushStarts DEF CopyInv, Fresh
  <2>2. CASE i \in Matched(p)
    \* The row is matched by the queue only, and a queued id has no logged upsert.
    <3>1. i \in pendDel[p]
      BY <1>1, <2>1, <2>2 DEF Matched
    <3>2. redoUp[p][i] = NoRow
      BY <1>1, <3>1 DEF CopyInv, Logged
    <3> QED  BY <1>1, <2>1, <2>2, <3>2, FlushRow
  <2>3. CASE i \notin Matched(p)
    <3>1. CASE client'[p][i] = disk[i]
      <4>1. disk[i] \in Row
        BY <1>1, <2>1 DEF TypeOK, Index, Cell
      <4> QED  BY <3>1, <4>1 DEF Newer, Row
    <3>2. CASE client'[p][i] # disk[i]
      BY <2>1, <2>3, <3>2, FlushRow
    <3> QED  BY <3>1, <3>2
  <2> QED  BY <2>2, <2>3
<1>2. CopyInv /\ [Next]_vars => [\A p \in Proc, i \in Id :
        /\ pc[p] = "idle" /\ pc'[p] \in {"embed", "save"} /\ flag[p]
        /\ disk[i] \notin {NoRow, redoDel[p][i]} /\ client'[p][i] # NoRow
        => ~ Newer(disk[i], client'[p][i])]_vars
  BY <1>1
<1> QED  BY <1>2, VectorInvariance, PTL DEF Spec, ReplayNeverReverts

=============================================================================

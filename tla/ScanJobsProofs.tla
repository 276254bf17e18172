--------------------------- MODULE ScanJobsProofs ---------------------------
(***************************************************************************)
(* Handover is an invariant of ScanJobs and StatusHonest one of its action *)
(* properties.  What one request needs is said of that request alone       *)
(* (Local), so a step has to be looked at for the request it is a step of; *)
(* section 1 shows that it leaves the others what they need (KeepsLocal),  *)
(* sections 2 to 4 have one lemma per action, section 5 the theorems.      *)
(***************************************************************************)
EXTENDS ScanJobs, TLAPS

Kind(r) == IF r \in Uploads THEN "shared" ELSE "exclusive"

\* Where the caller and the child are together, and what the child has set by then.
Places(r) ==
    /\ caller[r] \in {"new", "reserved"} => child[r] = "none"
    /\ caller[r] \in {"waiting", "joining"} => child[r] # "none"
    /\ caller[r] \in {"backstop", "finally"} => child[r] \in {"none", "over"}
    /\ child[r] = "starting" => caller[r] \in {"waiting", "joining"}
    /\ child[r] \in {"none", "starting"} => r \notin begun \cup committed
    /\ child[r] = "leaving" => r \in committed \ begun
    /\ child[r] \in {"working", "indexing", "releasing", "deferred"} => r \in begun
    /\ child[r] \in {"leaving", "indexing", "deferred"} => r \in Scans
    /\ child[r] \notin {"none", "over"} => r \notin Clears
    /\ r \in Scans => (r \in intents => r \in committed) /\ (r \in begun => r \in committed)
    /\ r \in reporter => r \in begun
    /\ r \in cancelled => child[r] \notin {"none", "over"}

\* The reservation at each place.
Held(r) == Alive(r) =>
    /\ caller[r] = "new" => holds[r] = "none"
    /\ caller[r] = "reserved" \/ child[r] \in {"starting", "leaving", "working"} =>
         holds[r] = Kind(r)
    /\ child[r] = "indexing" => holds[r] = "shared"
    /\ r \in begun /\ child[r] \in {"over", "deferred"} => holds[r] = "none"

\* A caller cancels only a child it has not committed to.
Torn(r) ==
    /\ Up(r) /\ r \in cancelled =>
         /\ caller[r] = "joining"
         /\ child[r] # "leaving"
    /\ r \in Scans /\ caller[r] \in {"joining", "backstop", "finally"} => r \notin begun
    /\ caller[r] = "joining" /\ child[r] = "starting" => r \in cancelled
    /\ r \in Scans /\ caller[r] = "joining" => child[r] \in {"starting", "over"}
    /\ Up(r) /\ r \in committed => r \in begun \/ child[r] = "leaving"

\* The record at each place.
Noted(s) == s \in Scans =>
    /\ caller[s] \in {"new", "reserved"} => job[s] = "none"
    /\ Alive(s) /\ child[s] \notin {"none", "over"} =>
         job[s] \in {"running", "expired", "abandoned", "none"}

Local(r) == Places(r) /\ Held(r) /\ Torn(r) /\ Owned(r) /\ Noted(r)

AllLocal == \A r \in Request : Local(r)
AllAlone == \A r \in Request : Alone(r)

HandInv == TypeOK /\ AllLocal /\ AllAlone

-----------------------------------------------------------------------------
(* 1. What a step leaves alone.                                            *)

\* What others' calls to the store may do to a record.
Drift(s) == s \in Scans =>
    \/ job'[s] = job[s]
    \/ job[s] = "expired" /\ job'[s] \in {"abandoned", "none"}
    \/ job[s] \in Terminal /\ job'[s] = "none"

\* A step of r: of another request q it may only drop the reservation, if q is dead,
\* and reap or drop the record.
Leaves(q) ==
    /\ caller'[q] = caller[q] /\ child'[q] = child[q]
    /\ q \in cancelled' <=> q \in cancelled
    /\ q \in begun' <=> q \in begun
    /\ q \in committed' <=> q \in committed
    /\ q \in intents' <=> q \in intents
    /\ q \in reporter' => q \in reporter
    /\ holds'[q] = holds[q] \/ ~ Alive(q)
    /\ Drift(q)

\* No reservation is taken or extended.
NoneTaken == \A q \in Request :
    /\ holds'[q] # "none" => holds[q] # "none"
    /\ holds'[q] = "exclusive" => holds[q] = "exclusive"

StepOf(r) ==
    /\ TypeOK'
    /\ Local(r)'
    /\ r \in Scans => HonestStep(r)
    /\ \A q \in Request \ {r} : Leaves(q)
    /\ NoneTaken
    /\ mode' = mode

LEMMA KeepsLocal ==
  ASSUME TypeOK, NEW q \in Request, Local(q), Leaves(q), mode' = mode, Home \in [Request -> Proc]
  PROVE  Local(q)' /\ (q \in Scans => HonestStep(q))
<1>1. Places(q)'
  BY DEF Local, Places, Leaves
<1>2. Held(q)'
  BY DEF Local, Held, Leaves, Alive, Kind
<1>3. Torn(q)'
  BY DEF Local, Torn, Leaves, Up
<1>4. Owned(q)'
  BY DEF Local, Owned, Leaves, Up, Alive
<1>5. Noted(q)'
  BY DEF Local, Noted, Leaves, Drift, Alive, Terminal
<1>6. q \in Scans => HonestStep(q)
  BY DEF Leaves, Drift, HonestStep
<1> QED  BY <1>1, <1>2, <1>3, <1>4, <1>5, <1>6 DEF Local

LEMMA KeepsAlone ==
  ASSUME TypeOK, AllAlone, NoneTaken, \A q \in Request : Alive(q)' => Alive(q)
  PROVE  AllAlone'
<1> SUFFICES ASSUME NEW r \in Request, holds'[r] = "exclusive",
                    NEW q \in Request \ {r}
             PROVE  holds'[q] = "none" \/ ~ Alive(q)'
  BY DEF AllAlone, Alone
<1>1. holds[q] = "none" \/ ~ Alive(q)
  BY DEF AllAlone, Alone, NoneTaken
<1> QED  BY <1>1 DEF NoneTaken

LEMMA StepKeeps ==
  ASSUME HandInv, NEW r \in Request, StepOf(r)
  PROVE  HandInv' /\ \A s \in Scans : HonestStep(s)
<1>1. \A q \in Request : Local(q)' /\ (q \in Scans => HonestStep(q))
  BY KeepsLocal, KindAssumption DEF HandInv, AllLocal, StepOf
<1>2. AllAlone'
  BY KeepsAlone DEF HandInv, StepOf, Alive
<1> QED  BY <1>1, <1>2 DEF HandInv, AllLocal, StepOf, Request

JobStatus == {"none", "running", "expired"} \cup Terminal

\* What a reap does, and what create does.
LEMMA ReapRecord ==
  ASSUME TypeOK, NEW S
  PROVE  /\ Reap(S) \in [Scans -> JobStatus]
         /\ \A q \in Scans : \/ Reap(S)[q] = job[q]
                             \/ job[q] = "expired" /\ Reap(S)[q] = "abandoned"
  BY DEF TypeOK, Reap, JobStatus, Terminal

LEMMA CreationRecord ==
  ASSUME TypeOK, NEW s \in Scans, NEW j \in Creations(s)
  PROVE  /\ j \in [Scans -> JobStatus] /\ j[s] = "running"
         /\ \A q \in Scans \ {s} : \/ j[q] = job[q]
                                   \/ job[q] = "expired" /\ j[q] \in {"abandoned", "none"}
                                   \/ job[q] \in Terminal /\ j[q] = "none"
<1> DEFINE All == Reap(Scans)
<1>1. All \in [Scans -> JobStatus]
      /\ \A q \in Scans : All[q] = job[q] \/ (job[q] = "expired" /\ All[q] = "abandoned")
  BY ReapRecord
<1> HIDE DEF All
<1>2. PICK aged \in SUBSET Ended(All) :
        \E E \in SUBSET Ended(Without(All, aged)) :
          j = [Without(Without(All, aged), E) EXCEPT ![s] = "running"]
  <2>1. PICK aged \in SUBSET Ended(All) :
          LET kept == Without(All, aged)
              full == Cardinality(Records(kept)) >= Capacity
              out == IF full THEN {{v} : v \in Ended(kept)} ELSE {{}}
          IN j \in {[Without(kept, E) EXCEPT ![s] = "running"] : E \in out}
    BY DEF Creations, All
  <2> QED  BY <2>1
<1>3. PICK E \in SUBSET Ended(Without(All, aged)) :
        j = [Without(Without(All, aged), E) EXCEPT ![s] = "running"]
  BY <1>2
<1>4. j \in [Scans -> JobStatus] /\ j[s] = "running"
  BY <1>1, <1>3 DEF Without, JobStatus
<1>5. ASSUME NEW q \in Scans \ {s} PROVE j[q] = All[q] \/ (All[q] \in Terminal /\ j[q] = "none")
  BY <1>1, <1>3 DEF Without, Ended
<1> QED  BY <1>1, <1>4, <1>5 DEF Terminal

\* What the end of a scan's task does to its record.
LEMMA EndTaskRecord ==
  ASSUME TypeOK, NEW s \in Scans, EndTask(s)
  PROVE  /\ job' \in [Scans -> JobStatus] /\ outcome' \in [Scans -> Outcome]
         /\ reporter' \subseteq reporter
         /\ \A q \in Scans \ {s} : job'[q] = job[q]
         /\ \/ job'[s] = job[s]
            \/ job[s] = "expired" /\ job'[s] = "abandoned"
            \/ job[s] = "running" /\ job'[s] = outcome[s]
<1>1. Reap({s}) \in [Scans -> JobStatus] /\ Finished(s) \in [Scans -> JobStatus]
  BY DEF TypeOK, Reap, Finished, JobStatus, Terminal, Outcome
<1>2. /\ \A q \in Scans \ {s} : Reap({s})[q] = job[q] /\ Finished(s)[q] = job[q]
      /\ Reap({s})[s] = IF job[s] = "expired" THEN "abandoned" ELSE job[s]
      /\ Finished(s)[s] \in {Reap({s})[s]} \cup
           (IF job[s] = "running" THEN {outcome[s]} ELSE {})
  BY DEF TypeOK, Reap, Finished
<1>3. job' \in {job, Reap({s}), Finished(s)} /\ reporter' \subseteq reporter
  BY DEF EndTask, Finish
<1>4. job \in [Scans -> JobStatus] /\ outcome' \in [Scans -> Outcome]
  BY DEF TypeOK, EndTask, JobStatus, Outcome
<1> QED  BY <1>1, <1>2, <1>3, <1>4

-----------------------------------------------------------------------------
(* 2. The steps of the caller.                                              *)

LEMMA GiveUpStep ==
  ASSUME HandInv, NEW r \in Request, GiveUp(r)
  PROVE  StepOf(r)
<1> USE DEF TypeOK, Request, Alive, Up, GiveUp, Calls, Goes
<1>1. TypeOK'
  BY DEF HandInv, CallerPlace, ChildPlace, Holding, tasks, startup, report
<1>2. Local(r)'
  BY KindAssumption DEF HandInv, AllLocal, Local, Places, Held, Torn, Owned, Noted,
         Kind, ChildPlace, tasks, startup, report
<1>3. NoneTaken /\ mode' = mode
  BY DEF HandInv, AllLocal, Local, Places, Held, Kind, NoneTaken, tasks, startup, report
<1>4. ASSUME NEW q \in Request \ {r} PROVE Leaves(q)
  BY DEF HandInv, Leaves, Drift, tasks, startup, report
<1>5. r \in Scans => HonestStep(r)
  BY DEF HandInv, AllLocal, Local, Places, Torn, Noted, HonestStep, tasks, startup,
         report
<1> QED  BY <1>1, <1>2, <1>3, <1>4, <1>5 DEF StepOf

LEMMA StartUploadStep ==
  ASSUME HandInv, NEW r \in Request, StartUpload(r)
  PROVE  StepOf(r)
<1> USE DEF TypeOK, Request, Alive, Up, StartUpload, Calls, Goes, Moves, StartChild
<1>1. TypeOK'
  BY DEF HandInv, CallerPlace, ChildPlace, Holding, tasks, startup, report
<1>2. Local(r)'
  BY KindAssumption DEF HandInv, AllLocal, Local, Places, Held, Torn, Owned, Noted,
         Kind, ChildPlace, tasks, startup, report
<1>3. NoneTaken /\ mode' = mode
  BY DEF HandInv, AllLocal, Local, Places, Held, Kind, NoneTaken, tasks, startup, report
<1>4. ASSUME NEW q \in Request \ {r} PROVE Leaves(q)
  BY DEF HandInv, Leaves, Drift, tasks, startup, report
<1>5. r \in Scans => HonestStep(r)
  BY DEF HandInv, AllLocal, Local, Places, Torn, Noted, HonestStep, tasks, startup,
         report
<1> QED  BY <1>1, <1>2, <1>3, <1>4, <1>5 DEF StepOf

LEMMA TakenOverStep ==
  ASSUME HandInv, NEW r \in Request, TakenOver(r)
  PROVE  StepOf(r)
<1> USE DEF TypeOK, Request, Alive, Up, TakenOver, Calls, Goes, Spares
<1>1. TypeOK'
  BY DEF HandInv, CallerPlace, ChildPlace, Holding, tasks, startup, report
<1>2. Local(r)'
  BY KindAssumption DEF HandInv, AllLocal, Local, Places, Held, Torn, Owned, Noted,
         Kind, ChildPlace, tasks, startup, report
<1>3. NoneTaken /\ mode' = mode
  BY DEF HandInv, AllLocal, Local, Places, Held, Kind, NoneTaken, tasks, startup, report
<1>4. ASSUME NEW q \in Request \ {r} PROVE Leaves(q)
  BY DEF HandInv, Leaves, Drift, tasks, startup, report
<1>5. r \in Scans => HonestStep(r)
  BY DEF HandInv, AllLocal, Local, Places, Torn, Noted, HonestStep, tasks, startup,
         report
<1> QED  BY <1>1, <1>2, <1>3, <1>4, <1>5 DEF StepOf

LEMMA TearDownStep ==
  ASSUME HandInv, NEW r \in Request, TearDown(r)
  PROVE  StepOf(r)
<1> USE DEF TypeOK, Request, Alive, Up, TearDown, Calls, Goes, Spares
<1>1. TypeOK'
  BY DEF HandInv, CallerPlace, ChildPlace, Holding, tasks, startup, report
<1>2. Local(r)'
  BY KindAssumption DEF HandInv, AllLocal, Local, Places, Held, Torn, Owned, Noted,
         Kind, ChildPlace, tasks, startup, report
<1>3. NoneTaken /\ mode' = mode
  BY DEF HandInv, AllLocal, Local, Places, Held, Kind, NoneTaken, tasks, startup, report
<1>4. ASSUME NEW q \in Request \ {r} PROVE Leaves(q)
  BY DEF HandInv, Leaves, Drift, tasks, startup, report
<1>5. r \in Scans => HonestStep(r)
  BY DEF HandInv, AllLocal, Local, Places, Torn, Noted, HonestStep, tasks, startup,
         report
<1> QED  BY <1>1, <1>2, <1>3, <1>4, <1>5 DEF StepOf

LEMMA LeaveStep ==
  ASSUME HandInv, NEW r \in Request, Leave(r)
  PROVE  StepOf(r)
<1> USE DEF TypeOK, Request, Alive, Up, Leave, Calls, Goes, Released
<1>1. TypeOK'
  BY DEF HandInv, CallerPlace, ChildPlace, Holding, tasks, startup, report
<1>2. Local(r)'
  BY KindAssumption DEF HandInv, AllLocal, Local, Places, Held, Torn, Owned, Noted,
         Kind, ChildPlace, tasks, startup, report
<1>3. NoneTaken /\ mode' = mode
  BY DEF HandInv, AllLocal, Local, Places, Held, Kind, NoneTaken, tasks, startup, report
<1>4. ASSUME NEW q \in Request \ {r} PROVE Leaves(q)
  BY DEF HandInv, Leaves, Drift, tasks, startup, report
<1>5. r \in Scans => HonestStep(r)
  BY DEF HandInv, AllLocal, Local, Places, Torn, Noted, HonestStep, tasks, startup,
         report
<1> QED  BY <1>1, <1>2, <1>3, <1>4, <1>5 DEF StepOf

LEMMA InterruptStep ==
  ASSUME HandInv, NEW r \in Request, Interrupt(r)
  PROVE  StepOf(r)
<1> USE DEF TypeOK, Request, Alive, Up, Interrupt, Trouble
<1>1. TypeOK'
  BY DEF HandInv, CallerPlace, ChildPlace, Holding, tasks, startup, report
<1>2. Local(r)'
  BY KindAssumption DEF HandInv, AllLocal, Local, Places, Held, Torn, Owned, Noted,
         Kind, ChildPlace, tasks, startup, report
<1>3. NoneTaken /\ mode' = mode
  BY DEF HandInv, AllLocal, Local, Places, Held, Kind, NoneTaken, tasks, startup, report
<1>4. ASSUME NEW q \in Request \ {r} PROVE Leaves(q)
  BY DEF HandInv, Leaves, Drift, tasks, startup, report
<1>5. r \in Scans => HonestStep(r)
  BY DEF HandInv, AllLocal, Local, Places, Torn, Noted, HonestStep, tasks, startup,
         report
<1> QED  BY <1>1, <1>2, <1>3, <1>4, <1>5 DEF StepOf

LEMMA RetireJobsStep ==
  ASSUME HandInv, NEW r \in Request, RetireJobs(r)
  PROVE  StepOf(r)
<1> USE DEF TypeOK, Request, Alive, Up, RetireJobs, Calls, Goes, Without, Reap, Ended,
         Terminal
<1>1. TypeOK'
  BY DEF HandInv, CallerPlace, ChildPlace, Holding, tasks, startup, report
<1>2. Local(r)'
  BY KindAssumption DEF HandInv, AllLocal, Local, Places, Held, Torn, Owned, Noted,
         Kind, ChildPlace, tasks, startup, report
<1>3. NoneTaken /\ mode' = mode
  BY DEF HandInv, AllLocal, Local, Places, Held, Kind, NoneTaken, tasks, startup, report
<1>4. ASSUME NEW q \in Request \ {r} PROVE Leaves(q)
  BY DEF HandInv, Leaves, Drift, tasks, startup, report
<1>5. r \in Scans => HonestStep(r)
  BY DEF HandInv, AllLocal, Local, Places, Torn, Noted, HonestStep, tasks, startup,
         report
<1> QED  BY <1>1, <1>2, <1>3, <1>4, <1>5 DEF StepOf

LEMMA JoinedStep ==
  ASSUME HandInv, NEW r \in Request, Joined(r)
  PROVE  StepOf(r)
<1> USE DEF TypeOK, Request, Alive, Up, Joined, Calls, Goes, Compensate, CancelJob,
         Trouble, Terminal
<1>1. TypeOK'
  BY DEF HandInv, CallerPlace, ChildPlace, Holding, tasks, startup, report
<1>2. Local(r)'
  <2>1. Places(r)'
    BY KindAssumption DEF HandInv, AllLocal, Local, Places, ChildPlace, tasks, startup,
         report
  <2>2. Held(r)'
    BY KindAssumption DEF HandInv, AllLocal, Local, Places, Held, Kind, ChildPlace,
         tasks, startup, report
  <2>3. Torn(r)'
    BY KindAssumption DEF HandInv, AllLocal, Local, Places, Torn, ChildPlace, tasks,
         startup, report
  <2>4. Owned(r)'
    BY KindAssumption DEF HandInv, AllLocal, Local, Places, Held, Torn, Owned,
         ChildPlace, tasks, startup, report
  <2>5. Noted(r)'
    BY KindAssumption DEF HandInv, AllLocal, Local, Places, Torn, Noted, ChildPlace,
         tasks, startup, report
  <2> QED  BY <2>1, <2>2, <2>3, <2>4, <2>5 DEF Local
<1>3. NoneTaken /\ mode' = mode
  BY DEF HandInv, AllLocal, Local, Places, Held, Kind, NoneTaken, tasks, startup, report
<1>4. ASSUME NEW q \in Request \ {r} PROVE Leaves(q)
  BY DEF HandInv, Leaves, Drift, tasks, startup, report
<1>5. r \in Scans => HonestStep(r)
  BY DEF HandInv, AllLocal, Local, Places, Torn, Noted, HonestStep, tasks, startup,
         report
<1> QED  BY <1>1, <1>2, <1>3, <1>4, <1>5 DEF StepOf

LEMMA BackstopStep ==
  ASSUME HandInv, NEW r \in Request, Backstop(r)
  PROVE  StepOf(r)
<1> USE DEF TypeOK, Request, Alive, Up, Backstop, Calls, Goes, Compensate, CancelJob,
         Trouble, Released, Terminal
<1>1. TypeOK'
  BY DEF HandInv, CallerPlace, ChildPlace, Holding, tasks, startup, report
<1>2. Local(r)'
  BY KindAssumption DEF HandInv, AllLocal, Local, Places, Held, Torn, Owned, Noted,
         Kind, ChildPlace, tasks, startup, report
<1>3. NoneTaken /\ mode' = mode
  BY DEF HandInv, AllLocal, Local, Places, Held, Kind, NoneTaken, tasks, startup, report
<1>4. ASSUME NEW q \in Request \ {r} PROVE Leaves(q)
  BY DEF HandInv, Leaves, Drift, tasks, startup, report
<1>5. r \in Scans => HonestStep(r)
  BY DEF HandInv, AllLocal, Local, Places, Torn, Noted, HonestStep, tasks, startup,
         report
<1> QED  BY <1>1, <1>2, <1>3, <1>4, <1>5 DEF StepOf

LEMMA CreateJobStep ==
  ASSUME HandInv, NEW r \in Request, CreateJob(r)
  PROVE  StepOf(r)
<1> USE DEF TypeOK, Request, Alive, Up, CreateJob, Calls, Goes, StartChild, Moves,
         Terminal, JobStatus
<1>1. TypeOK'
  BY CreationRecord, ReapRecord DEF HandInv, CallerPlace, ChildPlace, Holding, tasks,
         startup, report
<1>2. Local(r)'
  BY CreationRecord, ReapRecord, KindAssumption DEF HandInv, AllLocal, Local, Places,
         Held, Torn, Owned, Noted, Kind, ChildPlace, tasks, startup, report
<1>3. NoneTaken /\ mode' = mode
  BY DEF HandInv, AllLocal, Local, Places, Held, Kind, NoneTaken, tasks, startup, report
<1>4. ASSUME NEW q \in Request \ {r} PROVE Leaves(q)
  BY CreationRecord, ReapRecord DEF HandInv, Leaves, Drift, tasks, startup, report
<1>5. r \in Scans => HonestStep(r)
  BY CreationRecord, ReapRecord DEF HandInv, AllLocal, Local, Places, Torn, Noted,
         HonestStep, tasks, startup, report
<1> QED  BY <1>1, <1>2, <1>3, <1>4, <1>5 DEF StepOf

LEMMA CreateFailsStep ==
  ASSUME HandInv, NEW r \in Request, CreateFails(r)
  PROVE  StepOf(r)
<1> USE DEF TypeOK, Request, Alive, Up, CreateFails, Calls, Goes, Trouble, Terminal,
         JobStatus
<1>1. TypeOK'
  BY CreationRecord DEF HandInv, CallerPlace, ChildPlace, Holding, tasks, startup,
         report
<1>2. Local(r)'
  BY CreationRecord, KindAssumption DEF HandInv, AllLocal, Local, Places, Held, Torn,
         Owned, Noted, Kind, ChildPlace, tasks, startup, report
<1>3. NoneTaken /\ mode' = mode
  BY DEF HandInv, AllLocal, Local, Places, Held, Kind, NoneTaken, tasks, startup, report
<1>4. ASSUME NEW q \in Request \ {r} PROVE Leaves(q)
  BY CreationRecord DEF HandInv, Leaves, Drift, tasks, startup, report
<1>5. r \in Scans => HonestStep(r)
  BY CreationRecord DEF HandInv, AllLocal, Local, Places, Torn, Noted, HonestStep,
         tasks, startup, report
<1> QED  BY <1>1, <1>2, <1>3, <1>4, <1>5 DEF StepOf

-----------------------------------------------------------------------------
(* 3. The steps of the child.                                               *)

LEMMA EndEarlyStep ==
  ASSUME HandInv, NEW r \in Request, EndEarly(r)
  PROVE  StepOf(r)
<1> USE DEF TypeOK, Request, Alive, Up, EndEarly, Moves
<1>1. TypeOK'
  BY DEF HandInv, CallerPlace, ChildPlace, Holding, tasks, startup, report
<1>2. Local(r)'
  BY KindAssumption DEF HandInv, AllLocal, Local, Places, Held, Torn, Owned, Noted,
         Kind, ChildPlace, tasks, startup, report
<1>3. NoneTaken /\ mode' = mode
  BY DEF HandInv, AllLocal, Local, Places, Held, Kind, NoneTaken, tasks, startup, report
<1>4. ASSUME NEW q \in Request \ {r} PROVE Leaves(q)
  BY DEF HandInv, Leaves, Drift, tasks, startup, report
<1>5. r \in Scans => HonestStep(r)
  BY DEF HandInv, AllLocal, Local, Places, Torn, Noted, HonestStep, tasks, startup,
         report
<1> QED  BY <1>1, <1>2, <1>3, <1>4, <1>5 DEF StepOf

LEMMA BeginUploadStep ==
  ASSUME HandInv, NEW r \in Request, BeginUpload(r)
  PROVE  StepOf(r)
<1> USE DEF TypeOK, Request, Alive, Up, BeginUpload, Runs, Moves
<1>1. TypeOK'
  BY DEF HandInv, CallerPlace, ChildPlace, Holding, tasks, startup, report
<1>2. Local(r)'
  BY KindAssumption DEF HandInv, AllLocal, Local, Places, Held, Torn, Owned, Noted,
         Kind, ChildPlace, tasks, startup, report
<1>3. NoneTaken /\ mode' = mode
  BY DEF HandInv, AllLocal, Local, Places, Held, Kind, NoneTaken, tasks, startup, report
<1>4. ASSUME NEW q \in Request \ {r} PROVE Leaves(q)
  BY DEF HandInv, Leaves, Drift, tasks, startup, report
<1>5. r \in Scans => HonestStep(r)
  BY DEF HandInv, AllLocal, Local, Places, Torn, Noted, HonestStep, tasks, startup,
         report
<1> QED  BY <1>1, <1>2, <1>3, <1>4, <1>5 DEF StepOf

LEMMA CommitStep ==
  ASSUME HandInv, NEW r \in Request, Commit(r)
  PROVE  StepOf(r)
<1> USE DEF TypeOK, Request, Alive, Up, Commit, Runs, Moves, Publish
<1>1. TypeOK'
  BY DEF HandInv, CallerPlace, ChildPlace, Holding, tasks, startup, report
<1>2. Local(r)'
  BY KindAssumption DEF HandInv, AllLocal, Local, Places, Held, Torn, Owned, Noted,
         Kind, ChildPlace, tasks, startup, report
<1>3. NoneTaken /\ mode' = mode
  BY DEF HandInv, AllLocal, Local, Places, Held, Kind, NoneTaken, tasks, startup, report
<1>4. ASSUME NEW q \in Request \ {r} PROVE Leaves(q)
  BY DEF HandInv, Leaves, Drift, tasks, startup, report
<1>5. r \in Scans => HonestStep(r)
  BY DEF HandInv, AllLocal, Local, Places, Torn, Noted, HonestStep, tasks, startup,
         report
<1> QED  BY <1>1, <1>2, <1>3, <1>4, <1>5 DEF StepOf

LEMMA BeginScanStep ==
  ASSUME HandInv, NEW r \in Request, BeginScan(r)
  PROVE  StepOf(r)
<1> USE DEF TypeOK, Request, Alive, Up, BeginScan, Runs, Moves
<1>1. TypeOK'
  BY DEF HandInv, CallerPlace, ChildPlace, Holding, tasks, startup, report
<1>2. Local(r)'
  BY KindAssumption DEF HandInv, AllLocal, Local, Places, Held, Torn, Owned, Noted,
         Kind, ChildPlace, tasks, startup, report
<1>3. NoneTaken /\ mode' = mode
  BY DEF HandInv, AllLocal, Local, Places, Held, Kind, NoneTaken, tasks, startup, report
<1>4. ASSUME NEW q \in Request \ {r} PROVE Leaves(q)
  BY DEF HandInv, Leaves, Drift, tasks, startup, report
<1>5. r \in Scans => HonestStep(r)
  BY DEF HandInv, AllLocal, Local, Places, Torn, Noted, HonestStep, tasks, startup,
         report
<1> QED  BY <1>1, <1>2, <1>3, <1>4, <1>5 DEF StepOf

LEMMA UnfenceStep ==
  ASSUME HandInv, NEW r \in Request, Unfence(r)
  PROVE  StepOf(r)
<1> USE DEF TypeOK, Request, Alive, Up, Unfence, Runs, Moves
<1>1. TypeOK'
  BY DEF HandInv, CallerPlace, ChildPlace, Holding, tasks, startup, report
<1>2. Local(r)'
  BY KindAssumption DEF HandInv, AllLocal, Local, Places, Held, Torn, Owned, Noted,
         Kind, ChildPlace, tasks, startup, report
<1>3. NoneTaken /\ mode' = mode
  BY DEF HandInv, AllLocal, Local, Places, Held, Kind, NoneTaken, tasks, startup, report
<1>4. ASSUME NEW q \in Request \ {r} PROVE Leaves(q)
  BY DEF HandInv, Leaves, Drift, tasks, startup, report
<1>5. r \in Scans => HonestStep(r)
  BY DEF HandInv, AllLocal, Local, Places, Torn, Noted, HonestStep, tasks, startup,
         report
<1> QED  BY <1>1, <1>2, <1>3, <1>4, <1>5 DEF StepOf

LEMMA EndWorkStep ==
  ASSUME HandInv, NEW r \in Request, EndWork(r)
  PROVE  StepOf(r)
<1> USE DEF TypeOK, Request, Alive, Up, EndWork, Moves, Outcome
<1>1. TypeOK'
  BY DEF HandInv, CallerPlace, ChildPlace, Holding, tasks, startup, report
<1>2. Local(r)'
  BY KindAssumption DEF HandInv, AllLocal, Local, Places, Held, Torn, Owned, Noted,
         Kind, ChildPlace, tasks, startup, report
<1>3. NoneTaken /\ mode' = mode
  BY DEF HandInv, AllLocal, Local, Places, Held, Kind, NoneTaken, tasks, startup, report
<1>4. ASSUME NEW q \in Request \ {r} PROVE Leaves(q)
  BY DEF HandInv, Leaves, Drift, tasks, startup, report
<1>5. r \in Scans => HonestStep(r)
  BY DEF HandInv, AllLocal, Local, Places, Torn, Noted, HonestStep, tasks, startup,
         report
<1> QED  BY <1>1, <1>2, <1>3, <1>4, <1>5 DEF StepOf

LEMMA ReleaseUploadStep ==
  ASSUME HandInv, NEW r \in Request, ReleaseUpload(r)
  PROVE  StepOf(r)
<1> USE DEF TypeOK, Request, Alive, Up, ReleaseUpload, Runs, Moves, Released
<1>1. TypeOK'
  BY DEF HandInv, CallerPlace, ChildPlace, Holding, tasks, startup, report
<1>2. Local(r)'
  BY KindAssumption DEF HandInv, AllLocal, Local, Places, Held, Torn, Owned, Noted,
         Kind, ChildPlace, tasks, startup, report
<1>3. NoneTaken /\ mode' = mode
  BY DEF HandInv, AllLocal, Local, Places, Held, Kind, NoneTaken, tasks, startup, report
<1>4. ASSUME NEW q \in Request \ {r} PROVE Leaves(q)
  BY DEF HandInv, Leaves, Drift, tasks, startup, report
<1>5. r \in Scans => HonestStep(r)
  BY DEF HandInv, AllLocal, Local, Places, Torn, Noted, HonestStep, tasks, startup,
         report
<1> QED  BY <1>1, <1>2, <1>3, <1>4, <1>5 DEF StepOf

LEMMA ReleaseScanStep ==
  ASSUME HandInv, NEW r \in Request, ReleaseScan(r)
  PROVE  StepOf(r)
<1> USE DEF TypeOK, Request, Alive, Up, ReleaseScan, Runs, Moves, Released, EndTask,
         JobStatus, Terminal, Outcome
<1>a. /\ job' \in [Scans -> JobStatus] /\ outcome' \in [Scans -> Outcome]
      /\ reporter' \subseteq reporter
      /\ \A q \in Scans \ {r} : job'[q] = job[q]
      /\ \/ child'[r] = "deferred" /\ job'[r] = job[r]
         \/ /\ child'[r] = "over"
            /\ \/ job'[r] = job[r]
               \/ job[r] = "expired" /\ job'[r] = "abandoned"
               \/ job[r] = "running" /\ job'[r] = outcome[r]
      /\ child' = [child EXCEPT ![r] = child'[r]]
  BY EndTaskRecord DEF HandInv, report
<1>1. TypeOK'
  BY EndTaskRecord, <1>a DEF HandInv, CallerPlace, ChildPlace, Holding, tasks, startup,
         report
<1>2. Local(r)'
  BY EndTaskRecord, <1>a, KindAssumption DEF HandInv, AllLocal, Local, Places, Held,
         Torn, Owned, Noted, Kind, ChildPlace, tasks, startup, report
<1>3. NoneTaken /\ mode' = mode
  BY DEF HandInv, AllLocal, Local, Places, Held, Kind, NoneTaken, tasks, startup, report
<1>4. ASSUME NEW q \in Request \ {r} PROVE Leaves(q)
  BY EndTaskRecord, <1>a DEF HandInv, Leaves, Drift, tasks, startup, report
<1>5. r \in Scans => HonestStep(r)
  BY EndTaskRecord, <1>a DEF HandInv, AllLocal, Local, Places, Torn, Noted, HonestStep,
         tasks, startup, report
<1> QED  BY <1>1, <1>2, <1>3, <1>4, <1>5 DEF StepOf

LEMMA EndDeferredStep ==
  ASSUME HandInv, NEW r \in Request, EndDeferred(r)
  PROVE  StepOf(r)
<1> USE DEF TypeOK, Request, Alive, Up, EndDeferred, Runs, Moves, EndTask, JobStatus,
         Terminal, Outcome
<1>1. TypeOK'
  BY EndTaskRecord DEF HandInv, CallerPlace, ChildPlace, Holding, tasks, startup, report
<1>2. Local(r)'
  BY EndTaskRecord, KindAssumption DEF HandInv, AllLocal, Local, Places, Held, Torn,
         Owned, Noted, Kind, ChildPlace, tasks, startup, report
<1>3. NoneTaken /\ mode' = mode
  BY DEF HandInv, AllLocal, Local, Places, Held, Kind, NoneTaken, tasks, startup, report
<1>4. ASSUME NEW q \in Request \ {r} PROVE Leaves(q)
  BY EndTaskRecord DEF HandInv, Leaves, Drift, tasks, startup, report
<1>5. r \in Scans => HonestStep(r)
  BY EndTaskRecord DEF HandInv, AllLocal, Local, Places, Torn, Noted, HonestStep, tasks,
         startup, report
<1> QED  BY <1>1, <1>2, <1>3, <1>4, <1>5 DEF StepOf

LEMMA DriveFailsStep ==
  ASSUME HandInv, NEW r \in Scans, DriveFails(r)
  PROVE  StepOf(r)
<1> USE DEF TypeOK, Request, Alive, Up, DriveFails, Runs, Outcome
<1>1. TypeOK'
  BY DEF HandInv, CallerPlace, ChildPlace, Holding, tasks, startup, report
<1>2. Local(r)'
  BY KindAssumption DEF HandInv, AllLocal, Local, Places, Held, Torn, Owned, Noted,
         Kind, ChildPlace, tasks, startup, report
<1>3. NoneTaken /\ mode' = mode
  BY DEF HandInv, AllLocal, Local, Places, Held, Kind, NoneTaken, tasks, startup, report
<1>4. ASSUME NEW q \in Request \ {r} PROVE Leaves(q)
  BY DEF HandInv, Leaves, Drift, tasks, startup, report
<1>5. r \in Scans => HonestStep(r)
  BY DEF HandInv, AllLocal, Local, Places, Torn, Noted, HonestStep, tasks, startup,
         report
<1> QED  BY <1>1, <1>2, <1>3, <1>4, <1>5 DEF StepOf

LEMMA RenewStep ==
  ASSUME HandInv, NEW r \in Scans, Renew(r)
  PROVE  StepOf(r)
<1> USE DEF TypeOK, Request, Alive, Up, Renew, Trouble, Reap, Beat, Terminal
<1>1. TypeOK'
  BY DEF HandInv, CallerPlace, ChildPlace, Holding, tasks, startup, report
<1>2. Local(r)'
  BY KindAssumption DEF HandInv, AllLocal, Local, Places, Held, Torn, Owned, Noted,
         Kind, ChildPlace, tasks, startup, report
<1>3. NoneTaken /\ mode' = mode
  BY DEF HandInv, AllLocal, Local, Places, Held, Kind, NoneTaken, tasks, startup, report
<1>4. ASSUME NEW q \in Request \ {r} PROVE Leaves(q)
  BY DEF HandInv, Leaves, Drift, tasks, startup, report
<1>5. r \in Scans => HonestStep(r)
  BY DEF HandInv, AllLocal, Local, Places, Torn, Noted, HonestStep, tasks, startup,
         report
<1> QED  BY <1>1, <1>2, <1>3, <1>4, <1>5 DEF StepOf

LEMMA LapseStep ==
  ASSUME HandInv, NEW r \in Scans, Lapse(r)
  PROVE  StepOf(r)
<1> USE DEF TypeOK, Request, Alive, Up, Lapse, Trouble, Renewed
<1>1. TypeOK'
  BY DEF HandInv, CallerPlace, ChildPlace, Holding, tasks, startup, report
<1>2. Local(r)'
  BY KindAssumption DEF HandInv, AllLocal, Local, Places, Held, Torn, Owned, Noted,
         Kind, ChildPlace, tasks, startup, report
<1>3. NoneTaken /\ mode' = mode
  BY DEF HandInv, AllLocal, Local, Places, Held, Kind, NoneTaken, tasks, startup, report
<1>4. ASSUME NEW q \in Request \ {r} PROVE Leaves(q)
  BY DEF HandInv, Leaves, Drift, tasks, startup, report
<1>5. r \in Scans => HonestStep(r)
  BY DEF HandInv, AllLocal, Local, Places, Torn, Noted, HonestStep, tasks, startup,
         report
<1> QED  BY <1>1, <1>2, <1>3, <1>4, <1>5 DEF StepOf

LEMMA LookStep ==
  ASSUME HandInv, NEW r \in Scans, Look(r)
  PROVE  StepOf(r)
<1> USE DEF TypeOK, Request, Alive, Up, Look, Reap, Terminal
<1>1. TypeOK'
  BY DEF HandInv, CallerPlace, ChildPlace, Holding, tasks, startup, report
<1>2. Local(r)'
  BY KindAssumption DEF HandInv, AllLocal, Local, Places, Held, Torn, Owned, Noted,
         Kind, ChildPlace, tasks, startup, report
<1>3. NoneTaken /\ mode' = mode
  BY DEF HandInv, AllLocal, Local, Places, Held, Kind, NoneTaken, tasks, startup, report
<1>4. ASSUME NEW q \in Request \ {r} PROVE Leaves(q)
  BY DEF HandInv, Leaves, Drift, tasks, startup, report
<1>5. r \in Scans => HonestStep(r)
  BY DEF HandInv, AllLocal, Local, Places, Torn, Noted, HonestStep, tasks, startup,
         report
<1> QED  BY <1>1, <1>2, <1>3, <1>4, <1>5 DEF StepOf

-----------------------------------------------------------------------------
(* 4. Reservations, and the end of a process.                               *)

\* A reservation takes only what excludes nobody who lives.
LEMMA ReserveStep ==
  ASSUME HandInv, NEW r \in Request, Reserve(r)
  PROVE  HandInv' /\ \A s \in Scans : HonestStep(s)
<1> USE DEF TypeOK, Request, Alive, Up, Reserve, Goes, Admits, Reconciled
<1>1. TypeOK'
  BY DEF HandInv, CallerPlace, Holding, tasks, startup, report
<1>2. Local(r)'
  BY KindAssumption DEF HandInv, AllLocal, Local, Places, Held, Torn, Owned, Noted, Kind,
         ChildPlace, startup, report
<1>3. ASSUME NEW q \in Request \ {r} PROVE Leaves(q)
  BY DEF HandInv, Leaves, Drift, startup, report
<1>4. mode' = mode
  OBVIOUS
<1>5. \A q \in Request : Local(q)' /\ (q \in Scans => HonestStep(q))
  BY <1>2, <1>3, <1>4, KeepsLocal, KindAssumption DEF HandInv, AllLocal, HonestStep
<1>6. AllAlone'
  <2> SUFFICES ASSUME NEW x \in Request, holds'[x] = "exclusive",
                      NEW q \in Request \ {x}
               PROVE  holds'[q] = "none" \/ ~ Alive(q)'
    BY DEF AllAlone, Alone
  <2>1. holds[x] = "exclusive" => holds[q] = "none" \/ ~ Alive(q)
    BY DEF HandInv, AllAlone, Alone
  <2>2. CASE holds' = holds
    BY <2>1, <2>2
  <2>3. CASE holds' # holds
    <3>1. Admits(r) /\ holds' = [Reconciled EXCEPT ![r] = IF r \in Uploads THEN "shared"
                                                                    ELSE "exclusive"]
      BY <2>3
    <3>2. Reconciled[x] # "exclusive"
      BY <3>1 DEF HandInv
    <3>3. x = r /\ r \notin Uploads
      BY <3>1, <3>2 DEF HandInv
    <3>4. Reconciled[q] = "none"
      BY <3>1, <3>3
    <3> QED  BY <3>1, <3>3, <3>4 DEF HandInv
  <2> QED  BY <2>2, <2>3
<1> QED  BY <1>1, <1>5, <1>6 DEF HandInv, AllLocal

LEMMA DrainStep ==
  ASSUME HandInv, NEW p \in Proc, Drain(p)
  PROVE  HandInv' /\ \A s \in Scans : HonestStep(s)
<1> USE KindAssumption DEF TypeOK, Request, Alive, Up, Drain, Of, Trouble
<1>1. TypeOK'
  BY DEF HandInv, startup, report
<1>2. ASSUME NEW q \in Request PROVE Local(q)'
  BY DEF HandInv, AllLocal, Local, Places, Held, Torn, Owned, Noted, Kind, startup, report
<1>3. AllAlone'
  BY DEF HandInv, AllAlone, Alone
<1> QED  BY <1>1, <1>2, <1>3 DEF HandInv, AllLocal, HonestStep

LEMMA EndsStep ==
  ASSUME HandInv, NEW p \in Proc, Ends(p)
  PROVE  HandInv' /\ \A s \in Scans : HonestStep(s)
<1> USE KindAssumption DEF TypeOK, Request, Alive, Up, Ends, Of
<1>1. TypeOK'
  BY DEF HandInv, CallerPlace, ChildPlace, Outcome, startup
<1>2. ASSUME NEW q \in Request PROVE Local(q)'
  BY DEF HandInv, AllLocal, Local, Places, Held, Torn, Owned, Noted, Kind, startup
<1>3. AllAlone'
  BY DEF HandInv, AllAlone, Alone
<1> QED  BY <1>1, <1>2, <1>3 DEF HandInv, AllLocal, HonestStep


-----------------------------------------------------------------------------
(* 5. The theorems.                                                         *)

LEMMA CallerKeeps ==
  ASSUME HandInv, NEW r \in Request, Interrupt(r) \/ CallerStep(r)
  PROVE  HandInv' /\ \A s \in Scans : HonestStep(s)
<1>1. StepOf(r)
  BY InterruptStep, GiveUpStep, StartUploadStep, CreateJobStep, CreateFailsStep,
     RetireJobsStep, TakenOverStep, TearDownStep, JoinedStep, BackstopStep, LeaveStep
  DEF CallerStep
<1> QED  BY <1>1, StepKeeps

LEMMA ChildKeeps ==
  ASSUME HandInv, NEW r \in Request, ChildStep(r)
  PROVE  HandInv' /\ \A s \in Scans : HonestStep(s)
<1>1. StepOf(r)
  BY EndEarlyStep, BeginUploadStep, CommitStep, BeginScanStep, UnfenceStep, EndWorkStep,
     ReleaseUploadStep, ReleaseScanStep, EndDeferredStep DEF ChildStep
<1> QED  BY <1>1, StepKeeps

LEMMA RecordKeeps ==
  ASSUME HandInv, NEW s \in Scans, DriveFails(s) \/ Renew(s) \/ Lapse(s) \/ Look(s)
  PROVE  HandInv' /\ \A q \in Scans : HonestStep(q)
<1>1. StepOf(s)
  BY DriveFailsStep, RenewStep, LapseStep, LookStep
<1> QED  BY <1>1, StepKeeps DEF Request

LEMMA NextKeeps ==
  ASSUME HandInv, [Next]_vars
  PROVE  HandInv' /\ [\A s \in Scans : HonestStep(s)]_vars
<1>1. ASSUME NEW r \in Request, Reserve(r)
      PROVE  HandInv' /\ \A s \in Scans : HonestStep(s)
  BY <1>1, ReserveStep
<1>2. ASSUME NEW r \in Request, Interrupt(r) \/ CallerStep(r) \/ ChildStep(r)
      PROVE  HandInv' /\ \A s \in Scans : HonestStep(s)
  BY <1>2, CallerKeeps, ChildKeeps
<1>3. ASSUME NEW s \in Scans, DriveFails(s) \/ Renew(s) \/ Lapse(s) \/ Look(s)
      PROVE  HandInv' /\ \A q \in Scans : HonestStep(q)
  BY <1>3, RecordKeeps
<1>4. ASSUME NEW p \in Proc, Drain(p) \/ Kill(p) \/ Exit(p)
      PROVE  HandInv' /\ \A s \in Scans : HonestStep(s)
  BY <1>4, DrainStep, EndsStep DEF Kill, Exit
<1>5. CASE UNCHANGED vars
  <2>1. HandInv'
    BY <1>5 DEF HandInv, TypeOK, AllLocal, AllAlone, Local, Places, Held, Torn, Owned, Noted,
       Alone, Alive, Up, vars, tasks, startup, report
  <2> QED  BY <1>5, <2>1
<1> QED  BY <1>1, <1>2, <1>3, <1>4, <1>5 DEF Next

\* No reservation is lost, given back twice under a task that works, or held beside an
\* exclusive one, whoever is cancelled, killed or drained at whichever await.
THEOREM HandoverHolds == Spec => []Handover
<1>1. Init => HandInv
  BY KindAssumption DEF Init, HandInv, TypeOK, AllLocal, AllAlone, Local, Places, Held, Torn,
     Owned, Noted, Alone, Request, CallerPlace, ChildPlace, Holding, Outcome, Terminal
<1>2. HandInv /\ [Next]_vars => HandInv'
  BY NextKeeps
<1>3. HandInv => Handover
  <2> SUFFICES ASSUME HandInv PROVE Handover
    OBVIOUS
  <2>1. \A r \in Request : Covered(r) /\ Alone(r) /\ Owned(r)
    BY KindAssumption DEF HandInv, AllLocal, AllAlone, Local, Places, Held, Covered, Runs, Kind,
       Request
  <2>2. \A s \in Scans : Followed(s) /\ Spared(s)
    BY DEF HandInv, AllLocal, Local, Places, Torn, Noted, Followed, Spared, Request
  <2> QED  BY <2>1, <2>2 DEF HandInv, Handover
<1> QED  BY <1>1, <1>2, <1>3, PTL DEF Spec

\* A record ends once, with what its scan came to.
THEOREM RecordsHonest == Spec => StatusHonest
<1>1. Init => HandInv
  BY KindAssumption DEF Init, HandInv, TypeOK, AllLocal, AllAlone, Local, Places, Held, Torn,
     Owned, Noted, Alone, Request, CallerPlace, ChildPlace, Holding, Outcome, Terminal
<1>2. HandInv /\ [Next]_vars => HandInv' /\ [\A s \in Scans : HonestStep(s)]_vars
  BY NextKeeps
<1> QED  BY <1>1, <1>2, PTL DEF Spec, StatusHonest
=============================================================================

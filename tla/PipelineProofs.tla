--------------------------- MODULE PipelineProofs ---------------------------
(***************************************************************************)
(* TLAPS proofs about Pipeline, for any number of tasks of every kind, any *)
(* backlog and any number of kills, cancellations, faults and force        *)
(* resets: the inductive invariant FlagsInv, and from it mutual exclusion  *)
(* of those who rewrite doc_status, the ownership of the manual freeze,    *)
(* the fencing of half-done jobs and the ownership of releases; then the   *)
(* inductive invariant RowsInv, and from it type correctness, and what an  *)
(* acknowledgement, the start of a reset and the loss of a signal mean;    *)
(* then CalmInv, and from it that an undisturbed run leaves nothing behind.*)
(*                                                                         *)
(* A step changes pipeline_status by one of the operators of               *)
(* PipelineStatus and moves one task.  Frame(t, s) is what a status s owes *)
(* to everybody but t, so a step is proved in two parts: the operator      *)
(* keeps the frame (section 1), and s suits the new place of t.            *)
(*                                                                         *)
(* The rows and the mailbox are owed to a task only while it holds the     *)
(* slot, or owns a row nobody else knows yet (LocalsOK): a step that is    *)
(* quiet for the others (Quiet) has only its own task left to look at.     *)
(*                                                                         *)
(* CalmInv names somebody who will come for each row and request; a step   *)
(* of the task it names hands them on, or keeps them (Passed).             *)
(***************************************************************************)
EXTENDS Pipeline, SequenceTheorems, SequenceFilterProofs, FiniteSetTheorems,
        WellFoundedInduction, TLAPS

USE NoWorkerAssumption

Frame(t, s) ==
    /\ StatusOK(s)
    /\ \A u \in Worker \ {t} : TaskOK(s, u, task[u])
    /\ halfDone # {} => Sealed(s) \/ (s.destructive /\ s.busyOwner.task \in halfDone)

-----------------------------------------------------------------------------
(* 1. The operators of PipelineStatus keep the frame.                       *)

\* A clear or a delete that _acquire_destructive_busy admits takes the slot from nobody.
LEMMA TakeDestructiveFrame ==
    ASSUME NEW t \in Worker, NEW s, NEW kind \in {"delete", "clear"}, Frame(t, s),
           ~ Fenced(s),
           ~ DestructiveRefused(s)
    PROVE  Frame(t, TakeDestructive(s, t, kind))
<1> DEFINE n == TakeDestructive(s, t, kind)
<1>1. HasStatusFields(n)
  BY ZenonT(40) DEF Frame, TakeDestructive, DestructiveRefused, StatusOK, HasStatusFields, Owner, NoOwner,
                    BusyKind
<1>2. OwnerOK(n)
  BY DEF Frame, TakeDestructive, DestructiveRefused, StatusOK, HasStatusFields, OwnerOK, NoOwner, Owner
<1>3. FlagsOK(n)
  BY DEF Frame, TakeDestructive, DestructiveRefused, StatusOK, HasStatusFields, OwnerOK, FlagsOK, Fenced,
         Sealed, Owns, NoOwner,
         Owner, BusyKind
<1>4. ASSUME NEW u \in Worker \ {t} PROVE TaskOK(n, u, task[u])
  BY DEF Frame, TakeDestructive, DestructiveRefused, StatusOK, HasStatusFields, OwnerOK, FlagsOK, Fenced,
         Sealed, Owns, NoOwner,
         Owner, BusyKind,
         TaskOK, SlotOK, PhaseOK, EntryOK
<1>5. halfDone # {} => Sealed(n) \/ (n.destructive /\ n.busyOwner.task \in halfDone)
  BY DEF Frame, TakeDestructive, DestructiveRefused, StatusOK, HasStatusFields, OwnerOK, FlagsOK, Fenced,
         Sealed, Owns, NoOwner,
         Owner, BusyKind
<1> QED BY <1>1, <1>2, <1>3, <1>4, <1>5 DEF Frame, StatusOK

\* Custom chunks that are admitted take the slot from nobody, and leave the enqueues their tokens.
LEMMA TakeDirectFrame ==
    ASSUME NEW t \in Worker, NEW s, Frame(t, s),
           ~ Fenced(s),
           ~ ChunksRefused(s)
    PROVE  Frame(t, TakeDirect(s, t, "custom_chunks"))
<1> DEFINE n == TakeDirect(s, t, "custom_chunks")
<1>1. HasStatusFields(n)
  BY ZenonT(40) DEF Frame, TakeDirect, ChunksRefused, StatusOK, HasStatusFields, Owner, NoOwner, BusyKind
<1>2. OwnerOK(n)
  BY DEF Frame, TakeDirect, ChunksRefused, StatusOK, HasStatusFields, OwnerOK, NoOwner, Owner
<1>3. FlagsOK(n)
  BY DEF Frame, TakeDirect, ChunksRefused, StatusOK, HasStatusFields, OwnerOK, FlagsOK, Fenced, Sealed,
         Owns, NoOwner,
         Owner, BusyKind
<1>4. ASSUME NEW u \in Worker \ {t} PROVE TaskOK(n, u, task[u])
  BY DEF Frame, TakeDirect, ChunksRefused, StatusOK, HasStatusFields, OwnerOK, FlagsOK, Fenced, Sealed,
         Owns, NoOwner,
         Owner, BusyKind,
         TaskOK, SlotOK, PhaseOK, EntryOK
<1>5. halfDone # {} => Sealed(n) \/ (n.destructive /\ n.busyOwner.task \in halfDone)
  BY DEF Frame, TakeDirect, ChunksRefused, StatusOK, HasStatusFields, OwnerOK, FlagsOK, Fenced, Sealed,
         Owns, NoOwner,
         Owner, BusyKind
<1> QED BY <1>1, <1>2, <1>3, <1>4, <1>5 DEF Frame, StatusOK

\* A run takes the free slot, or the one it already has; a scan fence that stands is its own.
LEMMA TakeProcessingFrame ==
    ASSUME NEW t \in Worker, NEW s, NEW b \in BOOLEAN, Frame(t, s),
           ~ Fenced(s),
           ~ s.busy \/ (Owns(s, t) /\ ~ s.destructive /\ s.phase = "idle"),
           s.exclusive => s.scanOwner = t
    PROVE  Frame(t, TakeProcessing(s, t, b))
<1> DEFINE n == TakeProcessing(s, t, b)
<1>1. HasStatusFields(n)
  BY ZenonT(40) DEF Frame, TakeProcessing, StatusOK, HasStatusFields, Owner, NoOwner, BusyKind
<1>2. OwnerOK(n)
  BY DEF Frame, TakeProcessing, StatusOK, HasStatusFields, OwnerOK, NoOwner, Owner
<1>3. FlagsOK(n)
  BY DEF Frame, TakeProcessing, StatusOK, HasStatusFields, OwnerOK, FlagsOK, Fenced, Sealed, Owns, NoOwner,
         Owner, BusyKind
<1>4. ASSUME NEW u \in Worker \ {t} PROVE TaskOK(n, u, task[u])
  BY DEF Frame, TakeProcessing, StatusOK, HasStatusFields, OwnerOK, FlagsOK, Fenced, Sealed, Owns, NoOwner,
         Owner, BusyKind,
         TaskOK, SlotOK, PhaseOK, EntryOK
<1>5. halfDone # {} => Sealed(n) \/ (n.destructive /\ n.busyOwner.task \in halfDone)
  BY DEF Frame, TakeProcessing, StatusOK, HasStatusFields, OwnerOK, FlagsOK, Fenced, Sealed, Owns, NoOwner,
         Owner, BusyKind
<1> QED BY <1>1, <1>2, <1>3, <1>4, <1>5 DEF Frame, StatusOK

\* A scan that is admitted finds no run, no enqueue in flight and no freeze.
LEMMA TakeScanningFrame ==
    ASSUME NEW t \in Worker, NEW s, Frame(t, s),
           ~ Fenced(s),
           ~ ScanRefused(s)
    PROVE  Frame(t, TakeScanning(s, t))
<1> DEFINE n == TakeScanning(s, t)
<1>1. HasStatusFields(n)
  BY ZenonT(40) DEF Frame, TakeScanning, ScanRefused, StatusOK, HasStatusFields, Owner, NoOwner, BusyKind
<1>2. OwnerOK(n)
  BY DEF Frame, TakeScanning, ScanRefused, StatusOK, HasStatusFields, OwnerOK, NoOwner, Owner
<1>3. FlagsOK(n)
  BY DEF Frame, TakeScanning, ScanRefused, StatusOK, HasStatusFields, OwnerOK, FlagsOK, Fenced, Sealed,
         Owns, NoOwner,
         Owner, BusyKind
<1>4. ASSUME NEW u \in Worker \ {t} PROVE TaskOK(n, u, task[u])
  BY DEF Frame, TakeScanning, ScanRefused, StatusOK, HasStatusFields, OwnerOK, FlagsOK, Fenced, Sealed,
         Owns, NoOwner,
         Owner, BusyKind,
         TaskOK, SlotOK, PhaseOK, EntryOK
<1>5. halfDone # {} => Sealed(n) \/ (n.destructive /\ n.busyOwner.task \in halfDone)
  BY DEF Frame, TakeScanning, ScanRefused, StatusOK, HasStatusFields, OwnerOK, FlagsOK, Fenced, Sealed,
         Owns, NoOwner,
         Owner, BusyKind
<1> QED BY <1>1, <1>2, <1>3, <1>4, <1>5 DEF Frame, StatusOK

\* A new enqueue token is refused to a destructive job, a scan and a freeze.
LEMMA TakeTokenFrame ==
    ASSUME NEW t \in Worker, NEW s, Frame(t, s),
           ~ Fenced(s),
           t \in s.tokens \/ (~ s.destructive /\ ~ s.exclusive /\ s.phase = "idle")
    PROVE  Frame(t, TakeToken(s, t))
<1> DEFINE n == TakeToken(s, t)
<1>1. HasStatusFields(n)
  BY ZenonT(40) DEF Frame, TakeToken, StatusOK, HasStatusFields, Owner, NoOwner, BusyKind
<1>2. OwnerOK(n)
  BY DEF Frame, TakeToken, StatusOK, HasStatusFields, OwnerOK, NoOwner, Owner
<1>3. FlagsOK(n)
  BY DEF Frame, TakeToken, StatusOK, HasStatusFields, OwnerOK, FlagsOK, Fenced, Sealed, Owns, NoOwner,
         Owner, BusyKind
<1>4. ASSUME NEW u \in Worker \ {t} PROVE TaskOK(n, u, task[u])
  BY DEF Frame, TakeToken, StatusOK, HasStatusFields, OwnerOK, FlagsOK, Fenced, Sealed, Owns, NoOwner,
         Owner, BusyKind,
         TaskOK, SlotOK, PhaseOK, EntryOK, HoldingPc, SweepPc, ChunksPc, ResetPc
<1>5. halfDone # {} => Sealed(n) \/ (n.destructive /\ n.busyOwner.task \in halfDone)
  BY DEF Frame, TakeToken, StatusOK, HasStatusFields, OwnerOK, FlagsOK, Fenced, Sealed, Owns, NoOwner,
         Owner, BusyKind
<1> QED BY <1>1, <1>2, <1>3, <1>4, <1>5 DEF Frame, StatusOK

\* A token that is given back was nobody else's.
LEMMA ReleaseTokenFrame ==
    ASSUME NEW t \in Worker, NEW s, Frame(t, s)
    PROVE  Frame(t, ReleaseToken(s, t))
<1> DEFINE n == ReleaseToken(s, t)
<1>1. HasStatusFields(n)
  BY ZenonT(40) DEF Frame, ReleaseToken, StatusOK, HasStatusFields, Owner, NoOwner, BusyKind
<1>2. OwnerOK(n)
  BY DEF Frame, ReleaseToken, StatusOK, HasStatusFields, OwnerOK, NoOwner, Owner
<1>3. FlagsOK(n)
  BY DEF Frame, ReleaseToken, StatusOK, HasStatusFields, OwnerOK, FlagsOK, Fenced, Sealed, Owns, NoOwner,
         Owner, BusyKind
<1>4. ASSUME NEW u \in Worker \ {t} PROVE TaskOK(n, u, task[u])
  BY DEF Frame, ReleaseToken, StatusOK, HasStatusFields, OwnerOK, FlagsOK, Fenced, Sealed, Owns, NoOwner,
         Owner, BusyKind,
         TaskOK, SlotOK, PhaseOK, EntryOK
<1>5. halfDone # {} => Sealed(n) \/ (n.destructive /\ n.busyOwner.task \in halfDone)
  BY DEF Frame, ReleaseToken, StatusOK, HasStatusFields, OwnerOK, FlagsOK, Fenced, Sealed, Owns, NoOwner,
         Owner, BusyKind
<1> QED BY <1>1, <1>2, <1>3, <1>4, <1>5 DEF Frame, StatusOK

\* scan_deferred_processing is a note that takes nothing from anybody.
LEMMA DeferFrame ==
    ASSUME NEW t \in Worker, NEW s, Frame(t, s)
    PROVE  Frame(t, Defer(s))
<1> DEFINE n == Defer(s)
<1>1. HasStatusFields(n)
  BY ZenonT(40) DEF Frame, Defer, StatusOK, HasStatusFields, Owner, NoOwner, BusyKind
<1>2. OwnerOK(n)
  BY DEF Frame, Defer, StatusOK, HasStatusFields, OwnerOK, NoOwner, Owner
<1>3. FlagsOK(n)
  BY DEF Frame, Defer, StatusOK, HasStatusFields, OwnerOK, FlagsOK, Fenced, Sealed, Owns, NoOwner,
         Owner, BusyKind
<1>4. ASSUME NEW u \in Worker \ {t} PROVE TaskOK(n, u, task[u])
  BY DEF Frame, Defer, StatusOK, HasStatusFields, OwnerOK, FlagsOK, Fenced, Sealed, Owns, NoOwner,
         Owner, BusyKind,
         TaskOK, SlotOK, PhaseOK, EntryOK
<1>5. halfDone # {} => Sealed(n) \/ (n.destructive /\ n.busyOwner.task \in halfDone)
  BY DEF Frame, Defer, StatusOK, HasStatusFields, OwnerOK, FlagsOK, Fenced, Sealed, Owns, NoOwner,
         Owner, BusyKind
<1> QED BY <1>1, <1>2, <1>3, <1>4, <1>5 DEF Frame, StatusOK

\* A cancellation flag takes nothing from anybody, set or cleared.
LEMMA CancelFrame ==
    ASSUME NEW t \in Worker, NEW s, NEW c \in {"no", "user", "internal"}, Frame(t, s)
    PROVE  Frame(t, [s EXCEPT !.cancel = c])
<1> DEFINE n == [s EXCEPT !.cancel = c]
<1>1. HasStatusFields(n)
  BY ZenonT(40) DEF Frame, StatusOK, HasStatusFields, Owner, NoOwner, BusyKind
<1>2. OwnerOK(n)
  BY DEF Frame, StatusOK, HasStatusFields, OwnerOK, NoOwner, Owner
<1>3. FlagsOK(n)
  BY DEF Frame, StatusOK, HasStatusFields, OwnerOK, FlagsOK, Fenced, Sealed, Owns, NoOwner,
         Owner, BusyKind
<1>4. ASSUME NEW u \in Worker \ {t} PROVE TaskOK(n, u, task[u])
  BY DEF Frame, StatusOK, HasStatusFields, OwnerOK, FlagsOK, Fenced, Sealed, Owns, NoOwner,
         Owner, BusyKind,
         TaskOK, SlotOK, PhaseOK, EntryOK
<1>5. halfDone # {} => Sealed(n) \/ (n.destructive /\ n.busyOwner.task \in halfDone)
  BY DEF Frame, StatusOK, HasStatusFields, OwnerOK, FlagsOK, Fenced, Sealed, Owns, NoOwner,
         Owner, BusyKind
<1> QED BY <1>1, <1>2, <1>3, <1>4, <1>5 DEF Frame, StatusOK

\* The transition of a scan lifts its own fence, never another's.
LEMMA EndClassificationFrame ==
    ASSUME NEW t \in Worker, NEW s, Frame(t, s)
    PROVE  Frame(t, EndClassification(s, t))
<1> DEFINE n == EndClassification(s, t)
<1>1. HasStatusFields(n)
  BY ZenonT(40) DEF Frame, EndClassification, StatusOK, HasStatusFields, Owner, NoOwner, BusyKind
<1>2. OwnerOK(n)
  BY DEF Frame, EndClassification, StatusOK, HasStatusFields, OwnerOK, NoOwner, Owner
<1>3. FlagsOK(n)
  BY DEF Frame, EndClassification, StatusOK, HasStatusFields, OwnerOK, FlagsOK, Fenced, Sealed, Owns, NoOwner,
         Owner, BusyKind
<1>4. ASSUME NEW u \in Worker \ {t} PROVE TaskOK(n, u, task[u])
  BY DEF Frame, EndClassification, StatusOK, HasStatusFields, OwnerOK, FlagsOK, Fenced, Sealed, Owns, NoOwner,
         Owner, BusyKind,
         TaskOK, SlotOK, PhaseOK, EntryOK
<1>5. halfDone # {} => Sealed(n) \/ (n.destructive /\ n.busyOwner.task \in halfDone)
  BY DEF Frame, EndClassification, StatusOK, HasStatusFields, OwnerOK, FlagsOK, Fenced, Sealed, Owns, NoOwner,
         Owner, BusyKind
<1> QED BY <1>1, <1>2, <1>3, <1>4, <1>5 DEF Frame, StatusOK

\* The release of a scan lifts its own fence, never another's.
LEMMA ReleaseScanningFrame ==
    ASSUME NEW t \in Worker, NEW s, Frame(t, s)
    PROVE  Frame(t, ReleaseScanning(s, t))
<1> DEFINE n == ReleaseScanning(s, t)
<1>1. HasStatusFields(n)
  BY ZenonT(40) DEF Frame, ReleaseScanning, StatusOK, HasStatusFields, Owner, NoOwner, BusyKind
<1>2. OwnerOK(n)
  BY DEF Frame, ReleaseScanning, StatusOK, HasStatusFields, OwnerOK, NoOwner, Owner
<1>3. FlagsOK(n)
  BY DEF Frame, ReleaseScanning, StatusOK, HasStatusFields, OwnerOK, FlagsOK, Fenced, Sealed, Owns, NoOwner,
         Owner, BusyKind
<1>4. ASSUME NEW u \in Worker \ {t} PROVE TaskOK(n, u, task[u])
  BY DEF Frame, ReleaseScanning, StatusOK, HasStatusFields, OwnerOK, FlagsOK, Fenced, Sealed, Owns, NoOwner,
         Owner, BusyKind,
         TaskOK, SlotOK, PhaseOK, EntryOK
<1>5. halfDone # {} => Sealed(n) \/ (n.destructive /\ n.busyOwner.task \in halfDone)
  BY DEF Frame, ReleaseScanning, StatusOK, HasStatusFields, OwnerOK, FlagsOK, Fenced, Sealed, Owns, NoOwner,
         Owner, BusyKind
<1> QED BY <1>1, <1>2, <1>3, <1>4, <1>5 DEF Frame, StatusOK

\* A run freezes the enqueues over its own slot.
LEMMA BeginDrainFrame ==
    ASSUME NEW t \in Worker, NEW s, NEW r, Frame(t, s),
           Owns(s, t) => ~ s.destructive /\ s.busyOwner.kind # "custom_chunks"
    PROVE  Frame(t, BeginDrain(s, t, r))
<1> DEFINE n == BeginDrain(s, t, r)
<1>1. HasStatusFields(n)
  BY ZenonT(40) DEF Frame, BeginDrain, Phase, StatusOK, HasStatusFields, Owner, NoOwner, BusyKind
<1>2. OwnerOK(n)
  BY DEF Frame, BeginDrain, Phase, StatusOK, HasStatusFields, OwnerOK, NoOwner, Owner
<1>3. FlagsOK(n)
  BY DEF Frame, BeginDrain, Phase, StatusOK, HasStatusFields, OwnerOK, FlagsOK, Fenced, Sealed, Owns, NoOwner,
         Owner, BusyKind
<1>4. ASSUME NEW u \in Worker \ {t} PROVE TaskOK(n, u, task[u])
  BY DEF Frame, BeginDrain, Phase, StatusOK, HasStatusFields, OwnerOK, FlagsOK, Fenced, Sealed, Owns, NoOwner,
         Owner, BusyKind,
         TaskOK, SlotOK, PhaseOK, EntryOK, HoldingPc, SweepPc, ChunksPc, ResetPc
<1>5. halfDone # {} => Sealed(n) \/ (n.destructive /\ n.busyOwner.task \in halfDone)
  BY DEF Frame, BeginDrain, Phase, StatusOK, HasStatusFields, OwnerOK, FlagsOK, Fenced, Sealed, Owns, NoOwner,
         Owner, BusyKind
<1> QED BY <1>1, <1>2, <1>3, <1>4, <1>5 DEF Frame, StatusOK

\* A run that has drained keeps its freeze through the reset.
LEMMA EnterResetFrame ==
    ASSUME NEW t \in Worker, NEW s, Frame(t, s),
           Owns(s, t) => s.phase = "drain"
    PROVE  Frame(t, EnterReset(s, t))
<1> DEFINE n == EnterReset(s, t)
<1>1. HasStatusFields(n)
  BY ZenonT(40) DEF Frame, EnterReset, Phase, StatusOK, HasStatusFields, Owner, NoOwner, BusyKind
<1>2. OwnerOK(n)
  BY DEF Frame, EnterReset, Phase, StatusOK, HasStatusFields, OwnerOK, NoOwner, Owner
<1>3. FlagsOK(n)
  BY DEF Frame, EnterReset, Phase, StatusOK, HasStatusFields, OwnerOK, FlagsOK, Fenced, Sealed, Owns, NoOwner,
         Owner, BusyKind
<1>4. ASSUME NEW u \in Worker \ {t} PROVE TaskOK(n, u, task[u])
  BY DEF Frame, EnterReset, Phase, StatusOK, HasStatusFields, OwnerOK, FlagsOK, Fenced, Sealed, Owns, NoOwner,
         Owner, BusyKind,
         TaskOK, SlotOK, PhaseOK, EntryOK, HoldingPc, SweepPc, ChunksPc, ResetPc
<1>5. halfDone # {} => Sealed(n) \/ (n.destructive /\ n.busyOwner.task \in halfDone)
  BY DEF Frame, EnterReset, Phase, StatusOK, HasStatusFields, OwnerOK, FlagsOK, Fenced, Sealed, Owns, NoOwner,
         Owner, BusyKind
<1> QED BY <1>1, <1>2, <1>3, <1>4, <1>5 DEF Frame, StatusOK

\* A run ends its own freeze.
LEMMA EndDrainFrame ==
    ASSUME NEW t \in Worker, NEW s, Frame(t, s)
    PROVE  Frame(t, EndDrain(s, t))
<1> DEFINE n == EndDrain(s, t)
<1>1. HasStatusFields(n)
  BY ZenonT(40) DEF Frame, EndDrain, Phase, StatusOK, HasStatusFields, Owner, NoOwner, BusyKind
<1>2. OwnerOK(n)
  BY DEF Frame, EndDrain, Phase, StatusOK, HasStatusFields, OwnerOK, NoOwner, Owner
<1>3. FlagsOK(n)
  BY DEF Frame, EndDrain, Phase, StatusOK, HasStatusFields, OwnerOK, FlagsOK, Fenced, Sealed, Owns, NoOwner,
         Owner, BusyKind
<1>4. ASSUME NEW u \in Worker \ {t} PROVE TaskOK(n, u, task[u])
  BY DEF Frame, EndDrain, Phase, StatusOK, HasStatusFields, OwnerOK, FlagsOK, Fenced, Sealed, Owns, NoOwner,
         Owner, BusyKind,
         TaskOK, SlotOK, PhaseOK, EntryOK, HoldingPc, SweepPc, ChunksPc, ResetPc
<1>5. halfDone # {} => Sealed(n) \/ (n.destructive /\ n.busyOwner.task \in halfDone)
  BY DEF Frame, EndDrain, Phase, StatusOK, HasStatusFields, OwnerOK, FlagsOK, Fenced, Sealed, Owns, NoOwner,
         Owner, BusyKind
<1> QED BY <1>1, <1>2, <1>3, <1>4, <1>5 DEF Frame, StatusOK

\* A run gives back its own slot and freeze, never another's.
LEMMA ReleaseRunFrame ==
    ASSUME NEW t \in Worker, NEW s, Frame(t, s),
           Owns(s, t) => ~ s.destructive
    PROVE  Frame(t, ReleaseRun(s, t))
<1> DEFINE n == ReleaseRun(s, t)
<1>1. HasStatusFields(n)
  BY ZenonT(40) DEF Frame, ReleaseRun, Phase, StatusOK, HasStatusFields, Owner, NoOwner, BusyKind
<1>2. OwnerOK(n)
  BY DEF Frame, ReleaseRun, Phase, StatusOK, HasStatusFields, OwnerOK, NoOwner, Owner
<1>3. FlagsOK(n)
  BY DEF Frame, ReleaseRun, Phase, StatusOK, HasStatusFields, OwnerOK, FlagsOK, Fenced, Sealed, Owns, NoOwner,
         Owner, BusyKind
<1>4. ASSUME NEW u \in Worker \ {t} PROVE TaskOK(n, u, task[u])
  BY DEF Frame, ReleaseRun, Phase, StatusOK, HasStatusFields, OwnerOK, FlagsOK, Fenced, Sealed, Owns, NoOwner,
         Owner, BusyKind,
         TaskOK, SlotOK, PhaseOK, EntryOK, HoldingPc, SweepPc, ChunksPc, ResetPc
<1>5. halfDone # {} => Sealed(n) \/ (n.destructive /\ n.busyOwner.task \in halfDone)
  BY DEF Frame, ReleaseRun, Phase, StatusOK, HasStatusFields, OwnerOK, FlagsOK, Fenced, Sealed, Owns, NoOwner,
         Owner, BusyKind
<1> QED BY <1>1, <1>2, <1>3, <1>4, <1>5 DEF Frame, StatusOK

\* The decision that finds nothing to do gives back the slot of the run that decides.
LEMMA ReleasedFrame ==
    ASSUME NEW t \in Worker, NEW s, Frame(t, s),
           Owns(s, t),
           ~ s.destructive,
           s.phase = "idle"
    PROVE  Frame(t, [s EXCEPT !.busy = FALSE, !.busyOwner = NoOwner])
<1> DEFINE n == [s EXCEPT !.busy = FALSE, !.busyOwner = NoOwner]
<1>1. HasStatusFields(n)
  BY ZenonT(40) DEF Frame, StatusOK, HasStatusFields, Owner, NoOwner, BusyKind
<1>2. OwnerOK(n)
  BY DEF Frame, StatusOK, HasStatusFields, OwnerOK, NoOwner, Owner
<1>3. FlagsOK(n)
  BY DEF Frame, StatusOK, HasStatusFields, OwnerOK, FlagsOK, Fenced, Sealed, Owns, NoOwner,
         Owner, BusyKind
<1>4. ASSUME NEW u \in Worker \ {t} PROVE TaskOK(n, u, task[u])
  BY DEF Frame, StatusOK, HasStatusFields, OwnerOK, FlagsOK, Fenced, Sealed, Owns, NoOwner,
         Owner, BusyKind,
         TaskOK, SlotOK, PhaseOK, EntryOK
<1>5. halfDone # {} => Sealed(n) \/ (n.destructive /\ n.busyOwner.task \in halfDone)
  BY DEF Frame, StatusOK, HasStatusFields, OwnerOK, FlagsOK, Fenced, Sealed, Owns, NoOwner,
         Owner, BusyKind
<1> QED BY <1>1, <1>2, <1>3, <1>4, <1>5 DEF Frame, StatusOK

\* A clear gives back its own slot, never another's.
LEMMA ReleaseClearFrame ==
    ASSUME NEW t \in Worker, NEW s, Frame(t, s),
           Owns(s, t) => s.destructive,
           t \notin halfDone
    PROVE  Frame(t, ReleaseClear(s, t))
<1> DEFINE n == ReleaseClear(s, t)
<1>1. HasStatusFields(n)
  BY ZenonT(40) DEF Frame, ReleaseClear, StatusOK, HasStatusFields, Owner, NoOwner, BusyKind
<1>2. OwnerOK(n)
  BY DEF Frame, ReleaseClear, StatusOK, HasStatusFields, OwnerOK, NoOwner, Owner
<1>3. FlagsOK(n)
  BY DEF Frame, ReleaseClear, StatusOK, HasStatusFields, OwnerOK, FlagsOK, Fenced, Sealed, Owns, NoOwner,
         Owner, BusyKind
<1>4. ASSUME NEW u \in Worker \ {t} PROVE TaskOK(n, u, task[u])
  BY DEF Frame, ReleaseClear, StatusOK, HasStatusFields, OwnerOK, FlagsOK, Fenced, Sealed, Owns, NoOwner,
         Owner, BusyKind,
         TaskOK, SlotOK, PhaseOK, EntryOK
<1>5. halfDone # {} => Sealed(n) \/ (n.destructive /\ n.busyOwner.task \in halfDone)
  BY DEF Frame, ReleaseClear, StatusOK, HasStatusFields, OwnerOK, FlagsOK, Fenced, Sealed, Owns, NoOwner,
         Owner, BusyKind
<1> QED BY <1>1, <1>2, <1>3, <1>4, <1>5 DEF Frame, StatusOK

\* A delete, or an insert of chunks, gives back its own slot and its cancellation, never another's.
LEMMA ReleaseDeleteFrame ==
    ASSUME NEW t \in Worker, NEW s, Frame(t, s),
           Owns(s, t) => s.destructive \/ s.phase = "idle",
           t \notin halfDone
    PROVE  Frame(t, ReleaseDelete(s, t))
<1> DEFINE n == ReleaseDelete(s, t)
<1>1. HasStatusFields(n)
  BY ZenonT(40) DEF Frame, ReleaseDelete, StatusOK, HasStatusFields, Owner, NoOwner, BusyKind
<1>2. OwnerOK(n)
  BY DEF Frame, ReleaseDelete, StatusOK, HasStatusFields, OwnerOK, NoOwner, Owner
<1>3. FlagsOK(n)
  BY DEF Frame, ReleaseDelete, StatusOK, HasStatusFields, OwnerOK, FlagsOK, Fenced, Sealed, Owns, NoOwner,
         Owner, BusyKind
<1>4. ASSUME NEW u \in Worker \ {t} PROVE TaskOK(n, u, task[u])
  BY DEF Frame, ReleaseDelete, StatusOK, HasStatusFields, OwnerOK, FlagsOK, Fenced, Sealed, Owns, NoOwner,
         Owner, BusyKind,
         TaskOK, SlotOK, PhaseOK, EntryOK
<1>5. halfDone # {} => Sealed(n) \/ (n.destructive /\ n.busyOwner.task \in halfDone)
  BY DEF Frame, ReleaseDelete, StatusOK, HasStatusFields, OwnerOK, FlagsOK, Fenced, Sealed, Owns, NoOwner,
         Owner, BusyKind
<1> QED BY <1>1, <1>2, <1>3, <1>4, <1>5 DEF Frame, StatusOK

\* A drain that cannot advance fences the workspace when nobody else is inside.
LEMMA FenceFrame ==
    ASSUME NEW t \in Worker, NEW s, NEW kind \in Recovery \ {"no"}, Frame(t, s),
           Owns(s, t),
           s.tokens = {},
           ~ s.exclusive,
           ~ s.destructive,
           s.busyOwner.kind # "custom_chunks"
    PROVE  Frame(t, Fence(s, kind))
<1> DEFINE n == Fence(s, kind)
<1>1. HasStatusFields(n)
  BY ZenonT(40) DEF Frame, Fence, StatusOK, HasStatusFields, Owner, NoOwner, BusyKind
<1>2. OwnerOK(n)
  BY DEF Frame, Fence, StatusOK, HasStatusFields, OwnerOK, NoOwner, Owner
<1>3. FlagsOK(n)
  BY DEF Frame, Fence, StatusOK, HasStatusFields, OwnerOK, FlagsOK, Fenced, Sealed, Owns, NoOwner,
         Owner, BusyKind
<1>4. ASSUME NEW u \in Worker \ {t} PROVE TaskOK(n, u, task[u])
  BY DEF Frame, Fence, StatusOK, HasStatusFields, OwnerOK, FlagsOK, Fenced, Sealed, Owns, NoOwner,
         Owner, BusyKind,
         TaskOK, SlotOK, PhaseOK, EntryOK
<1>5. halfDone # {} => Sealed(n) \/ (n.destructive /\ n.busyOwner.task \in halfDone)
  BY DEF Frame, Fence, StatusOK, HasStatusFields, OwnerOK, FlagsOK, Fenced, Sealed, Owns, NoOwner,
         Owner, BusyKind
<1> QED BY <1>1, <1>2, <1>3, <1>4, <1>5 DEF Frame, StatusOK

\* Dead workers lose what they held: nobody who lives stood on it.
LEMMA ReconcileFrame ==
    ASSUME NEW t \in Worker, FlagsInv, ~ At(t, "dead")
    PROVE  Frame(t, Reconcile(status, Dead)) /\ TaskOK(Reconcile(status, Dead), t, task[t])
<1> DEFINE b == ReapBusy(status, Dead)
           n == Reconcile(status, Dead)
<1>0. StatusOK(status) /\ HalfOK /\ \A u \in Worker : TaskOK(status, u, task[u])
  BY DEF FlagsInv
<1>1. Dead \subseteq Worker /\ NoWorker \notin Dead
  BY DEF Dead
<1>2. StatusOK(b)
  <2>1. HasStatusFields(b)
    <3>1. CASE status.busyOwner.task \in Dead /\ (status.busy \/ status.destructive)
      <4> DEFINE k == IF status.busyOwner.kind \in Rerunnable THEN status.recovery
                      ELSE status.busyOwner.kind
      <4>1. status.busyOwner \in Owner /\ status.recovery \in Recovery
        BY <1>0, <1>1, <3>1 DEF StatusOK, HasStatusFields, NoOwner
      <4>2. k \in Recovery
        BY <4>1 DEF Owner, BusyKind, Recovery, Rerunnable
      <4>3. b = [status EXCEPT !.busy = FALSE, !.destructive = FALSE, !.busyOwner = NoOwner,
                               !.phase = "idle", !.manualOwner = NoManualOwner, !.recovery = k]
        BY <3>1 DEF ReapBusy
      <4> HIDE DEF k
      <4> QED BY <1>0, <4>2, <4>3 DEF StatusOK, HasStatusFields, Phase
    <3> QED BY <1>0, <3>1 DEF StatusOK, ReapBusy
  <2>2. OwnerOK(b)
    <3>1. CASE status.busyOwner.task \in Dead /\ (status.busy \/ status.destructive)
      <4>1. b.busy = FALSE /\ b.destructive = FALSE /\ b.busyOwner = NoOwner
        BY <1>0, <3>1 DEF StatusOK, ReapBusy, HasStatusFields
      <4> QED BY <4>1 DEF OwnerOK, NoOwner
    <3> QED BY <1>0, <3>1 DEF StatusOK, ReapBusy
  <2>3. FlagsOK(b)
    BY <1>0, <1>1 DEF StatusOK, ReapBusy, HasStatusFields, OwnerOK, FlagsOK, Fenced, Sealed, Owner, NoOwner,
                      BusyKind, Rerunnable
  <2> QED BY <2>1, <2>2, <2>3 DEF StatusOK
<1>3. ASSUME NEW u \in Worker PROVE TaskOK(b, u, task[u])
  <2>1. TaskOK(status, u, task[u])
    BY <1>0
  <2>2. CASE status.busyOwner.task \in Dead /\ (status.busy \/ status.destructive)
    <3>1. task[u].pc \notin HoldingPc
      BY <2>1, <2>2 DEF TaskOK, SlotOK, Owns, Dead, At, HoldingPc, DestroyingPc, SweepPc, ChunksPc, ResetPc
    <3> QED BY <1>0, <1>1, <2>1, <2>2, <3>1
            DEF StatusOK, ReapBusy, HasStatusFields, TaskOK, SlotOK, PhaseOK, EntryOK, Owns, NoOwner,
                HoldingPc, SweepPc, ChunksPc, ResetPc
  <2> QED BY <2>1, <2>2 DEF ReapBusy
<1>4. halfDone # {} => Sealed(b) \/ (b.destructive /\ b.busyOwner.task \in halfDone)
  BY <1>0 DEF HalfOK, StatusOK, ReapBusy, HasStatusFields, OwnerOK, FlagsOK, Fenced, Sealed, NoOwner, Owner,
              BusyKind, Rerunnable
<1>5. HasStatusFields(n) /\ n.recovery = b.recovery
  BY <1>2, <1>1, ZenonT(40) DEF StatusOK, Reconcile, ReapScanning, HasStatusFields, Fenced, Sealed
<1>6. OwnerOK(n)
  BY <1>2 DEF StatusOK, Reconcile, ReapScanning, HasStatusFields, OwnerOK
<1>7. FlagsOK(n)
  BY <1>2 DEF StatusOK, Reconcile, ReapScanning, HasStatusFields, FlagsOK, Fenced, Sealed
<1>8. ASSUME NEW u \in Worker PROVE TaskOK(n, u, task[u])
  <2>1. TaskOK(b, u, task[u])
    BY <1>3
  <2>2. task[u].pc # "dead" => u \notin Dead
    BY DEF Dead, At
  <2> QED BY <1>1, <1>2, <2>1, <2>2
          DEF StatusOK, Reconcile, ReapScanning, HasStatusFields, TaskOK, SlotOK, PhaseOK, EntryOK, Owns,
              Fenced, Sealed, Fencing
<1>9. halfDone # {} => Sealed(n) \/ (n.destructive /\ n.busyOwner.task \in halfDone)
  BY <1>2, <1>4 DEF StatusOK, Reconcile, ReapScanning, HasStatusFields, Fenced, Sealed
<1> QED BY <1>5, <1>6, <1>7, <1>8, <1>9 DEF Frame, StatusOK

-----------------------------------------------------------------------------
(* 2. A step moves one task.                                                *)

\* Task t goes to l; what else it remembers is left open.
Moves(t, l) ==
    /\ task' = [task EXCEPT ![t] = task'[t]]
    /\ HasTaskFields(task'[t])
    /\ task'[t].pc = l
    /\ task'[t].stage = task[t].stage
    /\ halfDone' = halfDone

\* What the invariant says before a step of a live task t.
LEMMA Before ==
    ASSUME NEW t \in Worker, FlagsInv, ~ At(t, "dead")
    PROVE  /\ Frame(t, status)
           /\ TaskOK(status, t, task[t])
           /\ t \notin halfDone
  BY DEF FlagsInv, Frame, HalfOK, Dead, At

\* A step of t restores the invariant if the new status suits everybody else, and t where it went.
LEMMA StepOK ==
    ASSUME NEW t \in Worker, FlagsInv, ~ At(t, "dead"),
           Frame(t, status'), TaskOK(status', t, task'[t]),
           task' = [task EXCEPT ![t] = task'[t]],
           halfDone' = halfDone
    PROVE  FlagsInv'
<1>1. task = [u \in Worker |-> task[u]]
  BY DEF FlagsInv
<1>2. task' = [u \in Worker |-> task'[u]] /\ \A u \in Worker \ {t} : task'[u] = task[u]
  BY <1>1
<1>3. ASSUME NEW u \in Worker PROVE TaskOK(status', u, task'[u])
  BY <1>2 DEF Frame
<1>4. halfDone \subseteq Dead'
  BY <1>2, Before DEF FlagsInv, HalfOK, Dead, At
<1>5. HalfOK'
  BY <1>4 DEF HalfOK, Frame
<1> QED BY <1>2, <1>3, <1>5 DEF FlagsInv, Frame

\* A step of Goto form moves t and keeps the rest of its locals.
LEMMA GotoMoves ==
    ASSUME NEW t \in Worker, FlagsInv, NEW l \in DrivePc \cup OtherPc, Goto(t, l), halfDone' = halfDone
    PROVE  Moves(t, l)
  BY DEF FlagsInv, TaskOK, HasTaskFields, Goto, Moves

\* The end of a drive moves t and forgets the locals of the drive.
LEMMA LeaveMoves ==
    ASSUME NEW t \in Worker, FlagsInv, NEW l \in DrivePc \cup OtherPc, Leave(t, l), halfDone' = halfDone
    PROVE  Moves(t, l)
  BY DEF FlagsInv, TaskOK, HasTaskFields, Leave, IdleTask, Moves

\* Within the sweep, and out of it to the finalizer, everything stays as it was.
LEMMA SweepMove ==
    ASSUME NEW t \in Worker, FlagsInv, task[t].pc \in SweepPc,
           NEW l \in (SweepPc \ {"confirm"}) \cup {"finalize"}, Moves(t, l),
           \/ status' = status
           \/ \E c \in {"no", "user", "internal"} : status' = [status EXCEPT !.cancel = c]
    PROVE  FlagsInv'
<1>1. ~ At(t, "dead")
  BY DEF At, SweepPc
<1>2. Frame(t, status) /\ TaskOK(status, t, task[t])
  BY <1>1, Before
<1>3. Frame(t, status')
  <2>1. CASE status' = status
    BY <1>2, <2>1
  <2>2. ASSUME NEW c \in {"no", "user", "internal"}, status' = [status EXCEPT !.cancel = c]
        PROVE  Frame(t, status')
    BY <1>2, <2>2, CancelFrame
  <2> QED BY <2>1, <2>2
<1>4. TaskOK(status', t, task[t])
  BY <1>2 DEF Frame, StatusOK, HasStatusFields, TaskOK, SlotOK, PhaseOK, EntryOK, Owns, Fenced, Sealed
<1>5. SlotOK(status', t, task'[t])
  BY <1>4 DEF Moves, TaskOK, SlotOK, HoldingPc, SweepPc, ChunksPc, DestroyingPc
<1>6. PhaseOK(status', task'[t])
  BY <1>4 DEF Moves, TaskOK, PhaseOK, SweepPc, ResetPc
<1>7. EntryOK(status', t, task'[t])
  BY <1>4 DEF Moves, TaskOK, EntryOK, Fencing, SweepPc, ChunksPc, ScanPc
<1> QED BY <1>1, <1>3, <1>5, <1>6, <1>7, StepOK DEF Moves, TaskOK

-----------------------------------------------------------------------------
(* 3. The actions of a drive.                                               *)

\* A drive that took the slot; one that was refused leaves.
LEMMA AcquireProcessingOK ==
    ASSUME NEW t \in Worker, FlagsInv, AcquireProcessing(t)
    PROVE  FlagsInv'
<1> DEFINE s == Reconcile(status, Dead)
<1>1. At(t, "acquire") /\ ~ At(t, "dead") /\ halfDone' = halfDone
  BY DEF AcquireProcessing, ghosts, At
<1>2. Frame(t, s) /\ TaskOK(s, t, task[t])
  BY <1>1, ReconcileFrame
<1>3. ~ Owns(s, t)
  BY <1>1, <1>2 DEF TaskOK, SlotOK, At, HoldingPc, DestroyingPc, SweepPc, ChunksPc, ResetPc
<1>4. task[t].stage = "reset" => s.exclusive /\ s.scanOwner = t /\ t \in Scans
  BY <1>1, <1>2 DEF TaskOK, EntryOK, Fencing, At
<1>5. s.exclusive /\ s.scanOwner = t => task[t].stage = "reset"
  BY <1>1, <1>2 DEF TaskOK, EntryOK, Fencing, At
<1> HIDE DEF s
<1>6. CASE Leave(t, Done(t)) /\ status' \in {s, Defer(s)}
  <2>1. Frame(t, status')
    BY <1>2, <1>6, DeferFrame
  <2>2. TaskOK(status', t, task[t])
    BY <1>2, <1>6 DEF Frame, StatusOK, HasStatusFields, Defer, TaskOK, SlotOK, PhaseOK, EntryOK,
                      Owns, Fenced, Sealed
  <2>3. /\ Done(t) \in {"leaving", "transition", "leave_scan", "done"}
        /\ task[t].stage = "reset" <=> Done(t) = "transition"
    BY <1>4, TaskAssumption DEF Done, InReset
  <2>4. Moves(t, Done(t))
    BY <1>1, <1>6, <2>3, LeaveMoves DEF DrivePc, OtherPc
  <2>5. TaskOK(status', t, task'[t])
    BY <1>1, <2>2, <2>3, <2>4
       DEF Moves, At, TaskOK, SlotOK, PhaseOK, EntryOK, Fencing, HoldingPc, DestroyingPc, SweepPc, ChunksPc,
           ResetPc, ScanPc
  <2> QED BY <1>1, <2>1, <2>4, <2>5, StepOK DEF Moves
<1>7. CASE /\ ~ Fenced(s) /\ ~ s.exclusive /\ ~ s.busy
           /\ status' = TakeProcessing(s, t, FALSE)
           /\ Goto(t, "peek")
  <2>1. Frame(t, status')
    BY <1>2, <1>7, TakeProcessingFrame
  <2>2. Moves(t, "peek")
    BY <1>1, <1>7, GotoMoves DEF DrivePc
  <2>3. task[t].stage # "reset"
    BY <1>4, <1>7
  <2>4. /\ Owns(status', t) /\ ~ Fenced(status') /\ ~ status'.destructive
           /\ status'.busyOwner.kind # "custom_chunks"
        /\ status'.phase = "idle" /\ ~ status'.exclusive
    BY <1>2, <1>7 DEF Frame, StatusOK, HasStatusFields, OwnerOK, FlagsOK, TakeProcessing, Owns, Fenced, Sealed,
                      NoOwner, Owner
  <2>5. TaskOK(status', t, task'[t])
    BY <2>2, <2>3, <2>4
       DEF Moves, TaskOK, SlotOK, PhaseOK, EntryOK, Fencing, HoldingPc, DestroyingPc, SweepPc, ChunksPc,
           ResetPc, ScanPc
  <2> QED BY <1>1, <2>1, <2>2, <2>5, StepOK DEF Moves
<1> QED BY <1>6, <1>7 DEF AcquireProcessing, s

\* Reading, deciding and batching.
LEMMA SweepStepOK ==
    ASSUME NEW t \in Worker, FlagsInv,
           \/ FirstPage(t) \/ Top(t) \/ Validate(t) \/ FeedDocument(t) \/ EndBatch(t)
           \/ \E d \in Doc : StartDocument(t, d) \/ FinishDocument(t, d)
           \/ Sweep(t) \/ DrainMailbox(t) \/ Fresh(t)
    PROVE  FlagsInv'
<1>0. task = [u \in Worker |-> task[u]] /\ HasTaskFields(task[t])
  BY DEF FlagsInv, TaskOK
<1> SUFFICES /\ task[t].pc \in SweepPc
             /\ \E l \in (SweepPc \ {"confirm"}) \cup {"finalize"} : Moves(t, l)
             /\ \/ status' = status
                \/ \E c \in {"no", "user", "internal"} : status' = [status EXCEPT !.cancel = c]
  BY SweepMove
<1>1. CASE FirstPage(t)
  BY <1>0, <1>1 DEF FirstPage, Take, Fault, Goto, ghosts, At, Moves, HasTaskFields, SweepPc, DrivePc
<1>2. CASE Top(t)
  BY <1>0, <1>2 DEF Top, Goto, ghosts, At, Moves, HasTaskFields, SweepPc, DrivePc
<1>3. CASE Validate(t)
  BY <1>0, <1>3 DEF Validate, Fault, Goto, ghosts, At, Moves, HasTaskFields, SweepPc, DrivePc
<1>4. CASE FeedDocument(t)
  <2> DEFINE d == Head(mailbox.documents)
  <2>1. \/ task' = task
        \/ task' = [task EXCEPT ![t].docs = @ \cup {d}, ![t].routed = @ \cup {d}]
        \/ task' = [task EXCEPT ![t].drained = Append(@, d)]
    BY <1>4 DEF FeedDocument, Route
  <2> HIDE DEF d
  <2>2. Moves(t, "batch")
    BY <1>0, <1>4, <2>1 DEF FeedDocument, ghosts, At, Moves, HasTaskFields
  <2> QED BY <1>4, <2>2 DEF FeedDocument, At, SweepPc
<1>5. CASE EndBatch(t)
  BY <1>0, <1>5 DEF EndBatch, Fault, ghosts, At, Moves, HasTaskFields, SweepPc, DrivePc
<1>6. ASSUME NEW d \in Doc, StartDocument(t, d)
      PROVE  task[t].pc = "batch" /\ Moves(t, "batch") /\ status' = status
  BY <1>0, <1>6 DEF StartDocument, Finish, ghosts, At, Moves, HasTaskFields
<1>7. ASSUME NEW d \in Doc, FinishDocument(t, d)
      PROVE  /\ task[t].pc = "batch" /\ Moves(t, "batch")
             /\ status' = status \/ status' = [status EXCEPT !.cancel = "internal"]
  BY <1>0, <1>7 DEF FinishDocument, Finish, Fault, ghosts, At, Moves, HasTaskFields
<1>8. CASE Sweep(t)
  BY <1>0, <1>8 DEF Sweep, Take, Fault, Goto, ghosts, At, Moves, HasTaskFields, SweepPc, DrivePc
<1>9. CASE DrainMailbox(t)
  <2>1. \E d : task' = [task EXCEPT ![t].pc = "fresh", ![t].wake = "documents", ![t].drained = d]
    BY <1>9 DEF DrainMailbox
  <2>2. Moves(t, "fresh")
    BY <1>0, <1>9, <2>1 DEF DrainMailbox, ghosts, Moves, HasTaskFields, DrivePc
  <2> QED BY <1>9, <2>2 DEF DrainMailbox, At, SweepPc
<1>10. CASE Fresh(t)
  BY <1>0, <1>10 DEF Fresh, Take, Fault, ghosts, At, Moves, HasTaskFields, SweepPc, DrivePc
<1> QED BY <1>1, <1>2, <1>3, <1>4, <1>5, <1>6, <1>7, <1>8, <1>9, <1>10 DEF SweepPc

\* Task t holds the slot of a run that is not resetting, at a place of its sweep.
LEMMA OnSweep ==
    ASSUME NEW t \in Worker, FlagsInv, task[t].pc \in SweepPc
    PROVE  /\ ~ At(t, "dead")
           /\ Frame(t, status) /\ HasTaskFields(task[t]) /\ task = [u \in Worker |-> task[u]]
           /\ Owns(status, t) /\ ~ Fenced(status) /\ ~ status.destructive
              /\ status.busyOwner.kind # "custom_chunks" /\ status.phase # "reset"
           /\ task[t].stage # "reset"
           /\ ~ (status.exclusive /\ status.scanOwner = t)
           /\ task[t].pc = "confirm" => status.phase = "drain" /\ status.tokens = {}
<1>1. ~ At(t, "dead")
  BY DEF At, SweepPc
<1>2. Frame(t, status) /\ TaskOK(status, t, task[t])
  BY <1>1, Before
<1> QED BY <1>1, <1>2 DEF FlagsInv, TaskOK, SlotOK, PhaseOK, EntryOK, HoldingPc, SweepPc, ChunksPc,
                          DestroyingPc, Fencing

\* The same, said of the next state.
LEMMA ToSweep ==
    ASSUME NEW t \in Worker, FlagsInv, ~ At(t, "dead"), NEW l \in SweepPc \cup {"finalize"}, Moves(t, l),
           task[t].stage # "reset",
           Frame(t, status'), Owns(status', t), ~ Fenced(status'), ~ status'.destructive
           /\ status'.busyOwner.kind # "custom_chunks",
           status'.phase # "reset", ~ (status'.exclusive /\ status'.scanOwner = t),
           l = "confirm" => status'.phase = "drain" /\ status'.tokens = {}
    PROVE  FlagsInv'
<1>1. TaskOK(status', t, task'[t])
  BY DEF Moves, TaskOK, SlotOK, PhaseOK, EntryOK, Fencing, HoldingPc, SweepPc, ChunksPc, DestroyingPc,
         ResetPc, ScanPc
<1> QED BY <1>1, StepOK DEF Moves

\* A request found by the first look, or by a decision, freezes the enqueues.
LEMMA BeginDrainStepOK ==
    ASSUME NEW t \in Worker, FlagsInv, PeekRequest(t) \/ StartDrain(t)
    PROVE  FlagsInv'
<1>1. task[t].pc \in SweepPc
  BY DEF PeekRequest, StartDrain, At, SweepPc
<1>2. CASE /\ status' = BeginDrain(status, t, Head(mailbox.manual))
           /\ \E l \in {"first_page", "fresh"} : Goto(t, l)
           /\ halfDone' = halfDone
  <2> PICK l \in {"first_page", "fresh"} : Goto(t, l)
    BY <1>2
  <2>1. Moves(t, l)
    BY <1>2, GotoMoves DEF DrivePc
  <2>2. Frame(t, status')
    BY <1>1, <1>2, OnSweep, BeginDrainFrame
  <2>3. /\ Owns(status', t) /\ ~ Fenced(status') /\ ~ status'.destructive
           /\ status'.busyOwner.kind # "custom_chunks" /\ status'.phase # "reset"
        /\ ~ (status'.exclusive /\ status'.scanOwner = t)
    BY <1>1, <1>2, OnSweep DEF Frame, StatusOK, HasStatusFields, BeginDrain, Owns, Fenced, Sealed
  <2> QED BY <1>1, <2>1, <2>2, <2>3, OnSweep, ToSweep DEF SweepPc
<1>3. CASE /\ status' = status
           /\ \E l \in {"first_page", "top"} : Moves(t, l)
  BY <1>1, <1>3, SweepMove DEF SweepPc
<1>4. CASE PeekRequest(t)
  <2>1. task = [u \in Worker |-> task[u]] /\ HasTaskFields(task[t])
    BY DEF FlagsInv, TaskOK
  <2>2. CASE mailbox.manual = <<>>
    <3>1. Moves(t, "first_page") /\ status' = status
      BY <1>4, <2>1, <2>2 DEF PeekRequest, ghosts, Moves, HasTaskFields, DrivePc
    <3> QED BY <1>3, <3>1
  <2> QED BY <1>2, <1>4, <2>2 DEF PeekRequest, ghosts
<1>5. CASE StartDrain(t)
  BY <1>1, <1>2, <1>5, OnSweep DEF StartDrain, ghosts
<1> QED BY <1>4, <1>5

\* The decision continues the run, in one of many ways, or ends it under the lock.
LEMMA DecideOK ==
    ASSUME NEW t \in Worker, FlagsInv, Decide(t)
    PROVE  FlagsInv'
<1>1. task[t].pc \in {"entry", "decide"} /\ halfDone' = halfDone
  BY DEF Decide, At, ghosts
<1>2. task[t].pc \in SweepPc
  BY <1>1 DEF SweepPc
<1>3. ASSUME NEW l \in (SweepPc \ {"confirm"}) \cup {"finalize"}, Goto(t, l), status' = status
      PROVE  FlagsInv'
  <2>1. Moves(t, l)
    BY <1>1, <1>3, GotoMoves DEF SweepPc, DrivePc
  <2> QED BY <1>2, <1>3, <2>1, SweepMove
<1>4. CASE Continue(t, "confirm") /\ EnqueuesFinished(status) /\ status.phase = "drain"
  <2>1. Moves(t, "confirm")
    BY <1>1, <1>4, GotoMoves DEF DrivePc, Continue
  <2> QED BY <1>2, <1>4, <2>1, OnSweep, ToSweep DEF Continue, EnqueuesFinished, SweepPc
<1>5. CASE ContinueAuto(t)
  <2>0. task = [u \in Worker |-> task[u]] /\ HasTaskFields(task[t])
    BY DEF FlagsInv, TaskOK
  <2>1. Moves(t, "fresh")
    BY <1>1, <1>5, <2>0 DEF ContinueAuto, Moves, HasTaskFields, DrivePc
  <2> QED BY <1>2, <1>5, <2>1, SweepMove DEF ContinueAuto, SweepPc
<1>6. CASE Released(t) /\ status.phase # "drain"
  <2>1. status.phase = "idle"
    BY <1>2, <1>6, OnSweep DEF Frame, StatusOK, HasStatusFields, Phase
  <2>2. Frame(t, status')
    BY <1>2, <1>6, <2>1, OnSweep, ReleasedFrame DEF Released
  <2>3. ~ Owns(status', t) /\ ~ (status'.exclusive /\ status'.scanOwner = t)
    BY <1>2, <1>6, OnSweep DEF Released, Frame, StatusOK, HasStatusFields, Owns, NoOwner
  <2>4. \E l \in {"released", "leaving", "leave_scan", "done"} : Moves(t, l)
    <3>1. Done(t) \in {"leaving", "leave_scan", "done"}
      BY <1>2, OnSweep DEF Done, InReset, TaskOK, EntryOK
    <3>2. CASE Leave(t, Done(t))
      BY <1>1, <3>1, <3>2, LeaveMoves DEF OtherPc
    <3>3. CASE Goto(t, "released")
      BY <1>1, <3>3, GotoMoves DEF DrivePc
    <3> QED BY <1>6, <3>2, <3>3 DEF Released
  <2> PICK l \in {"released", "leaving", "leave_scan", "done"} : Moves(t, l)
    BY <2>4
  <2>5. TaskOK(status', t, task'[t])
    BY <1>2, <2>3, OnSweep
       DEF Moves, TaskOK, SlotOK, PhaseOK, EntryOK, Fencing, HoldingPc, SweepPc, ChunksPc, DestroyingPc,
           ResetPc, ScanPc
  <2> QED BY <1>2, <2>2, <2>5, OnSweep, StepOK DEF Moves
<1>7. ContinueDocument(t) => FlagsInv'
  BY <1>3 DEF ContinueDocument, Continue, SweepPc
<1>8. CASE DecideCancelled(t)
  BY <1>3, <1>8 DEF DecideCancelled, Continue, SweepPc
<1>9. CASE status.phase = "drain" /\ DecideDraining(t)
  BY <1>3, <1>4, <1>5, <1>7, <1>9 DEF DecideDraining, Continue, SweepPc
<1>10. CASE status.phase # "drain" /\ DecideIdle(t)
  BY <1>3, <1>5, <1>6, <1>7, <1>10 DEF DecideIdle, Continue, SweepPc
<1> QED BY <1>8, <1>9, <1>10 DEF Decide

\* Waiting for the enqueues, and the proof that the drain is done.
LEMMA DrainStepOK ==
    ASSUME NEW t \in Worker, FlagsInv, WaitForEnqueues(t) \/ ConfirmDrained(t)
    PROVE  FlagsInv'
<1>0. task = [u \in Worker |-> task[u]] /\ HasTaskFields(task[t])
  BY DEF FlagsInv, TaskOK
<1>1. CASE WaitForEnqueues(t)
  <2>1. task[t].pc \in SweepPc /\ ~ At(t, "dead") /\ halfDone' = halfDone
    BY <1>1 DEF WaitForEnqueues, At, SweepPc, ghosts
  <2>2. Frame(t, status') /\ TaskOK(status', t, task[t])
    BY <1>1, <2>1, ReconcileFrame DEF WaitForEnqueues
  <2>3. Moves(t, "top")
    BY <1>1, <2>1, GotoMoves DEF WaitForEnqueues, DrivePc
  <2>4. TaskOK(status', t, task'[t])
    BY <2>1, <2>2, <2>3 DEF Moves, TaskOK, SlotOK, PhaseOK, EntryOK, Fencing, HoldingPc, SweepPc, ChunksPc,
                           DestroyingPc, ResetPc, ScanPc
  <2> QED BY <2>1, <2>2, <2>3, <2>4, StepOK DEF Moves
<1>2. CASE ConfirmDrained(t)
  <2>1. task[t].pc = "confirm" /\ task[t].pc \in SweepPc /\ halfDone' = halfDone
    BY <1>2 DEF ConfirmDrained, At, SweepPc, ghosts, Fault
  <2>2. CASE Goto(t, "finalize") /\ status' = status
    <3>1. Moves(t, "finalize")
      BY <2>1, <2>2, GotoMoves DEF DrivePc
    <3> QED BY <2>1, <2>2, <3>1, SweepMove
  <2>3. CASE /\ status' = status
             /\ \E docs, next, n : task' = [task EXCEPT ![t].pc = "top", ![t].docs = docs,
                                      ![t].cursor = next, ![t].stalled = docs, ![t].repeats = n]
    <3> PICK docs, next, n : task' = [task EXCEPT ![t].pc = "top", ![t].docs = docs,
                                   ![t].cursor = next, ![t].stalled = docs, ![t].repeats = n]
      BY <2>3
    <3>1. Moves(t, "top")
      BY <1>0, <2>1 DEF Moves, HasTaskFields, DrivePc
    <3> QED BY <2>1, <2>3, <3>1, SweepMove DEF SweepPc
  <2>4. CASE Goto(t, "finalize") /\ \E k \in {"drain_stalled", "drain_blocked"} : status' = Fence(status, k)
    <3> PICK k \in {"drain_stalled", "drain_blocked"} : status' = Fence(status, k)
      BY <2>4
    <3>1. Moves(t, "finalize")
      BY <2>1, <2>4, GotoMoves DEF DrivePc
    <3>2. ~ status.exclusive /\ Owns(status, t) /\ Frame(t, status) /\ status.tokens = {}
          /\ ~ status.destructive /\ status.busyOwner.kind # "custom_chunks" /\ ~ At(t, "dead")
      BY <2>1, OnSweep DEF Frame, StatusOK, OwnerOK, FlagsOK, Owns, NoOwner
    <3>3. Frame(t, status')
      BY <3>2, FenceFrame DEF Recovery
    <3>4. Owns(status', t) /\ ~ status'.destructive
          /\ status'.busyOwner.kind # "custom_chunks" /\ ~ status'.exclusive
      BY <3>2 DEF Frame, StatusOK, HasStatusFields, Fence, Owns
    <3>5. TaskOK(status', t, task'[t])
      BY <2>1, <3>1, <3>4, OnSweep
         DEF Moves, TaskOK, SlotOK, PhaseOK, EntryOK, Fencing, HoldingPc, SweepPc, ChunksPc, DestroyingPc,
             ResetPc,
             ScanPc
    <3> QED BY <3>1, <3>2, <3>3, <3>5, StepOK DEF Moves
  <2>5. CASE Goto(t, "enter") /\ status' = status
    <3>1. Moves(t, "enter")
      BY <2>1, <2>5, GotoMoves DEF DrivePc
    <3>2. TaskOK(status', t, task'[t])
      BY <2>1, <2>5, <3>1, OnSweep
         DEF Moves, TaskOK, SlotOK, PhaseOK, EntryOK, Fencing, HoldingPc, SweepPc, ChunksPc, DestroyingPc,
             ResetPc,
             ScanPc
    <3> QED BY <2>1, <2>5, <3>1, <3>2, OnSweep, StepOK DEF Moves
  <2> QED BY <1>2, <2>2, <2>3, <2>4, <2>5 DEF ConfirmDrained
<1> QED BY <1>1, <1>2

\* Task t holds the slot of a run that is resetting, or about to.
LEMMA OnReset ==
    ASSUME NEW t \in Worker, FlagsInv, task[t].pc \in ResetPc \cup {"end_drain"}
    PROVE  /\ ~ At(t, "dead")
           /\ Frame(t, status) /\ HasTaskFields(task[t]) /\ task = [u \in Worker |-> task[u]]
           /\ Owns(status, t) /\ ~ Fenced(status) /\ ~ status.destructive
              /\ status.busyOwner.kind # "custom_chunks"
           /\ task[t].pc = "enter" => status.phase = "drain" /\ status.manualOwner # NoManualOwner
           /\ task[t].pc # "enter" => status.phase = "reset"
           /\ task[t].pc # "end_drain" => status.tokens = {}
           /\ task[t].pc = "end_drain" => task[t].stage # "reset"
           /\ IF task[t].stage = "reset" THEN t \in Scans /\ status.exclusive /\ status.scanOwner = t
                                         ELSE ~ (status.exclusive /\ status.scanOwner = t)
<1>1. ~ At(t, "dead")
  BY DEF At, ResetPc
<1>2. Frame(t, status) /\ TaskOK(status, t, task[t])
  BY <1>1, Before
<1>3. status.phase # "idle" => status.manualOwner.task = status.busyOwner.task
  BY <1>2 DEF Frame, StatusOK, FlagsOK
<1>4. Owns(status, t) /\ ~ Fenced(status) /\ ~ status.destructive /\ status.busyOwner.kind # "custom_chunks"
  BY <1>2 DEF TaskOK, SlotOK, HoldingPc, ChunksPc, ResetPc, DestroyingPc
<1>5. /\ task[t].pc = "enter" => status.phase = "drain"
      /\ task[t].pc # "enter" => status.phase = "reset"
      /\ task[t].pc # "end_drain" => status.tokens = {}
  BY <1>2 DEF TaskOK, PhaseOK, ResetPc
<1>6. task[t].pc = "enter" => status.manualOwner # NoManualOwner
  BY <1>3, <1>4, <1>5 DEF Owns, NoManualOwner
<1>7. /\ task[t].pc = "end_drain" => task[t].stage # "reset"
      /\ IF task[t].stage = "reset" THEN t \in Scans /\ status.exclusive /\ status.scanOwner = t
                                    ELSE ~ (status.exclusive /\ status.scanOwner = t)
  BY <1>2 DEF TaskOK, EntryOK, Fencing, ResetPc
<1> QED BY <1>1, <1>2, <1>4, <1>5, <1>6, <1>7 DEF FlagsInv, TaskOK

\* A reset moves on, is acknowledged, or gives up.
LEMMA ResetStepOK ==
    ASSUME NEW t \in Worker, FlagsInv,
           EnterExclusiveReset(t) \/ ResetPage(t) \/ AckRequest(t)
    PROVE  FlagsInv'
<1>1. task[t].pc \in ResetPc /\ halfDone' = halfDone
  BY DEF EnterExclusiveReset, ResetPage, AckRequest, At, ResetPc, ghosts, Fault
<1>2. /\ ~ At(t, "dead") /\ Owns(status, t) /\ ~ Fenced(status) /\ ~ status.destructive
         /\ status.busyOwner.kind # "custom_chunks"
      /\ Frame(t, status) /\ task = [u \in Worker |-> task[u]] /\ HasTaskFields(task[t])
      /\ status.tokens = {}
      /\ IF task[t].stage = "reset" THEN t \in Scans /\ status.exclusive /\ status.scanOwner = t
                                    ELSE ~ (status.exclusive /\ status.scanOwner = t)
  BY <1>1, OnReset DEF ResetPc
<1>3. CASE EnterExclusiveReset(t)
  <2>1. status.phase = "drain" /\ status' = EnterReset(status, t)
    BY <1>1, <1>3, OnReset DEF EnterExclusiveReset, At
  <2>2. Moves(t, "reset_page")
    <3>1. task' = [task EXCEPT ![t].cursor = Start, ![t].pc = "reset_page"]
      BY <1>1, <1>2, <1>3, OnReset DEF EnterExclusiveReset, At
    <3> QED BY <1>1, <1>2, <3>1 DEF Moves, HasTaskFields, DrivePc
  <2>3. Frame(t, status')
    BY <1>2, <2>1, EnterResetFrame
  <2>4. /\ Owns(status', t) /\ ~ Fenced(status') /\ ~ status'.destructive
           /\ status'.busyOwner.kind # "custom_chunks" /\ status'.phase = "reset"
        /\ status'.tokens = {} /\ status'.exclusive = status.exclusive
        /\ status'.scanOwner = status.scanOwner
    BY <1>2, <2>1 DEF Frame, StatusOK, HasStatusFields, EnterReset, Owns, Fenced, Sealed
  <2>5. TaskOK(status', t, task'[t])
    BY <1>2, <2>2, <2>4
       DEF Moves, TaskOK, SlotOK, PhaseOK, EntryOK, Fencing, HoldingPc, SweepPc, ChunksPc, DestroyingPc,
           ResetPc, ScanPc
  <2> QED BY <1>2, <2>2, <2>3, <2>5, StepOK DEF Moves
<1>4. ASSUME status' = status, status.phase = "reset",
             NEW l \in {"reset_page", "ack", "release_reset", "abandon_reset", "end_drain", "finalize"},
             Moves(t, l),
             l \in {"release_reset", "abandon_reset"} => task[t].stage = "reset",
             l \in {"end_drain", "finalize"} => task[t].stage # "reset"
      PROVE  FlagsInv'
  <2>1. TaskOK(status', t, task'[t])
    BY <1>2, <1>4
       DEF Moves, TaskOK, SlotOK, PhaseOK, EntryOK, Fencing, HoldingPc, SweepPc, ChunksPc, DestroyingPc,
           ResetPc, ScanPc
  <2> QED BY <1>2, <1>4, <2>1, StepOK DEF Moves
<1>5. CASE ResetPage(t)
  <2>1. status' = status /\ status.phase = "reset"
    BY <1>1, <1>5, OnReset DEF ResetPage, At
  <2>2. CASE Goto(t, Abandon(t))
    <3>1. Moves(t, Abandon(t))
      BY <1>1, <2>2, GotoMoves DEF Abandon, DrivePc, OtherPc
    <3> QED BY <1>4, <2>1, <3>1 DEF Abandon, InReset
  <2>3. CASE \E l \in {"ack", "reset_page"} :
               task' = [task EXCEPT ![t].cursor = FailedPage(task[t].cursor).next, ![t].pc = l]
    <3> PICK l \in {"ack", "reset_page"} :
               task' = [task EXCEPT ![t].cursor = FailedPage(task[t].cursor).next, ![t].pc = l]
      BY <2>3
    <3>1. Moves(t, l)
      BY <1>1, <1>2 DEF Moves, HasTaskFields, DrivePc
    <3> QED BY <1>4, <2>1, <3>1
  <2> QED BY <1>2, <1>5, <2>2, <2>3 DEF ResetPage
<1>6. CASE AckRequest(t)
  <2>1. status' = status /\ status.phase = "reset"
    BY <1>1, <1>6, OnReset DEF AckRequest, At
  <2>2. PICK l \in {"release_reset", "end_drain"} :
           Goto(t, l) /\ (l = "release_reset" <=> task[t].stage = "reset")
    BY <1>6 DEF AckRequest, InReset
  <2>3. Moves(t, l)
    BY <1>1, <2>2, GotoMoves DEF DrivePc, OtherPc
  <2> QED BY <1>4, <2>1, <2>2, <2>3
<1> QED BY <1>3, <1>5, <1>6

\* The end of the freeze leaves an ordinary run.
LEMMA EndManualDrainOK ==
    ASSUME NEW t \in Worker, FlagsInv, EndManualDrain(t)
    PROVE  FlagsInv'
<1>1. task[t].pc = "end_drain" /\ task[t].pc \in ResetPc \cup {"end_drain"} /\ halfDone' = halfDone
  BY DEF EndManualDrain, At, ghosts
<1>2. Moves(t, "fresh")
  BY <1>1, GotoMoves DEF EndManualDrain, DrivePc
<1>3. Frame(t, status')
  BY <1>1, OnReset, EndDrainFrame DEF EndManualDrain
<1>4. /\ Owns(status', t) /\ ~ Fenced(status') /\ ~ status'.destructive
         /\ status'.busyOwner.kind # "custom_chunks" /\ status'.phase # "reset"
      /\ ~ (status'.exclusive /\ status'.scanOwner = t)
  BY <1>1, OnReset DEF EndManualDrain, Frame, StatusOK, HasStatusFields, EndDrain, Owns, Fenced, Sealed
<1> QED BY <1>1, <1>2, <1>3, <1>4, OnReset, ToSweep DEF SweepPc

\* The end of a run: what is still its own goes, and nothing else.
LEMMA FinalizeOK ==
    ASSUME NEW t \in Worker, FlagsInv, Finalize(t) \/ FinalizeReleased(t)
    PROVE  FlagsInv'
<1>1. task[t].pc \in {"finalize", "released"} /\ ~ At(t, "dead") /\ halfDone' = halfDone
      /\ Leave(t, Done(t))
  BY DEF Finalize, FinalizeReleased, At, ghosts
<1>2. Frame(t, status) /\ TaskOK(status, t, task[t])
  BY <1>1, Before
<1>3. Done(t) \in {"leaving", "transition", "leave_scan", "done"}
  BY DEF Done
<1>4. Moves(t, Done(t))
  BY <1>1, <1>3, LeaveMoves DEF OtherPc
<1>5. ASSUME NEW s, NEW c \in {"no", "user", "internal"}, Frame(t, s), ~ Owns(s, t),
             s.exclusive = status.exclusive, s.scanOwner = status.scanOwner,
             status' = [s EXCEPT !.cancel = c]
      PROVE  FlagsInv'
  <2>1. Frame(t, status')
    BY <1>5, CancelFrame
  <2>2. ~ Owns(status', t) /\ status'.exclusive = status.exclusive /\ status'.scanOwner = status.scanOwner
    BY <1>5 DEF Frame, StatusOK, HasStatusFields, Owns
  <2>3. /\ task[t].stage = "reset" => t \in Scans /\ status.exclusive /\ status.scanOwner = t
        /\ task[t].stage = "reset" <=> Done(t) = "transition"
    BY <1>1, <1>2, TaskAssumption DEF TaskOK, EntryOK, Fencing, Done, InReset
  <2>4. task'[t].stage = "reset" <=> task'[t].pc = "transition"
    BY <1>4, <2>3 DEF Moves
  <2>5. task'[t].stage = "reset" <=> status.exclusive /\ status.scanOwner = t
    BY <1>1, <1>2, <1>4, <2>3 DEF Moves, TaskOK, EntryOK, Fencing
  <2>6. TaskOK(status', t, task'[t])
    BY <1>2, <1>3, <1>4, <2>2, <2>4, <2>5
       DEF Moves, TaskOK, SlotOK, PhaseOK, EntryOK, Fencing, HoldingPc, SweepPc, ChunksPc, DestroyingPc,
           ResetPc, ScanPc
  <2> QED BY <1>1, <1>4, <2>1, <2>6, StepOK DEF Moves
<1>6. status.cancel \in {"no", "user", "internal"}
  BY <1>2 DEF Frame, StatusOK, HasStatusFields
<1>7. CASE Finalize(t)
  <2>1. Owns(status, t) => ~ status.destructive /\ status.busyOwner.kind # "custom_chunks"
    BY <1>1, <1>2 DEF TaskOK, SlotOK, DestroyingPc, ChunksPc
  <2>2. Frame(t, ReleaseRun(status, t))
    BY <1>2, <2>1, ReleaseRunFrame
  <2>3. ~ Owns(ReleaseRun(status, t), t) /\ ReleaseRun(status, t).exclusive = status.exclusive
        /\ ReleaseRun(status, t).scanOwner = status.scanOwner
        /\ ReleaseRun(status, t).cancel = status.cancel
    BY <1>2 DEF Frame, StatusOK, HasStatusFields, ReleaseRun, Owns, NoOwner
  <2>4. PICK c \in {"no", "user", "internal"} : status' = [ReleaseRun(status, t) EXCEPT !.cancel = c]
    BY <1>6, <1>7, <2>3 DEF Finalize
  <2> QED BY <1>5, <2>2, <2>3, <2>4
<1>8. CASE FinalizeReleased(t)
  <2>1. ~ Owns(status, t)
    BY <1>2, <1>8 DEF FinalizeReleased, At, TaskOK, SlotOK, HoldingPc, SweepPc, ChunksPc, DestroyingPc, ResetPc
  <2>2. PICK c \in {"no", "user", "internal"} : status' = [status EXCEPT !.cancel = c]
    BY <1>6, <1>8 DEF FinalizeReleased
  <2> QED BY <1>2, <1>5, <2>1, <2>2
<1> QED BY <1>7, <1>8

\* Every step of a drive keeps the invariant.
LEMMA DriveStepOK ==
    ASSUME NEW t \in Worker, FlagsInv, DriveStep(t)
    PROVE  FlagsInv'
<1>1. ASSUME NEW d \in Doc, StartDocument(t, d) \/ FinishDocument(t, d) PROVE FlagsInv'
  BY <1>1, SweepStepOK
<1> QED BY <1>1, AcquireProcessingOK, SweepStepOK, BeginDrainStepOK, DecideOK, DrainStepOK, ResetStepOK,
           EndManualDrainOK, FinalizeOK DEF DriveStep

-----------------------------------------------------------------------------
(* 4. The other actions: most of them leave t without the slot.             *)

OutsidePc == {"new", "acquire", "reserved", "writing", "stored", "upsert_failed", "raise", "rescue",
              "publishing", "leaving", "publish", "refused", "rollback", "scan_acquire", "classify",
              "enqueue", "transition", "leave_scan", "check_deferred", "done"}

\* A task outside every run does not hold the slot.
LEMMA OnOutside ==
    ASSUME NEW t \in Worker, FlagsInv, task[t].pc \in OutsidePc
    PROVE  /\ ~ At(t, "dead")
           /\ task = [u \in Worker |-> task[u]] /\ HasTaskFields(task[t])
           /\ Frame(t, status) /\ TaskOK(status, t, task[t]) /\ ~ Owns(status, t)
<1>1. ~ At(t, "dead")
  BY DEF At, OutsidePc
<1>2. Frame(t, status) /\ TaskOK(status, t, task[t])
  BY <1>1, Before
<1>3. ~ Owns(status, t)
  BY <1>2 DEF TaskOK, SlotOK, HoldingPc, SweepPc, ChunksPc, ResetPc, DestroyingPc, OutsidePc
<1> QED BY <1>1, <1>2, <1>3 DEF FlagsInv, TaskOK

\* Such a task goes anywhere its token and its fence allow.
LEMMA ToOutside ==
    ASSUME NEW t \in Worker, FlagsInv, ~ At(t, "dead"),
           task' = [task EXCEPT ![t] = task'[t]], HasTaskFields(task'[t]), halfDone' = halfDone,
           task'[t].pc \in OutsidePc,
           Frame(t, status'), ~ Owns(status', t), EntryOK(status', t, task'[t])
    PROVE  FlagsInv'
<1>1. SlotOK(status', t, task'[t])
  BY DEF SlotOK, OutsidePc, HoldingPc, SweepPc, ChunksPc, ResetPc, DestroyingPc
<1>2. PhaseOK(status', task'[t])
  BY DEF PhaseOK, OutsidePc, SweepPc, ResetPc
<1> QED BY <1>1, <1>2, StepOK DEF TaskOK

\* The reservation, its release and what comes between.
LEMMA EnqueueStepOK ==
    ASSUME NEW t \in Worker, FlagsInv, EnqueueStep(t) \/ (t \in Inserts /\ AdmitEnqueue(t)) \/ ReserveSlot(t)
    PROVE  FlagsInv'
<1>1. task[t].pc \in OutsidePc /\ halfDone' = halfDone
  BY DEF EnqueueStep, AdmitEnqueue, ReserveSlot, StoreRow, ArmAfterFault, LeaveSerializeLock, Publish,
         ReleaseSlot, At, OutsidePc, ghosts, Fault
<1>2. /\ ~ At(t, "dead")
      /\ task = [u \in Worker |-> task[u]] /\ HasTaskFields(task[t])
      /\ Frame(t, status) /\ TaskOK(status, t, task[t]) /\ ~ Owns(status, t)
  BY <1>1, OnOutside
<1>3. t \in Scans => t \notin Uploads /\ t \notin Inserts
  BY TaskAssumption
<1>4. EntryOK(status, t, task[t])
  BY <1>2 DEF TaskOK
<1> DEFINE s == Reconcile(status, Dead)
<1>5. Frame(t, s) /\ TaskOK(s, t, task[t]) /\ ~ Owns(s, t)
  <2>1. Frame(t, s) /\ TaskOK(s, t, task[t])
    BY <1>2, ReconcileFrame
  <2> QED BY <1>1, <2>1 DEF TaskOK, SlotOK, HoldingPc, SweepPc, ChunksPc, ResetPc, DestroyingPc, OutsidePc
<1> HIDE DEF s
<1>6. CASE ReserveSlot(t)
  <2>1. At(t, "new") /\ t \in Uploads
    BY <1>6 DEF ReserveSlot
  <2>2. PICK l \in {"done", "reserved"} : Goto(t, l)
    BY <1>6 DEF ReserveSlot
  <2>3. Moves(t, l)
    BY <1>1, <2>2, GotoMoves DEF OtherPc
  <2>4. /\ Frame(t, status') /\ ~ Owns(status', t)
        /\ status'.exclusive = s.exclusive /\ status'.scanOwner = s.scanOwner
    <3>1. CASE status' = s
      BY <1>5, <3>1
    <3>2. CASE ~ Fenced(s) /\ ~ EnqueueRefused(s, FALSE) /\ status' = TakeToken(s, t)
      <4>1. Frame(t, status')
        BY <1>5, <3>2, TakeTokenFrame DEF EnqueueRefused
      <4> QED BY <1>5, <3>2, <4>1 DEF TakeToken, Frame, StatusOK, HasStatusFields, Owns
    <3> QED BY <1>6, <3>1, <3>2 DEF ReserveSlot, s
  <2>5. EntryOK(status', t, task'[t])
    BY <1>3, <1>5, <2>1, <2>3, <2>4 DEF Moves, TaskOK, EntryOK, Fencing, At, ScanPc, SweepPc, ChunksPc
  <2> QED BY <1>2, <2>3, <2>4, <2>5, ToOutside DEF Moves, OutsidePc
<1>7. CASE AdmitEnqueue(t)
  <2>1. /\ \/ t \in Uploads /\ At(t, "reserved")
           \/ t \in Inserts /\ At(t, "new")
           \/ t \in Scans /\ At(t, "enqueue")
    BY <1>7 DEF AdmitEnqueue
  <2>2. CASE status' = s /\ Goto(t, Rejected(t))
    <3>1. /\ Rejected(t) \in {"leaving", "transition", "done"}
          /\ t \in Scans <=> Rejected(t) = "transition"
      BY <1>3, TaskAssumption DEF Rejected
    <3>2. Moves(t, Rejected(t))
      BY <1>1, <2>2, <3>1, GotoMoves DEF OtherPc
    <3>3. EntryOK(status', t, task'[t])
      BY <1>3, <1>5, <2>1, <2>2, <3>1, <3>2 DEF Moves, At, TaskOK, EntryOK, Fencing, ScanPc, SweepPc, ChunksPc
    <3> QED BY <1>2, <1>5, <2>2, <3>1, <3>2, <3>3, ToOutside DEF Moves, OutsidePc
  <2>3. CASE t \in Scans /\ status' = s /\ Goto(t, "writing")
    <3>1. Moves(t, "writing")
      BY <1>1, <2>3, GotoMoves DEF OtherPc
    <3>2. task[t].pc = "enqueue"
      BY <1>3, <2>1, <2>3 DEF At
    <3>3. EntryOK(status', t, task'[t])
      BY <1>5, <2>3, <3>1, <3>2 DEF Moves, TaskOK, EntryOK, Fencing, ScanPc, SweepPc, ChunksPc
    <3> QED BY <1>2, <1>5, <2>3, <3>1, <3>3, ToOutside DEF Moves, OutsidePc
  <2>4. CASE /\ t \notin Scans /\ ~ Fenced(s) /\ (t \in s.tokens \/ ~ EnqueueRefused(s, FALSE))
             /\ status' = TakeToken(s, t) /\ Goto(t, "writing")
    <3>1. Moves(t, "writing")
      BY <1>1, <2>4, GotoMoves DEF OtherPc
    <3>2. Frame(t, status')
      BY <1>5, <2>4, TakeTokenFrame DEF EnqueueRefused
    <3>3. ~ Owns(status', t) /\ t \in status'.tokens
          /\ status'.exclusive = s.exclusive /\ status'.scanOwner = s.scanOwner
      BY <1>5, <2>4 DEF TakeToken, Frame, StatusOK, HasStatusFields, Owns
    <3>4. EntryOK(status', t, task'[t])
      BY <1>5, <2>1, <2>4, <3>1, <3>3 DEF Moves, At, TaskOK, EntryOK, Fencing, ScanPc, SweepPc, ChunksPc
    <3> QED BY <1>2, <3>1, <3>2, <3>3, <3>4, ToOutside DEF Moves, OutsidePc
  <2>5. t \notin Scans => EnqueueRefused(s, t \in Scans) = EnqueueRefused(s, FALSE)
    BY DEF EnqueueRefused
  <2> QED BY <1>7, <2>2, <2>3, <2>4, <2>5 DEF AdmitEnqueue, s
<1>8. CASE StoreRow(t)
  <2>1. task[t].pc = "writing" /\ status' = status
    BY <1>8 DEF StoreRow, At
  <2>2. PICK l \in {"stored", "upsert_failed", "raise"} : Moves(t, l)
    <3>1. CASE \E d : task' = [task EXCEPT ![t].pc = "stored", ![t].docs = d]
      <4> PICK d : task' = [task EXCEPT ![t].pc = "stored", ![t].docs = d]
        BY <3>1
      <4>1. Moves(t, "stored")
        BY <1>1, <1>2 DEF Moves, HasTaskFields, OtherPc
      <4> QED BY <4>1
    <3>2. ASSUME NEW l \in {"upsert_failed", "raise"}, Goto(t, l) PROVE Moves(t, l)
      BY <1>1, <3>2, GotoMoves DEF OtherPc
    <3> QED BY <1>8, <3>1, <3>2 DEF StoreRow
  <2>3. EntryOK(status', t, task'[t])
    BY <1>4, <2>1, <2>2 DEF Moves, EntryOK, Fencing, ScanPc, SweepPc, ChunksPc
  <2> QED BY <1>2, <2>1, <2>2, <2>3, ToOutside DEF Moves, OutsidePc
<1>9. CASE ArmAfterFault(t)
  <2>1. task[t].pc = "upsert_failed" /\ status' = status
    BY <1>9 DEF ArmAfterFault, At
  <2>2. PICK l \in {"raise", "rescue"} : Goto(t, l)
    BY <1>9 DEF ArmAfterFault
  <2>3. Moves(t, l)
    BY <1>1, <2>2, GotoMoves DEF OtherPc
  <2>4. EntryOK(status', t, task'[t])
    BY <1>4, <2>1, <2>3 DEF Moves, EntryOK, Fencing, ScanPc, SweepPc, ChunksPc
  <2> QED BY <1>2, <2>1, <2>3, <2>4, ToOutside DEF Moves, OutsidePc
<1>10. CASE LeaveSerializeLock(t) \/ ReleaseSlot(t)
  <2>1. status' \in {status, ReleaseToken(status, t)}
    BY <1>10 DEF LeaveSerializeLock, ReleaseMinted, ReleaseSlot
  <2>2. Frame(t, status')
    BY <1>2, <2>1, ReleaseTokenFrame
  <2>3. ~ Owns(status', t) /\ status'.exclusive = status.exclusive /\ status'.scanOwner = status.scanOwner
    BY <1>2, <2>1 DEF ReleaseToken, Frame, StatusOK, HasStatusFields, Owns
  <2>4. PICK l \in {"publishing", "acquire", "leaving", "transition", "leave_scan", "done"} :
            /\ Goto(t, l)
            /\ l = "publishing" => task[t].pc = "stored"
            /\ l \in {"leaving", "leave_scan", "done"} => task[t].stage # "reset"
            /\ l = "transition" => task[t].stage = "reset"
            /\ task[t].pc \in {"stored", "rescue", "raise", "leaving"}
    <3>1. task[t].stage = "reset" => t \in Scans
      BY <1>4 DEF EntryOK
    <3>2. CASE At(t, "leaving")
      BY <1>4, <1>10, <3>2 DEF LeaveSerializeLock, ReleaseSlot, At, EntryOK, Fencing
    <3>3. CASE ~ At(t, "leaving")
      BY <1>3, <1>10, <3>1, <3>3, TaskAssumption DEF LeaveSerializeLock, ReleaseSlot, Done, InReset, At
    <3> QED BY <3>2, <3>3
  <2>5. Moves(t, l)
    BY <1>1, <2>4, GotoMoves DEF OtherPc, DrivePc
  <2>6. EntryOK(status', t, task'[t])
    BY <1>4, <2>3, <2>4, <2>5 DEF Moves, EntryOK, Fencing, ScanPc, SweepPc, ChunksPc
  <2> QED BY <1>2, <2>2, <2>3, <2>5, <2>6, ToOutside DEF Moves, OutsidePc
<1>11. CASE Publish(t)
  <2>1. task[t].pc = "publishing" /\ status' = status
    BY <1>11 DEF Publish, At
  <2>2. PICK l \in {"transition", "acquire"} :
            task' = [task EXCEPT ![t].docs = {}, ![t].pc = l] /\ (l = "transition" <=> t \in Scans)
    BY <1>11 DEF Publish
  <2>3. Moves(t, l)
    BY <1>1, <1>2, <2>2, ZenonT(40) DEF Moves, HasTaskFields, OtherPc, DrivePc
  <2>4. EntryOK(status', t, task'[t])
    BY <1>4, <2>1, <2>2, <2>3 DEF Moves, EntryOK, Fencing, ScanPc, SweepPc, ChunksPc
  <2> QED BY <1>2, <2>1, <2>3, <2>4, ToOutside DEF Moves, OutsidePc
<1> QED BY <1>6, <1>7, <1>8, <1>9, <1>10, <1>11 DEF EnqueueStep

\* A manual retry is queued, or refused, without a reservation.
LEMMA CommitRetryOK ==
    ASSUME NEW t \in Worker, FlagsInv, CommitRetry(t)
    PROVE  FlagsInv'
<1>1. task[t].pc = "new" /\ task[t].pc \in OutsidePc /\ halfDone' = halfDone /\ t \notin Scans
  BY TaskAssumption DEF CommitRetry, At, OutsidePc, ghosts
<1>2. Frame(t, status') /\ TaskOK(status', t, task[t]) /\ ~ At(t, "dead")
  BY <1>1, OnOutside, ReconcileFrame DEF CommitRetry
<1>3. PICK l \in {"done", "acquire"} : Goto(t, l)
  BY DEF CommitRetry
<1>4. Moves(t, l)
  BY <1>1, <1>3, GotoMoves DEF DrivePc, OtherPc
<1>5. ~ Owns(status', t)
  BY <1>1, <1>2 DEF TaskOK, SlotOK, HoldingPc, SweepPc, ChunksPc, ResetPc, DestroyingPc
<1>6. EntryOK(status', t, task'[t])
  BY <1>1, <1>2, <1>4 DEF Moves, TaskOK, EntryOK, Fencing, ScanPc, SweepPc, ChunksPc
<1> QED BY <1>2, <1>4, <1>5, <1>6, ToOutside DEF Moves, OutsidePc

\* The reservation of a scan, refused or taken.
LEMMA ReserveScanOK ==
    ASSUME NEW t \in Worker, FlagsInv, ReserveScan(t)
    PROVE  FlagsInv'
<1> DEFINE s == Reconcile(status, Dead)
<1>1. task[t].pc = "new" /\ task[t].pc \in OutsidePc /\ halfDone' = halfDone /\ t \in Scans
  BY DEF ReserveScan, At, OutsidePc, ghosts
<1>2. Frame(t, s) /\ TaskOK(s, t, task[t]) /\ ~ At(t, "dead")
  BY <1>1, OnOutside, ReconcileFrame
<1>3. ~ Owns(s, t) /\ task[t].stage = "reset" /\ ~ (s.exclusive /\ s.scanOwner = t)
  BY <1>1, <1>2 DEF TaskOK, SlotOK, EntryOK, Fencing, HoldingPc, SweepPc, ChunksPc, ResetPc, DestroyingPc
<1> HIDE DEF s
<1>4. CASE status' = s /\ Goto(t, "done")
  <2>1. Moves(t, "done")
    BY <1>1, <1>4, GotoMoves DEF OtherPc
  <2>2. EntryOK(status', t, task'[t])
    BY <1>1, <1>2, <1>3, <1>4, <2>1 DEF Moves, TaskOK, EntryOK, Fencing, ScanPc, SweepPc, ChunksPc
  <2> QED BY <1>2, <1>3, <1>4, <2>1, <2>2, ToOutside DEF Moves, OutsidePc
<1>5. CASE ~ Fenced(s) /\ ~ ScanRefused(s) /\ status' = TakeScanning(s, t) /\ Goto(t, "publish")
  <2>1. Moves(t, "publish")
    BY <1>1, <1>5, GotoMoves DEF OtherPc
  <2>2. Frame(t, status')
    BY <1>2, <1>5, TakeScanningFrame
  <2>3. ~ Owns(status', t) /\ status'.exclusive /\ status'.scanOwner = t
    BY <1>2, <1>3, <1>5 DEF TakeScanning, Frame, StatusOK, HasStatusFields, Owns
  <2>4. EntryOK(status', t, task'[t])
    BY <1>1, <1>3, <2>1, <2>3 DEF Moves, EntryOK, Fencing, ScanPc, SweepPc, ChunksPc
  <2> QED BY <1>2, <2>1, <2>2, <2>3, <2>4, ToOutside DEF Moves, OutsidePc
<1> QED BY <1>4, <1>5 DEF ReserveScan, s

\* A scan at work holds its classification fence.
LEMMA OnScan ==
    ASSUME NEW t \in Worker, FlagsInv, task[t].pc \in ScanPc
    PROVE  /\ ~ At(t, "dead") /\ t \in Scans
           /\ task = [u \in Worker |-> task[u]] /\ HasTaskFields(task[t])
           /\ Frame(t, status) /\ TaskOK(status, t, task[t])
           /\ task[t].stage = "reset" /\ status.exclusive /\ status.scanOwner = t
           /\ Owns(status, t) <=> task[t].pc \in {"scan_begin", "scan_confirm", "release_reset", "abandon_reset"}
           /\ Owns(status, t) => ~ status.destructive
              /\ status.busyOwner.kind # "custom_chunks" /\ ~ Fenced(status)
<1>1. ~ At(t, "dead")
  BY DEF At, ScanPc
<1>2. Frame(t, status) /\ TaskOK(status, t, task[t])
  BY <1>1, Before
<1>3. task[t].stage = "reset" /\ t \in Scans /\ status.exclusive /\ status.scanOwner = t
  BY <1>2 DEF TaskOK, EntryOK, Fencing, ScanPc
<1>4. /\ Owns(status, t) <=> task[t].pc \in {"scan_begin", "scan_confirm", "release_reset", "abandon_reset"}
      /\ Owns(status, t) => ~ status.destructive
         /\ status.busyOwner.kind # "custom_chunks" /\ ~ Fenced(status)
  BY <1>2 DEF TaskOK, SlotOK, HoldingPc, SweepPc, ChunksPc, ResetPc, DestroyingPc, ScanPc
<1> QED BY <1>1, <1>2, <1>3, <1>4 DEF FlagsInv, TaskOK

\* A scan that keeps its fence, or leaves for the place that gives it back.
LEMMA ToScan ==
    ASSUME NEW t \in Worker, FlagsInv, task[t].pc \in ScanPc,
           NEW l \in {"refused", "rollback", "scan_acquire", "classify", "enqueue", "transition", "leave_scan"},
           Moves(t, l), Frame(t, status'), ~ Owns(status', t),
           status'.exclusive, status'.scanOwner = t
    PROVE  FlagsInv'
<1>1. EntryOK(status', t, task'[t])
  BY OnScan DEF Moves, EntryOK, Fencing, ScanPc, SweepPc, ChunksPc
<1> QED BY <1>1, OnScan, ToOutside DEF Moves, OutsidePc

\* Publishing, rolling back and discovering leave pipeline_status alone.
LEMMA QuietScanOK ==
    ASSUME NEW t \in Worker, FlagsInv, CommitScan(t) \/ RollBackJournals(t) \/ Classify(t)
    PROVE  FlagsInv'
<1>1. task[t].pc \in {"publish", "rollback", "classify"} /\ task[t].pc \in ScanPc
      /\ halfDone' = halfDone /\ status' = status
  BY DEF CommitScan, RollBackJournals, Classify, At, ScanPc, ghosts, Fault
<1>2. PICK l \in {"refused", "rollback", "scan_acquire", "enqueue", "transition", "leave_scan"} : Goto(t, l)
  BY DEF CommitScan, RollBackJournals, Classify
<1>3. Moves(t, l)
  BY <1>1, <1>2, GotoMoves DEF OtherPc
<1> QED BY <1>1, <1>3, OnScan, ToScan

\* The scan takes the slot under its own fence, or is refused and gives up.
LEMMA AcquireForResetOK ==
    ASSUME NEW t \in Worker, FlagsInv, AcquireForReset(t)
    PROVE  FlagsInv'
<1> DEFINE s == Reconcile(status, Dead)
<1>1. task[t].pc = "scan_acquire" /\ task[t].pc \in ScanPc /\ halfDone' = halfDone
  BY DEF AcquireForReset, At, ScanPc, ghosts
<1>2. Frame(t, s) /\ TaskOK(s, t, task[t]) /\ ~ At(t, "dead") /\ t \in Scans
  BY <1>1, OnScan, ReconcileFrame
<1>3. ~ Owns(s, t) /\ s.exclusive /\ s.scanOwner = t /\ task[t].stage = "reset"
  BY <1>1, <1>2 DEF TaskOK, SlotOK, EntryOK, Fencing, HoldingPc, SweepPc, ChunksPc, ResetPc, DestroyingPc,
                    ScanPc
<1> HIDE DEF s
<1>4. CASE status' = s /\ Goto(t, "leave_scan")
  <2>1. Moves(t, "leave_scan")
    BY <1>1, <1>4, GotoMoves DEF OtherPc
  <2> QED BY <1>1, <1>2, <1>3, <1>4, <2>1, ToScan
<1>5. CASE /\ ~ Fenced(s) /\ ~ s.busy
           /\ status' = TakeProcessing(s, t, s.scanOwner = t) /\ Goto(t, "scan_begin")
  <2>1. Moves(t, "scan_begin")
    BY <1>1, <1>5, GotoMoves DEF OtherPc
  <2>2. Frame(t, status')
    BY <1>2, <1>3, <1>5, TakeProcessingFrame
  <2>3. /\ Owns(status', t) /\ ~ Fenced(status') /\ ~ status'.destructive
           /\ status'.busyOwner.kind # "custom_chunks"
        /\ status'.exclusive /\ status'.scanOwner = t
    BY <1>2, <1>3, <1>5 DEF Frame, StatusOK, HasStatusFields, OwnerOK, TakeProcessing, Owns, Fenced, Sealed,
                            NoOwner, Owner
  <2>4. TaskOK(status', t, task'[t])
    BY <1>2, <1>3, <2>1, <2>3
       DEF Moves, TaskOK, SlotOK, PhaseOK, EntryOK, Fencing, HoldingPc, SweepPc, ChunksPc, DestroyingPc,
           ResetPc, ScanPc
  <2> QED BY <1>2, <2>1, <2>2, <2>4, StepOK DEF Moves
<1> QED BY <1>3, <1>4, <1>5 DEF AcquireForReset, s

\* The freeze of a scan, and the wait for the enqueues it found in flight.
LEMMA ScanDrainOK ==
    ASSUME NEW t \in Worker, FlagsInv, BeginScanDrain(t) \/ ConfirmScanDrain(t)
    PROVE  FlagsInv'
<1>1. task[t].pc \in {"scan_begin", "scan_confirm"} /\ task[t].pc \in ScanPc /\ halfDone' = halfDone
  BY DEF BeginScanDrain, ConfirmScanDrain, At, ScanPc, ghosts
<1>2. /\ ~ At(t, "dead") /\ t \in Scans /\ Frame(t, status) /\ TaskOK(status, t, task[t])
      /\ task[t].stage = "reset" /\ status.exclusive /\ status.scanOwner = t
      /\ Owns(status, t) /\ ~ status.destructive
         /\ status.busyOwner.kind # "custom_chunks" /\ ~ Fenced(status)
  BY <1>1, OnScan
<1>3. CASE BeginScanDrain(t)
  <2>1. status' = BeginDrain(status, t, t) /\ Goto(t, "scan_confirm")
    BY <1>2, <1>3 DEF BeginScanDrain
  <2>2. Moves(t, "scan_confirm")
    BY <1>1, <2>1, GotoMoves DEF OtherPc
  <2>3. Frame(t, status')
    BY <1>2, <2>1, BeginDrainFrame
  <2>4. /\ Owns(status', t) /\ ~ Fenced(status') /\ ~ status'.destructive
           /\ status'.busyOwner.kind # "custom_chunks" /\ status'.phase = "drain"
        /\ status'.exclusive /\ status'.scanOwner = t
    BY <1>2, <2>1 DEF Frame, StatusOK, HasStatusFields, BeginDrain, Owns, Fenced, Sealed
  <2>5. TaskOK(status', t, task'[t])
    BY <1>2, <2>2, <2>4
       DEF Moves, TaskOK, SlotOK, PhaseOK, EntryOK, Fencing, HoldingPc, SweepPc, ChunksPc, DestroyingPc,
           ResetPc, ScanPc
  <2> QED BY <1>2, <2>2, <2>3, <2>5, StepOK DEF Moves
<1>4. CASE ConfirmScanDrain(t)
  <2>1. task[t].pc = "scan_confirm" /\ status' \in {status, Reconcile(status, Dead)}
    BY <1>4 DEF ConfirmScanDrain, At
  <2>2. Frame(t, status') /\ TaskOK(status', t, task[t])
    BY <1>2, <2>1, ReconcileFrame
  <2>3. PICK l \in {"enter", "abandon_reset"} : Goto(t, l) /\ (l = "enter" => status'.tokens = {})
    BY <1>4 DEF ConfirmScanDrain
  <2>4. Moves(t, l)
    BY <1>1, <2>3, GotoMoves DEF DrivePc, OtherPc
  <2>5. TaskOK(status', t, task'[t])
    BY <1>2, <2>1, <2>2, <2>3, <2>4
       DEF Moves, TaskOK, SlotOK, PhaseOK, EntryOK, Fencing, HoldingPc, SweepPc, ChunksPc, DestroyingPc,
           ResetPc, ScanPc
  <2> QED BY <1>2, <2>2, <2>4, <2>5, StepOK DEF Moves
<1> QED BY <1>3, <1>4

\* The scan gives back the slot it reset under, and keeps its fence.
LEMMA ReleaseResetOK ==
    ASSUME NEW t \in Worker, FlagsInv, ReleaseReset(t)
    PROVE  FlagsInv'
<1>1. task[t].pc \in {"release_reset", "abandon_reset"} /\ task[t].pc \in ScanPc /\ halfDone' = halfDone
  BY DEF ReleaseReset, At, ScanPc, ghosts
<1>2. PICK l \in {"classify", "leave_scan"} : Goto(t, l)
  BY DEF ReleaseReset
<1>3. Moves(t, l)
  BY <1>1, <1>2, GotoMoves DEF OtherPc
<1>4. Frame(t, status')
  BY <1>1, OnScan, ReleaseRunFrame DEF ReleaseReset
<1>5. ~ Owns(status', t) /\ status'.exclusive /\ status'.scanOwner = t
  BY <1>1, OnScan DEF ReleaseReset, Frame, StatusOK, HasStatusFields, ReleaseRun, Owns, NoOwner
<1> QED BY <1>1, <1>3, <1>4, <1>5, ToScan

\* The fence goes: with the transition, with the refusal, or when the scan leaves.
LEMMA EndFenceOK ==
    ASSUME NEW t \in Worker, FlagsInv,
           EndScanClassification(t) \/ RefuseScan(t) \/ LeaveScan(t) \/ CheckDeferred(t)
    PROVE  FlagsInv'
<1>1. task[t].pc \in OutsidePc /\ halfDone' = halfDone
  BY DEF EndScanClassification, RefuseScan, LeaveScan, CheckDeferred, At, OutsidePc, ghosts
<1>2. /\ ~ At(t, "dead") /\ task = [u \in Worker |-> task[u]] /\ HasTaskFields(task[t])
      /\ Frame(t, status) /\ TaskOK(status, t, task[t]) /\ ~ Owns(status, t)
  BY <1>1, OnOutside
<1>3. ASSUME NEW l \in {"acquire", "done", "check_deferred"}, NEW g \in {"reset", "drive", "last"},
             task' = [task EXCEPT ![t].pc = l, ![t].stage = g],
             g = "reset" => t \in Scans /\ l # "acquire",
             Frame(t, status'), ~ Owns(status', t), ~ (status'.exclusive /\ status'.scanOwner = t)
      PROVE  FlagsInv'
  <2>1. task' = [task EXCEPT ![t] = task'[t]] /\ HasTaskFields(task'[t]) /\ task'[t].pc = l /\ task'[t].stage = g
    <3>1. task' = [task EXCEPT ![t] = task'[t]] /\ task'[t] = [task[t] EXCEPT !.pc = l, !.stage = g]
      BY <1>2, <1>3
    <3>2. l \in DrivePc \cup OtherPc
      BY DEF DrivePc, OtherPc
    <3> QED BY <1>2, <3>1, <3>2 DEF HasTaskFields
  <2>2. EntryOK(status', t, task'[t])
    BY <1>3, <2>1 DEF EntryOK, Fencing, ScanPc, SweepPc, ChunksPc
  <2> QED BY <1>1, <1>2, <1>3, <2>1, <2>2, ToOutside DEF OutsidePc
<1>4. CASE EndScanClassification(t)
  <2>1. Frame(t, status')
    BY <1>2, <1>4, EndClassificationFrame DEF EndScanClassification
  <2>2. ~ Owns(status', t) /\ ~ (status'.exclusive /\ status'.scanOwner = t)
    BY <1>2, <1>4 DEF EndScanClassification, EndClassification, Frame, StatusOK, HasStatusFields, Owns
  <2> QED BY <1>3, <1>4, <2>1, <2>2 DEF EndScanClassification
<1>5. CASE RefuseScan(t) \/ LeaveScan(t)
  <2>1. Frame(t, status')
    BY <1>2, <1>5, ReleaseScanningFrame DEF RefuseScan, LeaveScan
  <2>2. ~ Owns(status', t) /\ ~ (status'.exclusive /\ status'.scanOwner = t)
    BY <1>2, <1>5 DEF RefuseScan, LeaveScan, ReleaseScanning, Frame, StatusOK, HasStatusFields, Owns
  <2>3. PICK l \in {"done", "check_deferred"} : Goto(t, l)
    BY <1>5 DEF RefuseScan, LeaveScan
  <2>4. task' = [task EXCEPT ![t].pc = l, ![t].stage = task[t].stage]
    BY <1>2, <2>3 DEF Goto, HasTaskFields
  <2>5. task[t].stage \in {"reset", "drive", "last"} /\ (task[t].stage = "reset" => t \in Scans)
    BY <1>2 DEF TaskOK, HasTaskFields, EntryOK
  <2> QED BY <1>3, <2>1, <2>2, <2>4, <2>5
<1>6. CASE CheckDeferred(t)
  <2>1. status' = status /\ task[t].pc = "check_deferred"
    BY <1>6 DEF CheckDeferred, At
  <2>2. ~ (status.exclusive /\ status.scanOwner = t)
    BY <1>2, <2>1 DEF TaskOK, EntryOK, Fencing
  <2>3. PICK l \in {"acquire", "done"} : task' = [task EXCEPT ![t].pc = l, ![t].stage = "last"]
    BY <1>6 DEF CheckDeferred
  <2> QED BY <1>2, <1>3, <2>1, <2>2, <2>3
<1> QED BY <1>4, <1>5, <1>6

\* Every step of a scan keeps the invariant.
LEMMA ScanStepOK ==
    ASSUME NEW t \in Worker, FlagsInv, ScanStep(t)
    PROVE  FlagsInv'
  BY QuietScanOK, AcquireForResetOK, ScanDrainOK, ReleaseResetOK, EndFenceOK DEF ScanStep

\* A delete or a clear takes the slot, or is refused.
LEMMA AcquireDestructiveOK ==
    ASSUME NEW t \in Worker, FlagsInv, AcquireDestructive(t)
    PROVE  FlagsInv'
<1> DEFINE s == Reconcile(status, Dead)
<1>1. task[t].pc = "new" /\ task[t].pc \in OutsidePc /\ halfDone' = halfDone /\ t \notin Scans
  BY TaskAssumption DEF AcquireDestructive, At, OutsidePc, ghosts
<1>2. /\ ~ At(t, "dead") /\ task = [u \in Worker |-> task[u]] /\ HasTaskFields(task[t])
      /\ Frame(t, s) /\ TaskOK(s, t, task[t])
  BY <1>1, OnOutside, ReconcileFrame
<1>3. ~ Owns(s, t) /\ task[t].stage # "reset" /\ ~ (s.exclusive /\ s.scanOwner = t)
  BY <1>1, <1>2 DEF TaskOK, SlotOK, EntryOK, Fencing, HoldingPc, SweepPc, ChunksPc, ResetPc, DestroyingPc
<1> HIDE DEF s
<1>4. CASE status' = s /\ Goto(t, "done")
  <2>1. Moves(t, "done")
    BY <1>1, <1>4, GotoMoves DEF OtherPc
  <2>2. EntryOK(status', t, task'[t])
    BY <1>1, <1>3, <1>4, <2>1 DEF Moves, EntryOK, Fencing, ScanPc, SweepPc, ChunksPc
  <2> QED BY <1>2, <1>3, <1>4, <2>1, <2>2, ToOutside DEF Moves, OutsidePc
<1>5. ASSUME ~ Fenced(s), ~ DestructiveRefused(s), NEW k \in {"delete", "clear"},
             status' = TakeDestructive(s, t, k),
             NEW l \in {"deleting", "clearing"}, Moves(t, l)
      PROVE  FlagsInv'
  <2>1. Frame(t, status')
    BY <1>2, <1>5, TakeDestructiveFrame
  <2>2. /\ Owns(status', t) /\ ~ Fenced(status') /\ status'.destructive /\ status'.busyOwner.kind = k
        /\ status'.exclusive = s.exclusive /\ status'.scanOwner = s.scanOwner
    BY <1>2, <1>5 DEF Frame, StatusOK, HasStatusFields, TakeDestructive, Owns, Fenced, Sealed
  <2>3. TaskOK(status', t, task'[t])
    BY <1>1, <1>3, <1>5, <2>2
       DEF Moves, TaskOK, SlotOK, PhaseOK, EntryOK, Fencing, HoldingPc, SweepPc, ChunksPc, DestroyingPc,
           ResetPc, ScanPc
  <2> QED BY <1>2, <1>5, <2>1, <2>3, StepOK DEF Moves
<1>6. CASE /\ ~ Fenced(s) /\ ~ DestructiveRefused(s)
           /\ \E k \in {"delete", "clear"} : status' = TakeDestructive(s, t, k)
  <2> PICK k \in {"delete", "clear"} : status' = TakeDestructive(s, t, k)
    BY <1>6
  <2>1. CASE Goto(t, "clearing")
    <3>1. Moves(t, "clearing")
      BY <1>1, <2>1, GotoMoves DEF OtherPc
    <3> QED BY <1>5, <1>6, <3>1
  <2>2. CASE \E docs : task' = [task EXCEPT ![t].pc = "deleting", ![t].docs = docs]
    <3> PICK docs : task' = [task EXCEPT ![t].pc = "deleting", ![t].docs = docs]
      BY <2>2
    <3>1. Moves(t, "deleting")
      BY <1>1, <1>2 DEF Moves, HasTaskFields, OtherPc
    <3> QED BY <1>5, <1>6, <3>1
  <2> QED BY <1>6, <2>1, <2>2 DEF AcquireDestructive, s
<1> QED BY <1>4, <1>6 DEF AcquireDestructive, s

\* A delete or a clear at work holds the slot.
LEMMA OnDestroying ==
    ASSUME NEW t \in Worker, FlagsInv, task[t].pc \in DestroyingPc
    PROVE  /\ ~ At(t, "dead") /\ t \notin halfDone
           /\ task = [u \in Worker |-> task[u]] /\ HasTaskFields(task[t])
           /\ Frame(t, status) /\ TaskOK(status, t, task[t])
           /\ Owns(status, t) /\ status.destructive
           /\ ~ (status.exclusive /\ status.scanOwner = t)
<1>1. ~ At(t, "dead")
  BY DEF At, DestroyingPc
<1>2. Frame(t, status) /\ TaskOK(status, t, task[t]) /\ t \notin halfDone
  BY <1>1, Before
<1>3. Owns(status, t) /\ status.destructive
  BY <1>2 DEF TaskOK, SlotOK, HoldingPc, ChunksPc, DestroyingPc
<1>4. ~ status.exclusive
  BY <1>2, <1>3 DEF Frame, StatusOK, OwnerOK, FlagsOK
<1> QED BY <1>1, <1>2, <1>3, <1>4 DEF FlagsInv, TaskOK

\* Every step of a delete or a clear keeps the invariant: nobody else moves in beside it.
LEMMA DestructiveStepOK ==
    ASSUME NEW t \in Worker, FlagsInv, DestructiveStep(t)
    PROVE  FlagsInv'
<1>1. task[t].pc \in DestroyingPc /\ halfDone' = halfDone
  BY DEF DestructiveStep, EndDelete, LeaveDelete, ClearIngress, DropStorages, LeaveClear, DeleteDocument,
         At, DestroyingPc, ghosts, Fault
<1>2. /\ ~ At(t, "dead") /\ t \notin halfDone /\ task = [u \in Worker |-> task[u]] /\ HasTaskFields(task[t])
      /\ Frame(t, status) /\ TaskOK(status, t, task[t]) /\ Owns(status, t) /\ status.destructive
      /\ ~ (status.exclusive /\ status.scanOwner = t)
  BY <1>1, OnDestroying
<1>3. task[t].stage # "reset" \/ ~ status.exclusive
  BY <1>2 DEF Frame, StatusOK, OwnerOK, FlagsOK
<1>4. task[t].stage # "reset"
  BY <1>1, <1>2 DEF TaskOK, EntryOK, Fencing, DestroyingPc
<1>5. ASSUME status' = status, NEW l \in DestroyingPc, Moves(t, l)
      PROVE  FlagsInv'
  <2>1. TaskOK(status', t, task'[t])
    BY <1>1, <1>2, <1>4, <1>5
       DEF Moves, TaskOK, SlotOK, PhaseOK, EntryOK, Fencing, HoldingPc, SweepPc, ChunksPc, DestroyingPc,
           ResetPc, ScanPc
  <2> QED BY <1>2, <1>5, <2>1, StepOK DEF Moves
<1>6. ASSUME NEW d \in Doc, DeleteDocument(t, d) PROVE FlagsInv'
  <2>1. PICK docs : task' = [task EXCEPT ![t].docs = docs]
    BY <1>6 DEF DeleteDocument
  <2>2. task[t].pc = "deleting" /\ status' = status
    BY <1>6 DEF DeleteDocument, At
  <2>3. Moves(t, "deleting")
    BY <1>1, <1>2, <2>1, <2>2 DEF Moves, HasTaskFields
  <2> QED BY <1>5, <2>2, <2>3 DEF DestroyingPc
<1>7. CASE EndDelete(t) \/ ClearIngress(t) \/ DropStorages(t)
  <2>1. PICK l \in {"leave_delete", "dropping", "leave_clear"} : Goto(t, l)
    BY <1>7 DEF EndDelete, ClearIngress, DropStorages
  <2>2. Moves(t, l)
    BY <1>1, <2>1, GotoMoves DEF OtherPc
  <2> QED BY <1>5, <1>7, <2>2 DEF EndDelete, ClearIngress, DropStorages, DestroyingPc
<1>8. ASSUME Frame(t, status'), ~ Owns(status', t), status'.exclusive = status.exclusive,
             status'.scanOwner = status.scanOwner, NEW l \in {"acquire", "done"}, Moves(t, l)
      PROVE  FlagsInv'
  <2>1. EntryOK(status', t, task'[t])
    BY <1>2, <1>4, <1>8 DEF Moves, EntryOK, Fencing, ScanPc, SweepPc, ChunksPc
  <2> QED BY <1>2, <1>8, <2>1, ToOutside DEF Moves, OutsidePc
<1>9. CASE LeaveDelete(t)
  <2>1. Frame(t, status')
    BY <1>2, <1>9, ReleaseDeleteFrame DEF LeaveDelete
  <2>2. ~ Owns(status', t) /\ status'.exclusive = status.exclusive /\ status'.scanOwner = status.scanOwner
    BY <1>2, <1>9 DEF LeaveDelete, ReleaseDelete, Frame, StatusOK, HasStatusFields, Owns, NoOwner
  <2>3. PICK l \in {"acquire", "done"} : Leave(t, l)
    BY <1>9 DEF LeaveDelete
  <2>4. Moves(t, l)
    BY <1>1, <2>3, LeaveMoves DEF DrivePc, OtherPc
  <2> QED BY <1>8, <2>1, <2>2, <2>4
<1>10. CASE LeaveClear(t)
  <2>1. Frame(t, status')
    BY <1>2, <1>10, ReleaseClearFrame DEF LeaveClear
  <2>2. ~ Owns(status', t) /\ status'.exclusive = status.exclusive /\ status'.scanOwner = status.scanOwner
    BY <1>2, <1>10 DEF LeaveClear, ReleaseClear, Frame, StatusOK, HasStatusFields, Owns, NoOwner
  <2>3. Moves(t, "done")
    BY <1>1, <1>10, GotoMoves DEF LeaveClear, OtherPc
  <2> QED BY <1>8, <2>1, <2>2, <2>3
<1> QED BY <1>6, <1>7, <1>9, <1>10 DEF DestructiveStep

\* An insert of custom chunks takes the slot, or is refused.
LEMMA InsertCustomChunksOK ==
    ASSUME NEW t \in Worker, FlagsInv, InsertCustomChunks(t)
    PROVE  FlagsInv'
<1> DEFINE s == Reconcile(status, Dead)
<1>1. task[t].pc = "new" /\ task[t].pc \in OutsidePc /\ halfDone' = halfDone /\ t \notin Scans
  BY TaskAssumption DEF InsertCustomChunks, At, OutsidePc, ghosts
<1>2. ~ At(t, "dead") /\ Frame(t, s) /\ TaskOK(s, t, task[t])
  BY <1>1, OnOutside, ReconcileFrame
<1>3. ~ Owns(s, t) /\ task[t].stage # "reset" /\ ~ (s.exclusive /\ s.scanOwner = t)
  BY <1>1, <1>2 DEF TaskOK, SlotOK, EntryOK, Fencing, HoldingPc, SweepPc, ChunksPc, ResetPc, DestroyingPc
<1> HIDE DEF s
<1>4. CASE status' = s /\ Goto(t, "done")
  <2>1. Moves(t, "done")
    BY <1>1, <1>4, GotoMoves DEF OtherPc
  <2>2. EntryOK(status', t, task'[t])
    BY <1>1, <1>3, <1>4, <2>1 DEF Moves, EntryOK, Fencing, ScanPc, SweepPc, ChunksPc
  <2> QED BY <1>2, <1>3, <1>4, <2>1, <2>2, ToOutside DEF Moves, OutsidePc
<1>5. CASE /\ ~ Fenced(s) /\ ~ ChunksRefused(s)
           /\ status' = TakeDirect(s, t, "custom_chunks") /\ Goto(t, "preparing")
  <2>1. Moves(t, "preparing")
    BY <1>1, <1>5, GotoMoves DEF OtherPc
  <2>2. Frame(t, status')
    BY <1>2, <1>5, TakeDirectFrame
  <2>3. /\ status'.busyOwner = [task |-> t, kind |-> "custom_chunks"] /\ ~ Fenced(status')
        /\ status'.exclusive = s.exclusive /\ status'.scanOwner = s.scanOwner
    BY <1>2, <1>5 DEF Frame, StatusOK, HasStatusFields, TakeDirect, Fenced
  <2>4. Owns(status', t) /\ status'.busyOwner.kind = "custom_chunks" /\ ~ status'.destructive
    BY <2>2, <2>3 DEF Frame, StatusOK, OwnerOK, Owns, HasStatusFields
  <2>5. TaskOK(status', t, task'[t])
    BY <1>1, <1>3, <2>1, <2>3, <2>4
       DEF Moves, TaskOK, SlotOK, PhaseOK, EntryOK, Fencing, HoldingPc, SweepPc, ChunksPc, DestroyingPc,
           ResetPc, ScanPc
  <2> QED BY <1>2, <2>1, <2>2, <2>5, StepOK DEF Moves
<1> QED BY <1>4, <1>5 DEF InsertCustomChunks, s

\* An insert of custom chunks at work holds the slot, and nothing is frozen.
LEMMA OnChunks ==
    ASSUME NEW t \in Worker, NEW s, Frame(t, s), TaskOK(s, t, task[t]), task[t].pc \in ChunksPc
    PROVE  /\ Owns(s, t) /\ ~ Fenced(s) /\ ~ s.destructive /\ s.busyOwner.kind = "custom_chunks"
           /\ s.phase = "idle" /\ ~ s.exclusive /\ task[t].stage # "reset"
<1>1. Owns(s, t) /\ ~ Fenced(s) /\ ~ s.destructive /\ s.busyOwner.kind = "custom_chunks"
  BY DEF TaskOK, SlotOK, HoldingPc, ChunksPc, DestroyingPc
<1>2. s.phase = "idle" /\ ~ s.exclusive
  BY <1>1 DEF Frame, StatusOK, FlagsOK
<1> QED BY <1>1, <1>2 DEF TaskOK, EntryOK

\* Every step of such an insert keeps the invariant: it holds the slot until it gives it back, or
\* drives with it.
LEMMA ChunksStepOK ==
    ASSUME NEW t \in Worker, FlagsInv, ChunksStep(t)
    PROVE  FlagsInv'
<1>1. task[t].pc \in ChunksPc /\ halfDone' = halfDone
  BY DEF ChunksStep, PrepareOperation, ApplyOperation, LeaveSlot, TakeOver, At, ChunksPc, ghosts
<1>2. ~ At(t, "dead")
  BY <1>1 DEF ChunksPc, At
<1>3. /\ t \notin halfDone /\ task = [u \in Worker |-> task[u]] /\ HasTaskFields(task[t])
      /\ Frame(t, status) /\ TaskOK(status, t, task[t])
  BY <1>2, Before DEF FlagsInv, TaskOK
<1>4. /\ Owns(status, t) /\ ~ Fenced(status) /\ ~ status.destructive
      /\ status.busyOwner.kind = "custom_chunks" /\ status.phase = "idle" /\ ~ status.exclusive
      /\ task[t].stage # "reset"
  BY <1>1, <1>3, OnChunks
<1>5. ASSUME \/ status' = status
             \/ status' = [status EXCEPT !.cancel = "no"],
             NEW l \in {"applying", "leave_slot", "handoff"}, Moves(t, l)
      PROVE  FlagsInv'
  <2>1. Frame(t, status')
    BY <1>3, <1>5, CancelFrame
  <2>2. /\ Owns(status', t) /\ ~ Fenced(status') /\ ~ status'.destructive
        /\ status'.busyOwner.kind = "custom_chunks" /\ status'.phase = "idle" /\ ~ status'.exclusive
    BY <1>3, <1>4, <1>5 DEF Frame, StatusOK, HasStatusFields, Owns, Fenced
  <2>3. TaskOK(status', t, task'[t])
    BY <1>4, <1>5, <2>2
       DEF Moves, TaskOK, SlotOK, PhaseOK, EntryOK, Fencing, HoldingPc, SweepPc, ChunksPc, DestroyingPc,
           ResetPc, ScanPc
  <2> QED BY <1>2, <1>5, <2>1, <2>3, StepOK DEF Moves
<1>6. ASSUME Frame(t, status'), ~ Owns(status', t), ~ status'.exclusive, Moves(t, "done")
      PROVE  FlagsInv'
  <2>1. EntryOK(status', t, task'[t])
    BY <1>4, <1>6 DEF Moves, EntryOK, Fencing, ScanPc, SweepPc, ChunksPc
  <2> QED BY <1>2, <1>6, <2>1, ToOutside DEF Moves, OutsidePc
<1>7. CASE PrepareOperation(t)
  <2>1. CASE Goto(t, "leave_slot")
    BY <1>1, <1>5, <1>7, <2>1, GotoMoves DEF PrepareOperation, OtherPc
  <2>2. CASE \E docs : task' = [task EXCEPT ![t].pc = "applying", ![t].docs = docs]
    <3> PICK docs : task' = [task EXCEPT ![t].pc = "applying", ![t].docs = docs]
      BY <2>2
    <3>1. Moves(t, "applying")
      BY <1>1, <1>3 DEF Moves, HasTaskFields, OtherPc
    <3> QED BY <1>5, <1>7, <3>1 DEF PrepareOperation
  <2> QED BY <1>7, <2>1, <2>2 DEF PrepareOperation
<1>8. CASE ApplyOperation(t)
  <2>1. Moves(t, "leave_slot")
    BY <1>1, <1>3, <1>8 DEF ApplyOperation, Moves, HasTaskFields, OtherPc
  <2> QED BY <1>5, <1>8, <2>1 DEF ApplyOperation
<1>9. CASE LeaveSlot(t)
  <2>1. CASE HandsOff(t)
    <3>1. Moves(t, "handoff")
      BY <1>1, <1>9, <2>1, GotoMoves DEF LeaveSlot, OtherPc
    <3> QED BY <1>5, <1>9, <2>1, <3>1 DEF LeaveSlot
  <2>2. CASE ~ HandsOff(t)
    <3>1. Moves(t, "done")
      BY <1>1, <1>9, <2>2, GotoMoves DEF LeaveSlot, OtherPc
    <3>2. Frame(t, status')
      BY <1>3, <1>4, <1>9, <2>2, ReleaseDeleteFrame DEF LeaveSlot
    <3>3. ~ Owns(status', t) /\ ~ status'.exclusive
      BY <1>3, <1>4, <1>9, <2>2 DEF LeaveSlot, ReleaseDelete, Frame, StatusOK, HasStatusFields, Owns, NoOwner
    <3> QED BY <1>6, <3>1, <3>2, <3>3
  <2> QED BY <2>1, <2>2
<1>10. CASE TakeOver(t)
  <2> DEFINE s == Reconcile(status, Dead)
  <2>1. Frame(t, s) /\ TaskOK(s, t, task[t])
    BY <1>2, ReconcileFrame
  <2>2. Owns(s, t) /\ ~ Fenced(s) /\ ~ s.destructive /\ s.phase = "idle" /\ ~ s.exclusive
    BY <1>1, <2>1, OnChunks
  <2>3. status' = TakeProcessing(s, t, FALSE) /\ Goto(t, "peek")
    BY <1>10, <2>2 DEF TakeOver
  <2> HIDE DEF s
  <2>4. Moves(t, "peek")
    BY <1>1, <2>3, GotoMoves DEF DrivePc
  <2>5. Frame(t, status')
    BY <2>1, <2>2, <2>3, TakeProcessingFrame
  <2>6. /\ Owns(status', t) /\ ~ Fenced(status') /\ ~ status'.destructive
           /\ status'.busyOwner.kind # "custom_chunks"
        /\ status'.phase = "idle" /\ ~ status'.exclusive
    BY <2>1, <2>2, <2>3 DEF Frame, StatusOK, HasStatusFields, TakeProcessing, Owns, Fenced
  <2> QED BY <1>2, <1>4, <2>4, <2>5, <2>6, ToSweep DEF SweepPc
<1> QED BY <1>7, <1>8, <1>9, <1>10 DEF ChunksStep

-----------------------------------------------------------------------------
(* 5. Operators, deaths, and the theorem.                                   *)

\* Nobody loses anything by a cancellation.
LEMMA CancelPipelineOK ==
    ASSUME FlagsInv, CancelPipeline
    PROVE  FlagsInv'
<1>1. PICK c \in {"no", "user", "internal"} : status' = [status EXCEPT !.cancel = c]
  BY DEF CancelPipeline, FlagsInv, StatusOK, HasStatusFields
<1>2. task' = task /\ halfDone' = halfDone
  BY DEF CancelPipeline
<1>3. StatusOK(status')
  BY <1>1 DEF FlagsInv, StatusOK, HasStatusFields, OwnerOK, FlagsOK, Fenced, Sealed
<1>4. ASSUME NEW u \in Worker PROVE TaskOK(status', u, task[u])
  BY <1>1 DEF FlagsInv, StatusOK, HasStatusFields, TaskOK, SlotOK, PhaseOK, EntryOK, Owns, Fenced, Sealed
<1>5. HalfOK'
  BY <1>1, <1>2 DEF FlagsInv, StatusOK, HasStatusFields, HalfOK, Dead, At, Fenced, Sealed
<1> QED BY <1>2, <1>3, <1>4, <1>5 DEF FlagsInv

\* Behind a recovery fence nobody holds anything an operator could take away.
LEMMA ForceResetOK ==
    ASSUME FlagsInv, ForceReset
    PROVE  FlagsInv'
<1>1. status' = Unfence(status) /\ Fenced(status) /\ task' = task /\ halfDone' = {}
  BY DEF ForceReset
<1>2. StatusOK(status) /\ ~ status.exclusive
  BY <1>1 DEF FlagsInv, StatusOK, FlagsOK
<1>3. /\ status'.busyOwner = NoOwner /\ ~ status'.busy /\ ~ status'.destructive /\ ~ status'.exclusive
      /\ status'.phase = "idle" /\ status'.tokens = status.tokens /\ ~ Fenced(status') /\ ~ status'.scanning
      /\ HasStatusFields(status')
  BY <1>1, <1>2 DEF Unfence, StatusOK, HasStatusFields, Fenced, Sealed, NoOwner, Phase, Recovery
<1>4. StatusOK(status')
  BY <1>3 DEF StatusOK, OwnerOK, FlagsOK, NoOwner, Fenced, Sealed
<1>5. ASSUME NEW u \in Worker PROVE TaskOK(status', u, task[u])
  <2>1. TaskOK(status, u, task[u])
    BY DEF FlagsInv
  <2>2. task[u].pc \notin HoldingPc
    BY <1>1, <2>1 DEF TaskOK, SlotOK
  <2>3. SlotOK(status', u, task[u])
    BY <1>3, <2>2 DEF SlotOK, Owns, NoOwner
  <2>4. PhaseOK(status', task[u])
    BY <1>3, <2>2 DEF PhaseOK, HoldingPc, SweepPc, ChunksPc, ResetPc
  <2>5. EntryOK(status', u, task[u])
    BY <1>2, <1>3, <2>1 DEF TaskOK, EntryOK
  <2> QED BY <2>1, <2>3, <2>4, <2>5 DEF TaskOK
<1>6. HalfOK'
  BY <1>1 DEF HalfOK
<1> QED BY <1>1, <1>4, <1>5, <1>6 DEF FlagsInv

\* The dead keep what they held, and owe nothing.
LEMMA KillOK ==
    ASSUME NEW t \in Worker, FlagsInv, Kill(t)
    PROVE  FlagsInv'
<1>1. /\ task' = [task EXCEPT ![t] = [IdleTask EXCEPT !.pc = "dead"]] /\ status' = status
      /\ halfDone' = IF Destroying(t) THEN halfDone \cup {t} ELSE halfDone
      /\ task[t].pc # "dead"
  BY DEF Kill, Active
<1>2. ~ At(t, "dead")
  BY <1>1 DEF At
<1>3. Frame(t, status) /\ TaskOK(status, t, task[t])
  BY <1>2, Before
<1>4. task = [u \in Worker |-> task[u]]
  BY DEF FlagsInv
<1>5. /\ task' = [u \in Worker |-> task'[u]]
      /\ task'[t] = [IdleTask EXCEPT !.pc = "dead"]
      /\ \A u \in Worker \ {t} : task'[u] = task[u]
  BY <1>1, <1>4
<1>6. HasTaskFields(task'[t]) /\ task'[t].pc = "dead" /\ task'[t].stage = "drive"
  BY <1>5 DEF IdleTask, HasTaskFields, OtherPc
<1>7. TaskOK(status', t, task'[t])
  BY <1>6 DEF TaskOK, SlotOK, PhaseOK, EntryOK, Fencing, HoldingPc, SweepPc, ChunksPc, DestroyingPc,
              ResetPc, ScanPc
<1>8. ASSUME NEW u \in Worker PROVE TaskOK(status', u, task'[u])
  BY <1>1, <1>3, <1>5, <1>7 DEF Frame
<1>9. HalfOK'
  <2>1. halfDone' \subseteq Dead'
    BY <1>1, <1>5, <1>6 DEF FlagsInv, HalfOK, Dead, At
  <2>2. CASE Destroying(t)
    <3>1. Owns(status, t) /\ status.destructive
      BY <1>3, <2>2 DEF Destroying, TaskOK, SlotOK, HoldingPc, ChunksPc, DestroyingPc
    <3> QED BY <1>1, <2>1, <2>2, <3>1 DEF HalfOK, Owns
  <2>3. CASE ~ Destroying(t)
    BY <1>1, <2>1, <2>3 DEF FlagsInv, HalfOK
  <2> QED BY <2>2, <2>3
<1> QED BY <1>1, <1>3, <1>5, <1>8, <1>9 DEF FlagsInv, Frame

\* A fresh pipeline_status satisfies the invariant.
LEMMA InitOK == Init => FlagsInv
<1> SUFFICES ASSUME Init PROVE FlagsInv
  OBVIOUS
<1>1. StatusOK(status)
  BY DEF Init, IdleStatus, StatusOK, HasStatusFields, OwnerOK, FlagsOK, Fenced, Sealed, NoOwner, Phase, Recovery
<1>2. task = [u \in Worker |-> task[u]]
  BY DEF Init
<1>3. ASSUME NEW u \in Worker PROVE TaskOK(status, u, task[u])
  <2>1. task[u] = [IdleTask EXCEPT !.stage = IF u \in Scans THEN "reset" ELSE "drive"]
    BY DEF Init
  <2>2. HasTaskFields(task[u]) /\ task[u].pc = "new" /\ (task[u].stage = "reset" <=> u \in Scans)
    BY <2>1 DEF IdleTask, HasTaskFields, OtherPc
  <2>3. status.busyOwner = NoOwner /\ ~ status.exclusive
    BY DEF Init, IdleStatus
  <2> QED BY <2>2, <2>3 DEF TaskOK, SlotOK, PhaseOK, EntryOK, Fencing, Owns, NoOwner, HoldingPc, SweepPc,
                            ChunksPc,
             DestroyingPc, ResetPc, ScanPc
<1>4. HalfOK
  BY DEF Init, HalfOK
<1> QED BY <1>1, <1>2, <1>3, <1>4 DEF FlagsInv

\* Every step keeps the invariant.
LEMMA NextOK == FlagsInv /\ [Next]_vars => FlagsInv'
<1> SUFFICES ASSUME FlagsInv, [Next]_vars PROVE FlagsInv'
  OBVIOUS
<1>1. CASE UNCHANGED vars
  <2>1. status' = status /\ task' = task /\ halfDone' = halfDone
    BY <1>1 DEF vars
  <2> QED BY <2>1 DEF FlagsInv, HalfOK, Dead, At
<1>2. ASSUME NEW t \in Worker, Request(t) PROVE FlagsInv'
  BY <1>2, EnqueueStepOK, CommitRetryOK, ReserveScanOK, AcquireDestructiveOK, InsertCustomChunksOK DEF Request
<1>3. ASSUME NEW t \in Worker, Step(t) PROVE FlagsInv'
  BY <1>3, DriveStepOK, EnqueueStepOK, ScanStepOK, ChunksStepOK, DestructiveStepOK DEF Step
<1> QED BY <1>1, <1>2, <1>3, KillOK, CancelPipelineOK, ForceResetOK DEF Next, Finished

\* In every reachable state the flags of pipeline_status mean for every task what the invariant says: who
\* holds the slot, the tokens, the scan fence and the freeze, and what a dead job has left behind.
THEOREM Invariance == Spec => []FlagsInv
  BY InitOK, NextOK, PTL DEF Spec

\* The freeze of the pipeline always belongs to the processing run that holds busy.
THEOREM FreezeOwned == Spec => []FreezeIsOwned
<1>1. FlagsInv => FreezeIsOwned
  BY DEF FlagsInv, StatusOK, OwnerOK, FlagsOK, FreezeIsOwned, NoOwner
<1> QED BY <1>1, Invariance, PTL

\* Those who rewrite rows of doc_status on the strength of a reservation exclude each other.
THEOREM MutualExclusion == Spec => []WritersExclude
<1>1. FlagsInv => WritersExclude
  <2> SUFFICES ASSUME FlagsInv, NEW t \in Worker, NEW u \in Worker, t # u PROVE ~ Conflict(t, u)
    BY DEF WritersExclude
  <2>0. StatusOK(status) /\ TaskOK(status, t, task[t]) /\ TaskOK(status, u, task[u])
    BY DEF FlagsInv
  \* A run, a reset and a destructive job hold the slot, and there is one.
  <2>1. ASSUME NEW v \in {t, u}
        PROVE  /\ Destroying(v) => Owns(status, v) /\ status.destructive
               /\ Processing(v) => Owns(status, v)
               /\ Patching(v) => Owns(status, v)
               /\ Resetting(v) => Owns(status, v) /\ status.tokens = {}
    BY <2>0 DEF TaskOK, SlotOK, PhaseOK, Destroying, Processing, Patching, Resetting, At, HoldingPc,
                SweepPc, ChunksPc, ResetPc,
                DestroyingPc
  \* A scan that classifies holds the fence, and another enqueue holds a token.
  <2>2. ASSUME NEW v \in {t, u}
        PROVE  /\ Classifying(v) => status.exclusive /\ status.scanOwner = v
               /\ Storing(v) => v \in status.tokens \/ (v \in Scans /\ status.exclusive /\ status.scanOwner = v)
    BY <2>0 DEF TaskOK, EntryOK, Fencing, Classifying, Storing, At, ScanPc
  <2>3. ASSUME NEW v \in {t, u} PROVE Owns(status, v) => status.busy
    BY <2>0 DEF StatusOK, OwnerOK, Owns, NoOwner
  <2>4. /\ status.destructive => status.tokens = {} /\ ~ status.exclusive
        /\ status.exclusive => status.tokens = {} /\ (status.busy => status.busyOwner.task = status.scanOwner)
    BY <2>0 DEF StatusOK, OwnerOK, FlagsOK
  <2> QED BY <2>1, <2>2, <2>3, <2>4 DEF Conflict, Owns
<1> QED BY <1>1, Invariance, PTL

\* After a clear or a delete was killed part way nothing writes until the fence is reset.
THEOREM HalfDoneFenced == Spec => []HalfDoneIsFenced
<1>1. FlagsInv => HalfDoneIsFenced
  <2> SUFFICES ASSUME FlagsInv, halfDone # {}, NEW t \in Worker
               PROVE  ~ (Destroying(t) \/ Storing(t) \/ Processing(t) \/ Resetting(t) \/ Classifying(t))
    BY DEF HalfDoneIsFenced
  <2>0. StatusOK(status) /\ TaskOK(status, t, task[t]) /\ HalfOK
    BY DEF FlagsInv
  <2>1. status.tokens = {} /\ ~ status.exclusive
    BY <2>0 DEF HalfOK, StatusOK, OwnerOK, FlagsOK, Fenced, Sealed
  <2>2. ~ Storing(t) /\ ~ Classifying(t)
    BY <2>0, <2>1 DEF TaskOK, EntryOK, Fencing, Classifying, Storing, At, ScanPc
  <2>3. task[t].pc \notin HoldingPc
    <3>1. task[t].pc \in HoldingPc => task[t].pc # "dead"
      BY DEF HoldingPc, SweepPc, ChunksPc, ResetPc, DestroyingPc
    <3> QED BY <2>0, <3>1 DEF HalfOK, TaskOK, SlotOK, Owns, Fenced, Sealed, Dead, At
  <2> QED BY <2>2, <2>3 DEF Destroying, Processing, Resetting, At, HoldingPc, SweepPc, ChunksPc, ResetPc,
                            DestroyingPc
<1> QED BY <1>1, Invariance, PTL

-----------------------------------------------------------------------------
(* 6. Who gives the slot up.                                                *)

\* The owner of n is still that of status, unless that one was dead, or there was none.
Kept(n) == n.busyOwner = status.busyOwner \/ status.busyOwner.task \in Dead \cup {NoWorker}

\* The reaper takes the slot from the dead alone, and whoever then takes it finds it free.
LEMMA ReconcileKeeps ==
    ASSUME NEW t \in Worker, FlagsInv, ~ At(t, "dead")
    PROVE  LET s == Reconcile(status, Dead)
           IN  /\ HasStatusFields(s) /\ Kept(s)
               /\ ~ s.busy => status.busyOwner.task \in Dead \cup {NoWorker}
<1> DEFINE s == Reconcile(status, Dead)
<1>1. HasStatusFields(s) /\ OwnerOK(s)
  BY ReconcileFrame DEF Frame, StatusOK
<1>2. HasStatusFields(status)
  BY DEF FlagsInv, StatusOK
<1>3. s.busyOwner = status.busyOwner \/ status.busyOwner.task \in Dead
  BY <1>2 DEF Reconcile, ReapScanning, ReapBusy, HasStatusFields
<1>4. ~ s.busy => s.busyOwner.task = NoWorker
  BY <1>1 DEF OwnerOK, NoOwner
<1> QED BY <1>1, <1>3, <1>4 DEF Kept

\* The steps that take the slot, or look whether they may.
LEMMA TakersKeep ==
    ASSUME NEW t \in Worker, FlagsInv,
           \/ AcquireProcessing(t) \/ AcquireForReset(t) \/ AcquireDestructive(t) \/ InsertCustomChunks(t)
           \/ ReserveSlot(t) \/ AdmitEnqueue(t) \/ CommitRetry(t) \/ ReserveScan(t)
           \/ WaitForEnqueues(t) \/ ConfirmScanDrain(t)
    PROVE  Kept(status')
<1> DEFINE s == Reconcile(status, Dead)
<1>1. ~ At(t, "dead")
  BY DEF AcquireProcessing, AcquireForReset, AcquireDestructive, InsertCustomChunks, ReserveSlot,
         AdmitEnqueue, CommitRetry,
         ReserveScan, WaitForEnqueues, ConfirmScanDrain, At
<1>2. HasStatusFields(s) /\ Kept(s) /\ (~ s.busy => status.busyOwner.task \in Dead \cup {NoWorker})
  BY <1>1, ReconcileKeeps
<1>3. Kept(status)
  BY DEF Kept
<1> HIDE DEF s
<1>4. CASE AcquireProcessing(t)
  BY <1>2, <1>4 DEF AcquireProcessing, Defer, HasStatusFields, Kept, s
<1>5. CASE AcquireForReset(t)
  BY <1>2, <1>5 DEF AcquireForReset, Defer, HasStatusFields, Kept, s
<1>6. CASE AcquireDestructive(t)
  BY <1>2, <1>6 DEF AcquireDestructive, DestructiveRefused, HasStatusFields, Kept, s
<1>10. CASE InsertCustomChunks(t)
  BY <1>2, <1>10 DEF InsertCustomChunks, ChunksRefused, TakeDirect, HasStatusFields, Kept, s
<1>7. CASE ReserveSlot(t) \/ AdmitEnqueue(t)
  BY <1>2, <1>7 DEF ReserveSlot, AdmitEnqueue, TakeToken, HasStatusFields, Kept, s
<1>8. CASE ReserveScan(t)
  BY <1>2, <1>8 DEF ReserveScan, TakeScanning, HasStatusFields, Kept, s
<1>9. CASE CommitRetry(t) \/ WaitForEnqueues(t) \/ ConfirmScanDrain(t)
  BY <1>2, <1>3, <1>9 DEF CommitRetry, WaitForEnqueues, ConfirmScanDrain, s
<1> QED BY <1>4, <1>5, <1>6, <1>7, <1>8, <1>9, <1>10

\* The steps that give the slot back, if it is theirs, and then move on.
LEMMA ReleasersOwn ==
    ASSUME NEW t \in Worker, FlagsInv,
           \/ Decide(t) \/ Finalize(t) \/ ReleaseReset(t) \/ LeaveDelete(t) \/ LeaveClear(t)
           \/ LeaveSlot(t) \/ TakeOver(t)
    PROVE  Kept(status') \/ (Owns(status, t) /\ task'[t] # task[t])
<1>1. HasStatusFields(status) /\ TaskOK(status, t, task[t]) /\ task = [u \in Worker |-> task[u]]
  BY DEF FlagsInv, StatusOK
<1>2. HasTaskFields(task[t])
  BY <1>1 DEF TaskOK
<1>3. ASSUME NEW l, Goto(t, l) \/ Leave(t, l), task[t].pc # l PROVE task'[t] # task[t]
  <2>1. task'[t].pc = l
    BY <1>1, <1>2, <1>3, ZenonT(40) DEF Goto, Leave, IdleTask, HasTaskFields
  <2> QED BY <1>3, <2>1
<1>4. Done(t) \in {"leaving", "transition", "leave_scan", "done"}
  BY DEF Done
<1>5. CASE Decide(t)
  <2>1. task[t].pc \in {"entry", "decide"}
    BY <1>5 DEF Decide, At
  <2>2. CASE status' = status
    BY <2>2 DEF Kept
  <2>3. CASE Released(t)
    BY <1>1, <1>3, <1>4, <2>1, <2>3 DEF Released, TaskOK, SlotOK, HoldingPc, SweepPc, ChunksPc
  <2> QED BY <1>5, <2>2, <2>3
          DEF Decide, DecideCancelled, DecideDraining, DecideIdle, Continue, ContinueAuto, ContinueDocument
<1>6. CASE Finalize(t)
  BY <1>1, <1>3, <1>4, <1>6 DEF Finalize, ReleaseRun, HasStatusFields, At, Kept
<1>7. CASE ReleaseReset(t)
  BY <1>1, <1>3, <1>7 DEF ReleaseReset, ReleaseRun, At, Kept
<1>8. CASE LeaveDelete(t)
  BY <1>1, <1>3, <1>8 DEF LeaveDelete, ReleaseDelete, At, Kept
<1>9. CASE LeaveClear(t)
  BY <1>1, <1>3, <1>9 DEF LeaveClear, ReleaseClear, At, Kept
<1>10. CASE LeaveSlot(t) \/ TakeOver(t)
  <2>1. Owns(status, t)
    BY <1>1, <1>10 DEF LeaveSlot, TakeOver, TaskOK, SlotOK, At, HoldingPc, ChunksPc
  <2> QED BY <1>3, <1>10, <2>1 DEF LeaveSlot, TakeOver, At
<1> QED BY <1>5, <1>6, <1>7, <1>8, <1>9, <1>10

\* Everybody else leaves busyOwner alone.
LEMMA OthersKeep ==
    ASSUME NEW t \in Worker, FlagsInv,
           \/ PeekRequest(t) \/ FirstPage(t) \/ Top(t) \/ Validate(t) \/ FeedDocument(t) \/ EndBatch(t)
           \/ \E d \in Doc : StartDocument(t, d) \/ FinishDocument(t, d)
           \/ Sweep(t) \/ StartDrain(t) \/ DrainMailbox(t) \/ Fresh(t) \/ ConfirmDrained(t)
           \/ EnterExclusiveReset(t) \/ ResetPage(t) \/ AckRequest(t) \/ EndManualDrain(t)
           \/ FinalizeReleased(t)
           \/ StoreRow(t) \/ ArmAfterFault(t) \/ LeaveSerializeLock(t) \/ Publish(t) \/ ReleaseSlot(t)
           \/ CommitScan(t) \/ RefuseScan(t) \/ RollBackJournals(t) \/ BeginScanDrain(t) \/ Classify(t)
           \/ EndScanClassification(t) \/ LeaveScan(t) \/ CheckDeferred(t)
           \/ PrepareOperation(t) \/ ApplyOperation(t)
           \/ EndDelete(t) \/ ClearIngress(t) \/ DropStorages(t) \/ \E d \in Doc : DeleteDocument(t, d)
           \/ Kill(t)
    PROVE  Kept(status')
<1>1. HasStatusFields(status)
  BY DEF FlagsInv, StatusOK
<1>2. CASE status' = status
  BY <1>2 DEF Kept
<1>3. CASE Top(t) \/ FinalizeReleased(t) \/ \E d \in Doc : FinishDocument(t, d)
  <2>1. status' = status \/ \E c : status' = [status EXCEPT !.cancel = c]
    BY <1>3 DEF Top, FinalizeReleased, FinishDocument
  <2> QED BY <1>1, <2>1 DEF HasStatusFields, Kept
<1>4. CASE PeekRequest(t) \/ StartDrain(t) \/ BeginScanDrain(t)
  <2>1. status' = status \/ \E r : status' = BeginDrain(status, t, r)
    BY <1>4 DEF PeekRequest, StartDrain, BeginScanDrain
  <2> QED BY <1>1, <2>1 DEF BeginDrain, HasStatusFields, Kept
<1>5. CASE ConfirmDrained(t)
  <2>1. status' = status \/ \E k : status' = Fence(status, k)
    BY <1>5 DEF ConfirmDrained
  <2> QED BY <1>1, <2>1 DEF Fence, HasStatusFields, Kept
<1>6. CASE EnterExclusiveReset(t) \/ EndManualDrain(t)
  BY <1>1, <1>6 DEF EnterExclusiveReset, EnterReset, EndManualDrain, EndDrain, HasStatusFields, Kept
<1>7. CASE LeaveSerializeLock(t) \/ ReleaseSlot(t)
  BY <1>1, <1>7 DEF LeaveSerializeLock, ReleaseMinted, ReleaseSlot, ReleaseToken, HasStatusFields, Kept
<1>8. CASE RefuseScan(t) \/ LeaveScan(t) \/ EndScanClassification(t)
  BY <1>1, <1>8 DEF RefuseScan, LeaveScan, EndScanClassification, ReleaseScanning, EndClassification,
                    HasStatusFields, Kept
<1>9. CASE \/ FirstPage(t) \/ Validate(t) \/ FeedDocument(t) \/ EndBatch(t)
           \/ \E d \in Doc : StartDocument(t, d)
           \/ Sweep(t) \/ DrainMailbox(t) \/ Fresh(t) \/ ResetPage(t) \/ AckRequest(t)
  BY <1>2, <1>9 DEF FirstPage, Validate, FeedDocument, EndBatch, StartDocument, Sweep, DrainMailbox, Fresh,
                    ResetPage, AckRequest
<1>10. CASE \/ StoreRow(t) \/ ArmAfterFault(t) \/ Publish(t)
            \/ CommitScan(t) \/ RollBackJournals(t) \/ Classify(t) \/ CheckDeferred(t)
            \/ PrepareOperation(t) \/ ApplyOperation(t)
            \/ EndDelete(t) \/ ClearIngress(t) \/ DropStorages(t) \/ \E d \in Doc : DeleteDocument(t, d)
            \/ Kill(t)
  BY <1>2, <1>10 DEF StoreRow, ArmAfterFault, Publish, CommitScan, RollBackJournals, Classify, CheckDeferred,
                     PrepareOperation, ApplyOperation, EndDelete, ClearIngress, DropStorages,
                     DeleteDocument, Kill
<1> QED BY <1>3, <1>4, <1>5, <1>6, <1>7, <1>8, <1>9, <1>10

\* Only the owner of the slot, the reaper of a dead one or an operator takes busy away from a task.
THEOREM OwnersRelease == Spec => OwnerReleasesOnly
<1>1. ASSUME FlagsInv, [Next]_vars, NEW t \in Worker, status.busyOwner.task = t, status'.busyOwner.task # t
      PROVE  task'[t] # task[t] \/ At(t, "dead") \/ (Fenced(status) /\ ~ Fenced(status'))
  <2>1. Kept(status') => At(t, "dead")
    BY <1>1 DEF Kept, Dead
  <2>2. ASSUME NEW u \in Worker, Owns(status, u) /\ task'[u] # task[u]
        PROVE  task'[t] # task[t]
    BY <1>1, <2>2 DEF Owns
  <2>3. ASSUME NEW u \in Worker, Request(u) \/ Step(u) \/ Kill(u)
        PROVE  task'[t] # task[t] \/ At(t, "dead")
    <3>1. Kept(status') \/ (Owns(status, u) /\ task'[u] # task[u])
      BY <1>1, <2>3, TakersKeep, ReleasersOwn, OthersKeep
         DEF Request, Step, DriveStep, EnqueueStep, ScanStep, ChunksStep, DestructiveStep
    <3> QED BY <2>1, <2>2, <3>1
  <2>4. CASE CancelPipeline
    BY <1>1, <2>4 DEF CancelPipeline, FlagsInv, StatusOK, HasStatusFields
  <2>5. CASE ForceReset
    BY <1>1, <2>5 DEF ForceReset, Unfence, Fenced, Sealed, FlagsInv, StatusOK, HasStatusFields
  <2>6. CASE UNCHANGED vars
    BY <1>1, <2>6 DEF vars
  <2> QED BY <1>1, <2>3, <2>4, <2>5, <2>6 DEF Next, Finished
<1>2. FlagsInv /\ [Next]_vars => [OwnerReleases]_vars
  BY <1>1 DEF OwnerReleases
<1> QED BY <1>2, Invariance, PTL DEF Spec, OwnerReleasesOnly

-----------------------------------------------------------------------------
(* 7. The pages of doc_status.                                              *)

\* A set of naturals that has an element has a least one.
LEMMA LeastNat ==
  ASSUME NEW T \in SUBSET Nat, T # {}
  PROVE  \E m \in T : \A n \in T : m <= n
<1> DEFINE R == {ss \in Nat \X Nat : ss[1] < ss[2]}
<1>0. OpToRel(<, Nat) = R
  BY DEF OpToRel
<1>1. IsWellFoundedOn(R, Nat)
  BY <1>0, NatLessThanWellFounded
<1>2. PICK m \in T : \A z \in T : ~ (<<z, m>> \in R)
  <2> HIDE DEF R
  <2> QED  BY <1>1, WFMin
<1>3. ASSUME NEW z \in T PROVE m <= z
  <2>1. <<z, m>> \in Nat \X Nat
    OBVIOUS
  <2>2. z < m => <<z, m>> \in R
    BY <2>1
  <2> HIDE DEF R
  <2>3. ~ (z < m)
    BY <1>2, <2>2
  <2>4. m \in Nat /\ z \in Nat
    OBVIOUS
  <2> QED  BY <2>3, <2>4
<1> HIDE DEF R
<1> QED  BY <1>3

\* The newest of a set of documents is one of them, and 0 if there is none.
LEMMA NewestOK ==
  ASSUME NEW S \in SUBSET Doc
  PROVE  /\ Newest(S) \in S \cup {0}
         /\ \A d \in S : d <= Newest(S)
         /\ Newest(S) \in 0..LastDoc
<1>1. LastDoc \in Nat /\ S \subseteq 1..LastDoc
  BY DocAssumption DEF Doc
<1> DEFINE B == {b \in Nat : \A e \in S \cup {0} : e <= b}
<1>2. LastDoc \in B
  BY <1>1
<1>3. PICK m \in B : \A b \in B : m <= b
  <2>1. B \in SUBSET Nat /\ B # {}
    BY <1>2
  <2> HIDE DEF B
  <2> QED  BY <2>1, LeastNat
<1>4. m \in S \cup {0}
  <2> SUFFICES ASSUME m \notin S, m # 0 PROVE FALSE
    OBVIOUS
  <2>1. m \in Nat /\ m - 1 \in Nat
    OBVIOUS
  <2>2. \A e \in S \cup {0} : e <= m - 1
    <3> SUFFICES ASSUME NEW e \in S \cup {0} PROVE e <= m - 1
      OBVIOUS
    <3>1. e \in Nat /\ e <= m /\ e # m
      BY <1>1
    <3> HIDE DEF B
    <3> QED  BY <2>1, <3>1
  <2>3. m - 1 \in B
    BY <2>1, <2>2
  <2> HIDE DEF B
  <2> QED  BY <1>3, <2>1, <2>3
<1>5. \A e \in S \cup {0} : e <= m
  OBVIOUS
<1> HIDE DEF B
<1>6. Newest(S) \in S \cup {0} /\ \A e \in S : e <= Newest(S)
  <2>1. m \in S \cup {0} /\ \A e \in S : e <= m
    BY <1>4, <1>5
  <2> QED  BY <2>1 DEF Newest
<1>7. \A e \in S \cup {0} : e \in 0..LastDoc
  BY <1>1
<1> QED  BY <1>6, <1>7

\* The oldest of some documents is one of them.
LEMMA OldestOK ==
  ASSUME NEW S \in SUBSET Doc, S # {}
  PROVE  Oldest(S) \in S /\ \A e \in S : Oldest(S) <= e
<1>1. S \in SUBSET Nat
  BY DocAssumption DEF Doc
<1> QED  BY <1>1, LeastNat DEF Oldest

\* A first page holds rows of the set; a short one holds all of them, and nothing
\* that lies before its newest row is missing.
LEMMA FirstOfOK ==
  ASSUME NEW S \in SUBSET Doc
  PROVE  /\ FirstOf(S) \subseteq S
         /\ PageSize = 0 \/ Cardinality(FirstOf(S)) < PageSize => FirstOf(S) = S
         /\ \A d \in S, e \in FirstOf(S) : d <= e => d \in FirstOf(S)
<1>1. /\ LastDoc \in Nat /\ PageSize \in Nat /\ S \subseteq 1..LastDoc
      /\ IsFiniteSet(S)
  <2>1. LastDoc \in Nat /\ PageSize \in Nat /\ S \subseteq 1..LastDoc
    BY DocAssumption DEF Doc
  <2>2. IsFiniteSet(1..LastDoc)
    BY <2>1, FS_Interval
  <2> QED  BY <2>1, <2>2, FS_Subset
<1>0. \A x \in S : x \in Nat
  BY <1>1
<1> DEFINE upto(d) == {e \in S : e <= d}
<1>2. ASSUME NEW d \in S
      PROVE  IsFiniteSet(upto(d)) /\ Cardinality(upto(d)) \in Nat
  BY <1>1, FS_Subset, FS_CardinalityType
<1>3. FirstOf(S) = IF PageSize = 0 THEN S ELSE {d \in S : Cardinality(upto(d)) <= PageSize}
  BY DEF FirstOf
<1>4. ASSUME NEW d \in S, NEW e \in FirstOf(S), d <= e PROVE d \in FirstOf(S)
  <2>1. e \in S
    BY <1>3
  <2>2. upto(d) \subseteq upto(e)
    <3> SUFFICES ASSUME NEW x \in S, x <= d PROVE x <= e
      OBVIOUS
    <3>1. x \in Nat /\ d \in Nat /\ e \in Nat
      BY <1>0, <2>1
    <3> HIDE DEF upto
    <3> QED  BY <1>4, <3>1
  <2>3. Cardinality(upto(d)) <= Cardinality(upto(e))
    BY <1>2, <2>1, <2>2, FS_Subset
  <2>4. Cardinality(upto(d)) \in Nat /\ Cardinality(upto(e)) \in Nat
    BY <1>2, <2>1
  <2> HIDE DEF upto
  <2> QED  BY <1>1, <1>3, <2>3, <2>4
<1>5. ASSUME PageSize # 0, Cardinality(FirstOf(S)) < PageSize PROVE FirstOf(S) = S
  <2> SUFFICES ASSUME S \ FirstOf(S) # {} PROVE FALSE
    BY <1>3
  <2>1. S \ FirstOf(S) \in SUBSET Nat
    BY <1>0
  \* d is the oldest row the page leaves out; those before it are all on the page.
  <2>2. PICK d \in S \ FirstOf(S) : \A x \in S \ FirstOf(S) : d <= x
    BY <2>1, LeastNat
  <2>3. d \in S /\ d \in upto(d)
    BY <1>0
  <2>4. upto(d) \ {d} \subseteq FirstOf(S)
    <3> SUFFICES ASSUME NEW x \in S, x <= d, x # d, x \notin FirstOf(S) PROVE FALSE
      OBVIOUS
    <3>1. d <= x /\ x \in Nat /\ d \in Nat
      BY <1>0, <2>2, <2>3
    <3> HIDE DEF upto
    <3> QED  BY <3>1
  <2>5. /\ IsFiniteSet(upto(d)) /\ Cardinality(upto(d)) \in Nat
        /\ IsFiniteSet(FirstOf(S)) /\ Cardinality(FirstOf(S)) \in Nat
    BY <1>1, <1>2, <1>3, FS_Subset, FS_CardinalityType
  <2>6. Cardinality(upto(d) \ {d}) = Cardinality(upto(d)) - 1
    <3> HIDE DEF upto
    <3> QED  BY <2>3, <2>5, FS_RemoveElement
  <2>7. Cardinality(upto(d) \ {d}) <= Cardinality(FirstOf(S))
    BY <2>4, <2>5, FS_Subset
  <2>8. ~ (Cardinality(upto(d)) <= PageSize)
    BY <1>3, <1>5, <2>2
  <2> HIDE DEF upto
  <2> QED  BY <1>1, <1>5, <2>5, <2>6, <2>7, <2>8
<1> QED  BY <1>3, <1>4, <1>5

\* Every cursor after a page is a document, the start or the end.
LEMMA CursorOK ==
  ASSUME NEW S \in SUBSET Doc
  PROVE  /\ CursorAfter(FirstOf(S)) \in Start..End
         /\ \A d \in S : d <= CursorAfter(FirstOf(S)) => d \in FirstOf(S)
         /\ CursorAfter(FirstOf(S)) = End => FirstOf(S) = S
<1> DEFINE page == FirstOf(S)
<1>1. /\ LastDoc \in Nat /\ PageSize \in Nat
      /\ page \in SUBSET Doc /\ page \subseteq S
      /\ PageSize = 0 \/ Cardinality(page) < PageSize => page = S
      /\ \A d \in S, e \in page : d <= e => d \in page
  BY FirstOfOK, DocAssumption
<1>2. Newest(page) \in page \cup {0} /\ Newest(page) \in 0..LastDoc
  BY <1>1, NewestOK
<1>3. CursorAfter(page) = IF PageSize = 0 \/ Cardinality(page) < PageSize THEN End ELSE Newest(page)
  BY DEF CursorAfter
<1> HIDE DEF page
<1>4. CASE PageSize = 0 \/ Cardinality(page) < PageSize
  <2>1. CursorAfter(page) = End /\ page = S
    BY <1>1, <1>3, <1>4
  <2> QED  BY <1>1, <2>1 DEF page, Start, End
<1>5. CASE ~ (PageSize = 0 \/ Cardinality(page) < PageSize)
  <2>1. CursorAfter(page) = Newest(page)
    BY <1>3, <1>5
  <2>2. ASSUME NEW d \in S, d <= Newest(page) PROVE d \in page
    <3>1. d \in 1..LastDoc
      BY DEF Doc
    <3>2. CASE Newest(page) \in page
      BY <1>1, <2>2, <3>2
    <3>3. CASE Newest(page) = 0
      BY <1>1, <2>2, <3>1, <3>3
    <3> QED  BY <1>2, <3>2, <3>3
  <2> QED  BY <1>1, <1>2, <2>1, <2>2 DEF page, Start, End
<1> QED  BY <1>4, <1>5

-----------------------------------------------------------------------------
(* 8. The mailbox, as TypeOK has it.                                        *)

Entry    == [id : Worker, state : {"acked", "cancelled"}]
Channels == [documents : Seq(Doc), auto : BOOLEAN, manual : Seq(Worker), terminal : Seq(Entry)]

\* The latest elements of a sequence are elements of it.
LEMMA LatestKeeps ==
  ASSUME NEW S, NEW s \in Seq(S), NEW n \in Nat \ {0}
  PROVE  /\ Latest(s, n) \in Seq(S)
         /\ \A i \in DOMAIN Latest(s, n) : \E j \in DOMAIN s : Latest(s, n)[i] = s[j]
<1>1. CASE Len(s) > n
  <2>1. /\ Len(s) \in Nat /\ DOMAIN s = 1 .. Len(s)
        /\ Len(s) - n + 1 \in 1 .. Len(s) + 1 /\ Len(s) \in Len(s) - n + 1 - 1 .. Len(s)
    BY <1>1, LenProperties
  <2>2. /\ SubSeq(s, Len(s) - n + 1, Len(s)) \in Seq(S)
        /\ DOMAIN SubSeq(s, Len(s) - n + 1, Len(s)) = 1 .. n
        /\ \A i \in 1 .. n : SubSeq(s, Len(s) - n + 1, Len(s))[i] = s[Len(s) - n + i]
    BY <1>1, <2>1, SubSeqProperties
  <2>3. \A i \in 1 .. n : Len(s) - n + i \in DOMAIN s
    BY <1>1, <2>1
  <2>4. Latest(s, n) = SubSeq(s, Len(s) - n + 1, Len(s))
    BY <1>1 DEF Latest
  <2> QED  BY <2>2, <2>3, <2>4
<1>2. CASE ~ (Len(s) > n)
  BY <1>2 DEF Latest
<1> QED  BY <1>1, <1>2

\* Retiring requests makes entries of those among them that have none, in one state.
LEMMA RetireKeeps ==
  ASSUME NEW m \in Channels, NEW ids \in Seq(Worker), NEW state \in {"acked", "cancelled"}
  PROVE  /\ Retire(m, ids, state) \in Seq(Entry)
         /\ \A i \in DOMAIN Retire(m, ids, state) :
              \/ IsTerminal(m, Retire(m, ids, state)[i].id)
              \/ /\ Retire(m, ids, state)[i].state = state
                 /\ Occurs(ids, Retire(m, ids, state)[i].id)
<1> DEFINE fresh == Without(ids, TerminalIds(m))
           new   == [i \in DOMAIN fresh |-> [id |-> fresh[i], state |-> state]]
           all   == m.terminal \o new
<1>1. fresh \in Seq(Worker) /\ m.terminal \in Seq(Entry)
  BY WithoutElements DEF Channels
<1>7. ASSUME NEW k \in DOMAIN fresh PROVE Occurs(ids, fresh[k])
  <2>1. \E j \in DOMAIN fresh : fresh[j] = fresh[k]
    OBVIOUS
  <2>2. ASSUME NEW T, NEW x, \E j \in DOMAIN Without(ids, T) : Without(ids, T)[j] = x
        PROVE  \E i \in DOMAIN ids : ids[i] = x
    BY <2>2, WithoutRange
  <2> QED  BY <2>1, <2>2 DEF Occurs
<1> HIDE DEF fresh
<1>2. new \in Seq(Entry) /\ DOMAIN new = DOMAIN fresh
  <2>1. Len(fresh) \in Nat /\ DOMAIN fresh = 1 .. Len(fresh) /\ \A i \in DOMAIN fresh : fresh[i] \in Worker
    BY <1>1, LenProperties, ElementOfSeq
  <2>2. \A i \in 1 .. Len(fresh) : [id |-> fresh[i], state |-> state] \in Entry
    BY <2>1 DEF Entry
  <2>3. new = [i \in 1 .. Len(fresh) |-> [id |-> fresh[i], state |-> state]]
    BY <2>1
  <2> QED  BY <2>1, <2>2, <2>3, IsASeq
<1>3. /\ all \in Seq(Entry) /\ Len(all) = Len(m.terminal) + Len(new)
      /\ \A i \in 1 .. Len(m.terminal) + Len(new) :
           all[i] = IF i <= Len(m.terminal) THEN m.terminal[i] ELSE new[i - Len(m.terminal)]
  <2> HIDE DEF new
  <2> QED  BY <1>1, <1>2, ConcatProperties
<1>4. \A j \in DOMAIN all : IsTerminal(m, all[j].id) \/ (all[j].state = state /\ Occurs(ids, all[j].id))
  <2> SUFFICES ASSUME NEW j \in DOMAIN all
               PROVE  IsTerminal(m, all[j].id) \/ (all[j].state = state /\ Occurs(ids, all[j].id))
    OBVIOUS
  <2>1. /\ Len(m.terminal) \in Nat /\ DOMAIN m.terminal = 1 .. Len(m.terminal)
        /\ Len(new) \in Nat /\ DOMAIN new = 1 .. Len(new)
        /\ j \in 1 .. Len(m.terminal) + Len(new)
    <3> HIDE DEF new
    <3>1. DOMAIN all = 1 .. Len(all)
      BY <1>3, LenProperties
    <3> QED  BY <1>1, <1>2, <1>3, <3>1, LenProperties
  <2>2. CASE j <= Len(m.terminal)
    <3>1. j \in DOMAIN m.terminal /\ all[j] = m.terminal[j]
      <4> HIDE DEF new, all
      <4> QED  BY <1>3, <2>1, <2>2
    <3> QED  BY <3>1 DEF IsTerminal, TerminalIds
  <2>3. CASE ~ (j <= Len(m.terminal))
    <3>1. j - Len(m.terminal) \in DOMAIN new /\ all[j] = new[j - Len(m.terminal)]
      <4> HIDE DEF new, all
      <4> QED  BY <1>3, <2>1, <2>3
    <3> QED  BY <1>2, <1>7, <3>1
  <2> QED  BY <2>2, <2>3
<1>5. Retire(m, ids, state) = Latest(all, TerminalCapacity)
  BY DEF Retire, fresh
<1> HIDE DEF all, new
<1>6. /\ Latest(all, TerminalCapacity) \in Seq(Entry)
      /\ \A i \in DOMAIN Latest(all, TerminalCapacity) :
           \E j \in DOMAIN all : Latest(all, TerminalCapacity)[i] = all[j]
  BY <1>3, LatestKeeps, CapacityAssumption
<1> QED  BY <1>4, <1>5, <1>6

\* Publishing documents and signals leaves the requests alone.
LEMMA PutKeeps ==
  ASSUME NEW m \in Channels, NEW docs \in Seq(Doc)
  PROVE  /\ PutDocuments(m, docs) \in Channels
         /\ PutDocuments(m, docs).manual = m.manual
         /\ PutDocuments(m, docs).terminal = m.terminal
<1> DEFINE all == m.documents \o docs
<1>1. all \in Seq(Doc) /\ Len(all) \in Nat
  BY DEF Channels
<1>2. Len(all) > DocumentCapacity => SubSeq(all, 1, DocumentCapacity) \in Seq(Doc)
  <2> HIDE DEF all
  <2>1. CASE Len(all) > DocumentCapacity
    <3>1. 1 \in 1 .. Len(all) + 1 /\ DocumentCapacity \in 1 - 1 .. Len(all)
      BY <1>1, <2>1, CapacityAssumption
    <3> QED  BY <1>1, <3>1, SubSeqProperties
  <2> QED  BY <2>1
<1>3. PutDocuments(m, docs) = IF Len(all) <= DocumentCapacity THEN [m EXCEPT !.documents = all]
                              ELSE [m EXCEPT !.documents = SubSeq(all, 1, DocumentCapacity), !.auto = TRUE]
  BY DEF PutDocuments
<1>4. Len(all) <= DocumentCapacity \/ Len(all) > DocumentCapacity
  BY <1>1, CapacityAssumption
<1> HIDE DEF all
<1> QED  BY <1>1, <1>2, <1>3, <1>4 DEF Channels

\* So does consuming them.
LEMMA ConsumeKeeps ==
  ASSUME NEW m \in Channels
  PROVE  /\ RequestAutoRescan(m) \in Channels /\ RequestAutoRescan(m).auto
         /\ RequestAutoRescan(m).manual = m.manual /\ RequestAutoRescan(m).terminal = m.terminal
         /\ ConsumeAutoRescan(m) \in Channels
         /\ ConsumeAutoRescan(m).manual = m.manual /\ ConsumeAutoRescan(m).terminal = m.terminal
         /\ DrainDocuments(m) \in Channels
         /\ DrainDocuments(m).manual = m.manual /\ DrainDocuments(m).terminal = m.terminal
         /\ m.documents # <<>> => /\ NextDocumentTaken(m) \in Channels
                                  /\ Head(m.documents) \in Doc
         /\ NextDocumentTaken(m).manual = m.manual /\ NextDocumentTaken(m).terminal = m.terminal
<1>1. m.documents \in Seq(Doc) /\ <<>> \in Seq(Doc)
  BY DEF Channels
<1>2. m.documents # <<>> => Tail(m.documents) \in Seq(Doc) /\ Head(m.documents) \in Doc
  BY <1>1, HeadTailProperties
<1> QED  BY <1>1, <1>2 DEF Channels, RequestAutoRescan, ConsumeAutoRescan, DrainDocuments, NextDocumentTaken

\* A request is queued behind the others.
LEMMA RequestKeeps ==
  ASSUME NEW m \in Channels, NEW r \in Worker
  PROVE  /\ RequestManualRetry(m, r) \in Channels
         /\ m.manual # <<>> => RequestManualRetry(m, r).manual # <<>>
         /\ RequestManualRetry(m, r).terminal = m.terminal
<1>1. m.manual \in Seq(Worker)
  BY DEF Channels
<1>2. Append(m.manual, r) \in Seq(Worker) /\ Append(m.manual, r) # <<>>
  BY <1>1, AppendProperties, EmptySeq
<1> QED  BY <1>2 DEF RequestManualRetry, Channels

\* Retiring leaves a mailbox; only an acknowledgement makes acknowledged entries.
LEMMA RetiringKeeps ==
  ASSUME NEW m \in Channels
  PROVE  /\ \A r \in Worker : AckManualRetry(m, r) \in Channels
         /\ CancelManualRetries(m) \in Channels /\ ClearMailbox(m) \in Channels
         /\ \A n \in {CancelManualRetries(m), ClearMailbox(m)} : \A i \in DOMAIN n.terminal :
              IsTerminal(m, n.terminal[i].id) \/ n.terminal[i].state = "cancelled"
<1>1. m.manual \in Seq(Worker) /\ <<>> \in Seq(Worker) /\ <<>> \in Seq(Doc)
  BY DEF Channels
<1>3. /\ Retire(m, m.manual, "cancelled") \in Seq(Entry)
      /\ \A i \in DOMAIN Retire(m, m.manual, "cancelled") :
           \/ IsTerminal(m, Retire(m, m.manual, "cancelled")[i].id)
           \/ Retire(m, m.manual, "cancelled")[i].state = "cancelled"
  BY <1>1, RetireKeeps
<1>4. ASSUME NEW r \in Worker PROVE AckManualRetry(m, r) \in Channels
  <2>1. <<r>> \in Seq(Worker)
    OBVIOUS
  <2>2. Without(m.manual, {r}) \in Seq(Worker) /\ Retire(m, <<r>>, "acked") \in Seq(Entry)
    BY <1>1, <2>1, WithoutElements, RetireKeeps
  <2> QED  BY <2>2 DEF AckManualRetry, Channels
<1>5. /\ CancelManualRetries(m) \in Channels /\ ClearMailbox(m) \in Channels
      /\ CancelManualRetries(m).terminal = Retire(m, m.manual, "cancelled")
      /\ ClearMailbox(m).terminal = Retire(m, m.manual, "cancelled")
  BY <1>1, <1>3 DEF CancelManualRetries, ClearMailbox, EmptyMailbox, Channels
<1> QED  BY <1>3, <1>4, <1>5

-----------------------------------------------------------------------------
(* 9. What a step leaves behind.                                            *)

\* The other locals of a task at r, and what TypeOK says of the rest.
DataOK(r) ==
    /\ r.docs \subseteq Doc /\ r.routed \subseteq Doc /\ r.stalled \subseteq Doc
    /\ r.cursor \in Start .. End /\ r.repeats \in 0 .. StallRounds
    /\ r.wake \in {"none", "auto", "documents"} /\ r.drained \in Seq(Doc)
FreezeTyped(s) == s.manualOwner \in ManualOwner \cup {NoManualOwner}
Budgets == [kill : 0 .. MaxKills, cancel : 0 .. MaxCancels, fault : 0 .. MaxFaults, reset : 0 .. MaxResets]

\* FlagsInv and the rest of the types make TypeOK.
Typed == /\ mailbox \in Channels /\ row \in [Doc -> RowState] /\ budget \in Budgets
         /\ FreezeTyped(status)
         /\ \A t \in Worker : DataOK(task[t])

\* With the invariant, the types of TypeOK are those of the variables it leaves open.
LEMMA Types == FlagsInv => (TypeOK <=> Typed)
<1> SUFFICES ASSUME FlagsInv PROVE TypeOK <=> Typed
  OBVIOUS
<1>1. status \in Status <=> FreezeTyped(status)
  BY DEF FlagsInv, StatusOK, HasStatusFields, Status, FreezeTyped
<1>2. ASSUME NEW t \in Worker PROVE task[t] \in TaskState <=> DataOK(task[t])
  <2>1. HasTaskFields(task[t])
    BY DEF FlagsInv, TaskOK
  <2> QED  BY <2>1 DEF HasTaskFields, TaskState, DataOK
<1>3. task \in [Worker -> TaskState] <=> \A t \in Worker : task[t] \in TaskState
  BY DEF FlagsInv
<1>4. halfDone \subseteq Worker
  BY DEF FlagsInv, HalfOK, Dead
<1> QED  BY <1>1, <1>2, <1>3, <1>4 DEF TypeOK, Typed, Channels, Entry, Budgets

\* A step of t disturbs nobody who relies on rows or on the waiting requests: t
\* holds the slot, or it takes no request and makes at most a new document.
Quiet(t) ==
    \/ Owns(status, t)
    \/ /\ mailbox.manual # <<>> => mailbox'.manual # <<>>
       /\ \A d \in Doc : row'[d] = "failed" => row[d] = "failed"
       /\ \A d \in Doc : row'[d] \in AutoStates => row[d] \in AutoStates \/ At(t, "writing")

\* Nobody else notices a quiet step.
LEMMA OthersKept ==
  ASSUME RowsInv, NEW t \in Worker, NEW u \in Worker \ {t}, Quiet(t), task'[u] = task[u]
  PROVE  LocalsOK(task[u])'
<1>1. LocalsOK(task[u]) /\ TaskOK(status, u, task[u]) /\ TaskOK(status, t, task[t]) /\ StatusOK(status)
  BY DEF RowsInv, FlagsInv
<1>2. WakeOK(task[u])' /\ (task'[u].pc \in {"stored", "publishing"} => task'[u].docs # {})
  BY <1>1 DEF LocalsOK, WakeOK
<1>3. CASE task[u].pc \notin {"manual", "enter", "reset_page", "ack"}
  BY <1>2, <1>3 DEF LocalsOK
<1>4. CASE task[u].pc \in {"manual", "enter", "reset_page", "ack"}
  <2>1. Owns(status, u) /\ ~ Owns(status, t)
    BY <1>1, <1>4 DEF TaskOK, SlotOK, HoldingPc, SweepPc, ResetPc, Owns
  <2>2. task[u].pc = "enter" => ~ At(t, "writing")
    <3> SUFFICES ASSUME task[u].pc = "enter", At(t, "writing") PROVE FALSE
      OBVIOUS
    <3>1. status.tokens = {} /\ status.busy
      BY <1>1, <2>1 DEF TaskOK, PhaseOK, ResetPc, StatusOK, OwnerOK, Owns, NoOwner
    <3>2. t \in Scans /\ task[t].stage = "reset" /\ Fencing(task[t])
      BY <1>1, <3>1 DEF TaskOK, EntryOK, Fencing, At
    <3> QED  BY <1>1, <2>1, <3>1, <3>2 DEF TaskOK, EntryOK, StatusOK, FlagsOK, Owns
  <2>3. /\ mailbox.manual # <<>> => mailbox'.manual # <<>>
        /\ Rows({"failed"})' \subseteq Rows({"failed"})
        /\ task[u].pc = "enter" => Rows(AutoStates)' \subseteq Rows(AutoStates)
    BY <2>1, <2>2 DEF Quiet, Rows
  <2> QED  BY <1>1, <1>2, <2>3 DEF LocalsOK
<1> QED  BY <1>3, <1>4

\* What a step of t has to leave behind.
LEMMA StepKeeps ==
  ASSUME RowsInv, FlagsInv', NEW t \in Worker, Quiet(t),
         \A u \in Worker \ {t} : task'[u] = task[u],
         mailbox' \in Channels, row' \in [Doc -> RowState], budget' \in Budgets,
         FreezeTyped(status'), DataOK(task'[t]), LocalsOK(task[t])'
  PROVE  RowsInv'
<1>1. TypeOK /\ FlagsInv
  BY DEF RowsInv
<1>2. \A u \in Worker : DataOK(task[u])
  BY <1>1, Types DEF Typed
<1>3. \A u \in Worker : DataOK(task'[u])
  BY <1>2
<1>4. TypeOK'
  <2>1. (FlagsInv => (TypeOK <=> Typed))'
    BY Types, PTL
  <2>2. Typed'
    BY <1>3 DEF Typed, FreezeTyped, DataOK
  <2> QED  BY <2>1, <2>2
<1>5. \A u \in Worker \ {t} : LocalsOK(task[u])'
  BY OthersKept
<1> QED  BY <1>4, <1>5 DEF RowsInv

\* What is known before a step of t.
LEMMA Parts ==
  ASSUME RowsInv, NEW t \in Worker
  PROVE  /\ FlagsInv /\ status \in Status /\ FreezeTyped(status)
         /\ mailbox \in Channels /\ row \in [Doc -> RowState] /\ budget \in Budgets
         /\ task \in [Worker -> TaskState] /\ task[t] \in TaskState
         /\ DataOK(task[t]) /\ LocalsOK(task[t]) /\ TaskOK(status, t, task[t])
         /\ task[t].pc \in HoldingPc => Owns(status, t) /\ Quiet(t)
         /\ Done(t) \in {"leaving", "transition", "leave_scan", "done"}
<1>1. FlagsInv /\ TypeOK /\ LocalsOK(task[t]) /\ TaskOK(status, t, task[t])
  BY DEF RowsInv, FlagsInv
<1>2. Typed
  BY <1>1, Types
<1>3. status \in Status /\ task \in [Worker -> TaskState]
  BY <1>1 DEF TypeOK
<1>4. task[t].pc \in HoldingPc => Owns(status, t)
  BY <1>1 DEF TaskOK, SlotOK
<1>5. Done(t) \in {"leaving", "transition", "leave_scan", "done"}
  BY DEF Done
<1> QED  BY <1>1, <1>2, <1>3, <1>4, <1>5 DEF Typed, Quiet

\* The operators of pipeline_status leave a freeze that has an owner, or none.
LEMMA StatusOps ==
  ASSUME NEW s \in Status, NEW t \in Worker, NEW r \in Worker
  PROVE  /\ Reconcile(s, Dead) \in Status
         /\ \A n \in {s, BeginDrain(s, t, r), EnterReset(s, t), EndDrain(s, t), ReleaseRun(s, t),
                      ReleaseClear(s, t), ReleaseDelete(s, t), Unfence(s), Defer(s),
                      EndClassification(s, t), ReleaseScanning(s, t), TakeScanning(s, t),
                      TakeToken(s, t), ReleaseToken(s, t), TakeDirect(s, t, "custom_chunks"),
                      TakeDestructive(s, t, "delete"), TakeDestructive(s, t, "clear"),
                      TakeProcessing(s, t, FALSE), TakeProcessing(s, t, TRUE),
                      Fence(s, "drain_stalled"), Fence(s, "drain_blocked")} :
              FreezeTyped(n)
         /\ \A c : FreezeTyped([s EXCEPT !.cancel = c])
<1>0. FreezeTyped(s)
  BY DEF Status, FreezeTyped
<1>1. Reconcile(s, Dead) \in Status
  <2>1. ReapBusy(s, Dead) \in Status
    <3>1. CASE s.busyOwner.task \in Dead /\ (s.busy \/ s.destructive)
      <4>1. s.busyOwner \in Owner
        BY <3>1 DEF Status, NoOwner, Dead
      <4>2. (IF s.busyOwner.kind \in Rerunnable THEN s.recovery ELSE s.busyOwner.kind) \in Recovery
        BY <4>1 DEF Status, Owner, BusyKind, Rerunnable, Recovery
      <4> QED  BY <3>1, <4>2 DEF ReapBusy, Status, Phase
    <3> QED  BY <3>1 DEF ReapBusy
  <2>2. ReapScanning(ReapBusy(s, Dead), Dead) \in Status
    <3> DEFINE b == ReapBusy(s, Dead)
    <3>1. b \in Status
      BY <2>1
    <3> HIDE DEF b
    <3>2. ReapScanning(b, Dead) \in Status
      BY <3>1 DEF ReapScanning, Status
    <3> QED  BY <3>2 DEF b
  <2> DEFINE b == ReapScanning(ReapBusy(s, Dead), Dead)
  <2>3. b \in Status
    BY <2>2
  <2> HIDE DEF b
  <2>4. [b EXCEPT !.tokens = @ \ Dead] \in Status
    BY <2>3 DEF Status
  <2> QED  BY <2>4 DEF Reconcile, b
<1>2. FreezeTyped(BeginDrain(s, t, r))
  BY <1>0 DEF BeginDrain, Status, FreezeTyped, ManualOwner
<1>3. FreezeTyped(EnterReset(s, t)) /\ FreezeTyped(EndDrain(s, t)) /\ FreezeTyped(ReleaseRun(s, t))
  BY <1>0 DEF EnterReset, EndDrain, ReleaseRun, Status, FreezeTyped
<1>4. FreezeTyped(ReleaseClear(s, t)) /\ FreezeTyped(ReleaseDelete(s, t)) /\ FreezeTyped(Unfence(s))
  BY <1>0 DEF ReleaseClear, ReleaseDelete, Unfence, Status, FreezeTyped
<1>5. FreezeTyped(Defer(s)) /\ FreezeTyped(EndClassification(s, t)) /\ FreezeTyped(ReleaseScanning(s, t))
  BY <1>0 DEF Defer, EndClassification, ReleaseScanning, Status, FreezeTyped
<1>6. FreezeTyped(TakeScanning(s, t)) /\ FreezeTyped(TakeToken(s, t)) /\ FreezeTyped(ReleaseToken(s, t))
  BY <1>0 DEF TakeScanning, TakeToken, ReleaseToken, Status, FreezeTyped
<1>7. FreezeTyped(TakeDirect(s, t, "custom_chunks"))
  BY <1>0 DEF TakeDirect, Status, FreezeTyped
<1>8. FreezeTyped(TakeDestructive(s, t, "delete")) /\ FreezeTyped(TakeDestructive(s, t, "clear"))
  BY <1>0 DEF TakeDestructive, Status, FreezeTyped
<1>9. FreezeTyped(TakeProcessing(s, t, FALSE)) /\ FreezeTyped(TakeProcessing(s, t, TRUE))
  BY <1>0 DEF TakeProcessing, Status, FreezeTyped
<1>10. FreezeTyped(Fence(s, "drain_stalled")) /\ FreezeTyped(Fence(s, "drain_blocked"))
  BY <1>0 DEF Fence, Status, FreezeTyped
<1>11. \A c : FreezeTyped([s EXCEPT !.cancel = c])
  BY <1>0 DEF Status, FreezeTyped
<1> QED  BY <1>0, <1>1, <1>2, <1>3, <1>4, <1>5, <1>6, <1>7, <1>8, <1>9, <1>10, <1>11

\* A fault, a cancellation and the like stay within their bounds.
LEMMA BudgetOK ==
  ASSUME RowsInv, \/ UNCHANGED ghosts \/ Fault
                  \/ \E b \in {"kill", "cancel", "reset"} : budget[b] > 0 /\ budget' = [budget EXCEPT ![b] = @ - 1]
  PROVE  budget' \in Budgets
<1>1. /\ budget \in Budgets
      /\ {MaxKills, MaxCancels, MaxFaults, MaxResets} \subseteq Nat
  BY Types, BacklogAssumption DEF RowsInv, Typed
<1>2. CASE UNCHANGED ghosts \/ Fault
  BY <1>1, <1>2 DEF ghosts, Fault, Budgets
<1>3. CASE \E b \in {"kill", "cancel", "reset"} : budget[b] > 0 /\ budget' = [budget EXCEPT ![b] = @ - 1]
  BY <1>1, <1>3 DEF Budgets
<1> QED  BY <1>2, <1>3

\* The steps that make no document and take no request away.
Mild == /\ row' = row
        /\ mailbox' \in Channels /\ mailbox'.manual = mailbox.manual
        /\ UNCHANGED ghosts \/ Fault
        /\ FreezeTyped(status')

\* The places at which nothing is owed to a task, or nothing but its signal.
Plain == (DrivePc \cup OtherPc) \ {"stored", "publishing", "manual", "enter", "reset_page", "ack"}
Awake == {"first_page", "fresh", "validate", "finalize"}

\* A quiet step to a place at which nothing is owed.
LEMMA GotoQuiet ==
  ASSUME RowsInv, FlagsInv', NEW t \in Worker, NEW l \in Plain, Goto(t, l), Quiet(t),
         task[t].wake = "none" \/ l \in Awake,
         mailbox' \in Channels, row' \in [Doc -> RowState], budget' \in Budgets,
         FreezeTyped(status')
  PROVE  RowsInv'
<1>1. /\ task \in [Worker -> TaskState] /\ task[t] \in TaskState /\ DataOK(task[t])
  BY Parts
<1>2. task'[t] = [task[t] EXCEPT !.pc = l] /\ \A u \in Worker \ {t} : task'[u] = task[u]
  BY <1>1 DEF Goto
<1>3. DataOK(task'[t]) /\ task'[t].pc = l /\ task'[t].wake = task[t].wake
  BY <1>1, <1>2 DEF TaskState, DataOK
<1>4. LocalsOK(task[t])'
  BY <1>3 DEF LocalsOK, WakeOK, Plain, Awake
<1> QED  BY <1>2, <1>3, <1>4, StepKeeps

\* The same, when no row and no request is touched.
LEMMA GotoKeeps ==
  ASSUME RowsInv, FlagsInv', NEW t \in Worker, NEW l \in Plain, Goto(t, l), Mild,
         task[t].wake = "none" \/ l \in Awake
  PROVE  RowsInv'
<1>1. row' \in [Doc -> RowState] /\ budget' \in Budgets
  BY Parts, BudgetOK DEF Mild
<1>2. Quiet(t)
  BY DEF Quiet, Mild
<1> QED  BY <1>1, <1>2, GotoQuiet DEF Mild

\* A run that ends loses its locals, and with them what it was owed.
LEMMA LeaveKeeps ==
  ASSUME RowsInv, FlagsInv', NEW t \in Worker, NEW l \in Plain, Leave(t, l), Mild
  PROVE  RowsInv'
<1>1. /\ task \in [Worker -> TaskState] /\ row \in [Doc -> RowState]
  BY Parts
<1>2. /\ task'[t] = [IdleTask EXCEPT !.pc = l, !.stage = task[t].stage]
      /\ \A u \in Worker \ {t} : task'[u] = task[u]
  BY <1>1 DEF Leave
<1>3. DataOK(task'[t]) /\ task'[t].pc = l /\ task'[t].wake = "none"
  <2>1. End \in Start .. End /\ 0 \in 0 .. StallRounds /\ <<>> \in Seq(Doc)
    BY DocAssumption DEF Start, End
  <2> QED  BY <1>2, <2>1 DEF IdleTask, DataOK
<1>4. LocalsOK(task[t])'
  BY <1>3 DEF LocalsOK, WakeOK, Plain
<1>5. Quiet(t)
  BY DEF Quiet, Mild
<1>6. budget' \in Budgets
  BY BudgetOK DEF Mild
<1> QED  BY <1>1, <1>2, <1>3, <1>4, <1>5, <1>6, StepKeeps DEF Mild

-----------------------------------------------------------------------------
(* 10. The actions of a drive.                                              *)

\* A drive that is refused leaves, one that is admitted starts with nothing.
LEMMA AcquireProcessingKeeps ==
  ASSUME RowsInv, FlagsInv', NEW t \in Worker, AcquireProcessing(t)
  PROVE  RowsInv'
<1> DEFINE s == Reconcile(status, Dead)
<1>1. /\ status \in Status /\ mailbox \in Channels /\ LocalsOK(task[t])
      /\ Done(t) \in {"leaving", "transition", "leave_scan", "done"}
  BY Parts
<1>2. s \in Status
  BY <1>1, StatusOps
<1> HIDE DEF s
<1>3. FreezeTyped(s) /\ FreezeTyped(Defer(s)) /\ FreezeTyped(TakeProcessing(s, t, FALSE))
  BY <1>2, StatusOps
<1>4. /\ RequestAutoRescan(mailbox) \in Channels
      /\ RequestAutoRescan(mailbox).manual = mailbox.manual
  BY <1>1, ConsumeKeeps
<1>5. Mild
  BY <1>1, <1>3, <1>4 DEF AcquireProcessing, Mild, s
<1>6. Goto(t, "peek") \/ Leave(t, Done(t))
  BY DEF AcquireProcessing
<1>7. CASE Goto(t, "peek")
  <2>1. task[t].wake = "none"
    BY <1>1 DEF AcquireProcessing, At, LocalsOK, WakeOK
  <2> QED  BY <1>5, <1>7, <2>1, GotoKeeps DEF Plain, DrivePc
<1>8. CASE Leave(t, Done(t))
  BY <1>1, <1>5, <1>8, LeaveKeeps DEF Plain, DrivePc, OtherPc
<1> QED  BY <1>6, <1>7, <1>8

\* The run that looks for a request begins its drain, or takes the rescan signal.
LEMMA PeekRequestKeeps ==
  ASSUME RowsInv, FlagsInv', NEW t \in Worker, PeekRequest(t)
  PROVE  RowsInv'
<1>1. /\ status \in Status /\ FreezeTyped(status) /\ mailbox \in Channels
      /\ row \in [Doc -> RowState] /\ task \in [Worker -> TaskState]
      /\ task[t] \in TaskState /\ DataOK(task[t]) /\ LocalsOK(task[t])
  BY Parts
<1>2. task[t].wake = "none"
  BY <1>1 DEF PeekRequest, At, LocalsOK, WakeOK
<1>3. CASE mailbox.manual # <<>>
  <2>1. Head(mailbox.manual) \in Worker
    BY <1>1, <1>3, HeadTailProperties DEF Channels
  <2>2. FreezeTyped(BeginDrain(status, t, Head(mailbox.manual)))
    BY <1>1, <2>1, StatusOps
  <2>3. Mild /\ Goto(t, "first_page")
    BY <1>1, <1>3, <2>2 DEF PeekRequest, Mild
  <2> QED  BY <1>2, <2>3, GotoKeeps DEF Plain, DrivePc
<1>4. CASE ~ (mailbox.manual # <<>>)
  <2>1. /\ mailbox' \in Channels /\ mailbox'.manual = mailbox.manual /\ row' = row
        /\ FreezeTyped(status') /\ budget' \in Budgets
    BY <1>1, <1>4, ConsumeKeeps, BudgetOK DEF PeekRequest, FreezeTyped
  <2> DEFINE w == IF mailbox.auto THEN "auto" ELSE "none"
  <2>4. w \in {"auto", "none"} /\ task' = [task EXCEPT ![t].pc = "first_page", ![t].wake = w]
    BY <1>4 DEF PeekRequest
  <2> HIDE DEF w
  <2>2. /\ \A u \in Worker \ {t} : task'[u] = task[u]
        /\ DataOK(task'[t]) /\ task'[t].pc = "first_page"
    BY <1>1, <2>4 DEF TaskState, DataOK
  <2>3. Quiet(t) /\ LocalsOK(task[t])'
    BY <2>1, <2>2 DEF Quiet, LocalsOK, WakeOK
  <2> QED  BY <1>1, <2>1, <2>2, <2>3, StepKeeps
<1> QED  BY <1>3, <1>4

\* A page that was read: its rows and its cursor replace the last ones.
LEMMA TakeKeeps ==
  ASSUME RowsInv, FlagsInv', NEW t \in Worker, NEW c, NEW l \in {"top", "entry"},
         Take(t, SchedulingPage(c), l), l = "entry" => SchedulingPage(c).docs = {},
         Mild
  PROVE  RowsInv'
<1>1. /\ row \in [Doc -> RowState] /\ task \in [Worker -> TaskState]
      /\ task[t] \in TaskState /\ DataOK(task[t])
  BY Parts
<1> DEFINE page == SchedulingPage(c)
           w    == IF page.docs = {} THEN "none" ELSE task[t].wake
<1>2. page.docs \subseteq Doc /\ page.next \in Start .. End
  <2>1. Newer(Rows(AutoStates), c) \in SUBSET Doc
    BY DEF Newer, Rows
  <2>2. CursorAfter(FirstOf(Newer(Rows(AutoStates), c))) \in Start .. End
    BY <2>1, CursorOK
  <2> QED  BY <2>2 DEF SchedulingPage, Page, Rows
<1>3. /\ w \in {"none", "auto", "documents"} /\ (page.docs = {} => w = "none")
      /\ task' = [task EXCEPT ![t].docs = page.docs, ![t].cursor = page.next, ![t].pc = l,
                              ![t].drained = <<>>, ![t].wake = w]
      /\ l = "entry" => page.docs = {}
  BY <1>1 DEF Take, DataOK
<1> HIDE DEF page, w
<1>4. \A u \in Worker \ {t} : task'[u] = task[u]
  BY <1>1, <1>3
<1>5. /\ task'[t].docs = page.docs /\ task'[t].cursor = page.next /\ task'[t].pc = l
      /\ task'[t].drained = <<>> /\ task'[t].wake = w
      /\ task'[t].routed = task[t].routed /\ task'[t].stalled = task[t].stalled
      /\ task'[t].repeats = task[t].repeats
  BY <1>1, <1>3 DEF TaskState
<1>6. DataOK(task'[t]) /\ LocalsOK(task[t])'
  BY <1>1, <1>2, <1>3, <1>5 DEF DataOK, LocalsOK, WakeOK
<1>7. Quiet(t)
  BY DEF Quiet, Mild
<1>8. budget' \in Budgets
  BY BudgetOK DEF Mild
<1> QED  BY <1>1, <1>4, <1>6, <1>7, <1>8, StepKeeps DEF Mild

\* A run that cannot read its first page ends, and takes its signal along.
LEMMA FirstPageKeeps ==
  ASSUME RowsInv, FlagsInv', NEW t \in Worker, FirstPage(t)
  PROVE  RowsInv'
<1>1. FreezeTyped(status) /\ mailbox \in Channels /\ task[t].pc \in SweepPc
  BY Parts DEF FirstPage, At, SweepPc
<1>2. Mild
  BY <1>1 DEF FirstPage, Mild, FreezeTyped
<1>3. CASE Goto(t, "finalize")
  BY <1>2, <1>3, GotoKeeps DEF Plain, DrivePc, Awake
<1>4. CASE ~ Goto(t, "finalize")
  BY <1>1, <1>2, <1>4, TakeKeeps DEF FirstPage
<1> QED  BY <1>3, <1>4

\* A fresh sweep reads its first page, or puts the signal back.
LEMMA FreshKeeps ==
  ASSUME RowsInv, FlagsInv', NEW t \in Worker, Fresh(t)
  PROVE  RowsInv'
<1>1. /\ status \in Status /\ FreezeTyped(status) /\ mailbox \in Channels /\ task[t].pc \in SweepPc
      /\ row \in [Doc -> RowState] /\ task \in [Worker -> TaskState]
      /\ task[t] \in TaskState /\ DataOK(task[t])
  BY Parts DEF Fresh, At, SweepPc
<1>2. CASE Take(t, SchedulingPage(Start), "top") /\ UNCHANGED <<mailbox, ghosts>>
  <2>1. Mild
    BY <1>1, <1>2 DEF Fresh, Mild, FreezeTyped
  <2> QED  BY <1>1, <1>2, <2>1, TakeKeeps
<1>3. CASE /\ Fault /\ mailbox' = Rearm(mailbox, t)
           /\ task' = [task EXCEPT ![t].pc = "finalize", ![t].wake = "none", ![t].drained = <<>>]
  <2>1. /\ PutDocuments(mailbox, task[t].drained) \in Channels
        /\ PutDocuments(mailbox, task[t].drained).manual = mailbox.manual
    BY <1>1, PutKeeps DEF DataOK
  <2>2. Rearm(mailbox, t) \in Channels /\ Rearm(mailbox, t).manual = mailbox.manual
    BY <1>1, <2>1, ConsumeKeeps DEF Rearm
  <2>3. Mild
    BY <1>1, <1>3, <2>2 DEF Fresh, Mild, FreezeTyped
  <2>4. /\ \A u \in Worker \ {t} : task'[u] = task[u]
        /\ DataOK(task'[t]) /\ task'[t].pc = "finalize"
    BY <1>1, <1>3 DEF TaskState, DataOK
  <2>5. Quiet(t) /\ LocalsOK(task[t])' /\ budget' \in Budgets
    BY <2>3, <2>4, BudgetOK DEF Mild, Quiet, LocalsOK, WakeOK
  <2> QED  BY <1>1, <2>3, <2>4, <2>5, StepKeeps DEF Mild
<1> QED  BY <1>2, <1>3 DEF Fresh

\* The next page of a sweep, or the rescan flag in its place.
LEMMA SweepKeeps ==
  ASSUME RowsInv, FlagsInv', NEW t \in Worker, Sweep(t)
  PROVE  RowsInv'
<1>1. FreezeTyped(status) /\ mailbox \in Channels /\ task[t].pc \in SweepPc
  BY Parts DEF Sweep, At, SweepPc
<1>2. RequestAutoRescan(mailbox) \in Channels /\ RequestAutoRescan(mailbox).manual = mailbox.manual
  BY <1>1, ConsumeKeeps
<1>3. Mild
  BY <1>1, <1>2 DEF Sweep, Mild, FreezeTyped
<1>4. CASE Goto(t, "finalize")
  BY <1>3, <1>4, GotoKeeps DEF Plain, DrivePc, Awake
<1>5. CASE ~ Goto(t, "finalize")
  BY <1>1, <1>3, <1>5, TakeKeeps DEF Sweep
<1> QED  BY <1>4, <1>5

\* The decision: nothing is lost on the way to what it decides, and a request is
\* there when it decides for the drain.
LEMMA DecideKeeps ==
  ASSUME RowsInv, FlagsInv', NEW t \in Worker, Decide(t)
  PROVE  RowsInv'
<1>1. /\ status \in Status /\ FreezeTyped(status) /\ mailbox \in Channels
      /\ row \in [Doc -> RowState] /\ task \in [Worker -> TaskState]
      /\ task[t] \in TaskState /\ DataOK(task[t]) /\ LocalsOK(task[t])
      /\ task[t].pc \in {"entry", "decide"}
      /\ Done(t) \in {"leaving", "transition", "leave_scan", "done"}
  BY Parts DEF Decide, At
<1>2. task[t].wake = "none"
  BY <1>1 DEF LocalsOK, WakeOK
<1>3. row' = row /\ UNCHANGED ghosts
  BY DEF Decide
<1>4. \/ \E l \in {"sweep", "drain_mailbox", "confirm", "wait", "finalize", "top"} : Continue(t, l)
      \/ ManualWaiting(mailbox) /\ Continue(t, "manual")
      \/ ContinueAuto(t)
      \/ Released(t)
  BY DEF Decide, DecideCancelled, DecideDraining, DecideIdle, ContinueDocument
<1>5. ASSUME NEW l \in {"sweep", "drain_mailbox", "confirm", "wait", "finalize", "top"}, Continue(t, l)
      PROVE  RowsInv'
  <2>1. Goto(t, l) /\ Mild
    BY <1>1, <1>3, <1>5 DEF Continue, Mild, FreezeTyped
  <2>2. l \in Plain
    BY DEF Plain, DrivePc
  <2> QED  BY <1>2, <2>1, <2>2, GotoKeeps
<1>6. CASE ManualWaiting(mailbox) /\ Continue(t, "manual")
  <2>1. /\ mailbox' = mailbox /\ status' = status /\ mailbox.manual # <<>>
        /\ task' = [task EXCEPT ![t].pc = "manual"]
    BY <1>6 DEF Continue, Goto, ManualWaiting
  <2>2. \A u \in Worker \ {t} : task'[u] = task[u]
    BY <2>1
  <2>3. DataOK(task'[t]) /\ task'[t].pc = "manual" /\ task'[t].wake = "none"
    BY <1>1, <1>2, <2>1 DEF TaskState, DataOK
  <2>4. LocalsOK(task[t])' /\ Quiet(t) /\ FreezeTyped(status')
    BY <1>1, <1>3, <2>1, <2>3 DEF LocalsOK, WakeOK, Quiet
  <2> QED  BY <1>1, <1>3, <2>1, <2>2, <2>3, <2>4, StepKeeps, BudgetOK
<1>7. CASE ContinueAuto(t)
  <2>1. /\ task' = [task EXCEPT ![t].pc = "fresh", ![t].wake = "auto"] /\ status' = status
        /\ mailbox' \in Channels /\ mailbox'.manual = mailbox.manual
    BY <1>1, <1>7, ConsumeKeeps DEF ContinueAuto
  <2>2. \A u \in Worker \ {t} : task'[u] = task[u]
    BY <1>1, <2>1
  <2>3. DataOK(task'[t]) /\ task'[t].pc = "fresh"
    BY <1>1, <2>1 DEF TaskState, DataOK
  <2>4. LocalsOK(task[t])' /\ Quiet(t) /\ FreezeTyped(status')
    BY <1>1, <1>3, <2>1, <2>3 DEF LocalsOK, WakeOK, Quiet
  <2> QED  BY <1>1, <1>3, <2>1, <2>2, <2>3, <2>4, StepKeeps, BudgetOK
<1>8. CASE Released(t)
  <2>1. FreezeTyped(status')
    BY <1>1, <1>8 DEF Released, Status, FreezeTyped
  <2>2. Mild
    BY <1>1, <1>3, <1>8, <2>1 DEF Released, Mild
  <2>3. Leave(t, Done(t)) \/ Goto(t, "released")
    BY <1>8 DEF Released
  <2> QED  BY <1>1, <1>2, <2>2, <2>3, LeaveKeeps, GotoKeeps DEF Plain, DrivePc, OtherPc
<1> QED  BY <1>4, <1>5, <1>6, <1>7, <1>8

\* A run that goes to validate has rows; one that is cancelled ends.
LEMMA TopKeeps ==
  ASSUME RowsInv, FlagsInv', NEW t \in Worker, Top(t)
  PROVE  RowsInv'
<1>1. /\ status \in Status /\ FreezeTyped(status) /\ mailbox \in Channels /\ LocalsOK(task[t])
  BY Parts
<1>2. FreezeTyped([status EXCEPT !.cancel = "no"])
  BY <1>1, StatusOps
<1>3. Mild
  BY <1>1, <1>2 DEF Top, Mild, FreezeTyped
<1>4. Goto(t, "finalize") \/ Goto(t, "validate") \/ (Goto(t, "decide") /\ task[t].docs = {})
  BY DEF Top
<1>5. task[t].docs = {} => task[t].wake = "none"
  BY <1>1 DEF Top, At, LocalsOK, WakeOK
<1> QED  BY <1>3, <1>4, <1>5, GotoKeeps DEF Plain, DrivePc, Awake

\* The slot is the run's while it works on a batch; what is routed and drained stays typed.
LEMMA ValidateKeeps ==
  ASSUME RowsInv, FlagsInv', NEW t \in Worker, Validate(t)
  PROVE  RowsInv'
<1> DEFINE docs == task[t].docs \ Unreadable
<1>1. /\ FreezeTyped(status) /\ mailbox \in Channels /\ Quiet(t)
      /\ row \in [Doc -> RowState] /\ task \in [Worker -> TaskState]
      /\ task[t] \in TaskState /\ DataOK(task[t])
  BY Parts DEF Validate, At, HoldingPc, SweepPc
<1>2. status' = status /\ mailbox' = mailbox /\ budget' \in Budgets
  BY BudgetOK DEF Validate
<1>3. CASE Fault /\ Goto(t, "finalize") /\ UNCHANGED row
  <2>1. Mild
    BY <1>1, <1>2, <1>3 DEF Mild, FreezeTyped
  <2> QED  BY <1>3, <2>1, GotoKeeps DEF Plain, DrivePc, Awake
<1>4. CASE ~ (Fault /\ Goto(t, "finalize") /\ UNCHANGED row)
  <2>1. PICK l \in {"decide", "batch"} :
          task' = [task EXCEPT ![t].docs = docs, ![t].wake = "none", ![t].routed = docs, ![t].pc = l]
    BY <1>4 DEF Validate
  <2>2. row' \in [Doc -> RowState]
    BY <1>1, <1>4 DEF Validate, RowState
  <2>3. \A u \in Worker \ {t} : task'[u] = task[u]
    BY <1>1, <2>1
  <2>4. DataOK(task'[t]) /\ task'[t].pc \in {"decide", "batch"} /\ task'[t].wake = "none"
    BY <1>1, <2>1 DEF TaskState, DataOK
  <2>5. LocalsOK(task[t])'
    BY <2>4 DEF LocalsOK, WakeOK
  <2> QED  BY <1>1, <1>2, <2>2, <2>3, <2>4, <2>5, StepKeeps DEF FreezeTyped
<1> QED  BY <1>3, <1>4

\* A step of the batch changes its documents, what is routed and what is drained.
LEMMA BatchKeeps ==
  ASSUME RowsInv, FlagsInv', NEW t \in Worker, At(t, "batch"),
         NEW docs \in SUBSET Doc, NEW routed \in SUBSET Doc, NEW drained \in Seq(Doc),
         NEW l \in {"batch", "decide", "finalize"},
         task' = [task EXCEPT ![t].docs = docs, ![t].routed = routed, ![t].drained = drained, ![t].pc = l],
         row' \in [Doc -> RowState], mailbox' \in Channels, FreezeTyped(status'),
         UNCHANGED ghosts \/ Fault
  PROVE  RowsInv'
<1>1. /\ Quiet(t) /\ task \in [Worker -> TaskState] /\ LocalsOK(task[t])
      /\ task[t] \in TaskState /\ DataOK(task[t])
  BY Parts DEF At, HoldingPc, SweepPc
<1>2. task[t].wake = "none"
  BY <1>1 DEF LocalsOK, WakeOK, At
<1>3. \A u \in Worker \ {t} : task'[u] = task[u]
  BY <1>1
<1>4. DataOK(task'[t]) /\ task'[t].pc = l /\ task'[t].wake = "none"
  BY <1>1, <1>2 DEF TaskState, DataOK
<1>5. LocalsOK(task[t])'
  BY <1>4 DEF LocalsOK, WakeOK
<1> QED  BY <1>1, <1>3, <1>4, <1>5, StepKeeps, BudgetOK

\* A batch writes rows under the slot.
LEMMA StartDocumentKeeps ==
  ASSUME RowsInv, FlagsInv', NEW t \in Worker, NEW d \in Doc, StartDocument(t, d) \/ FinishDocument(t, d)
  PROVE  RowsInv'
<1>1. /\ status \in Status /\ FreezeTyped(status) /\ mailbox \in Channels
      /\ row \in [Doc -> RowState] /\ task \in [Worker -> TaskState]
      /\ task[t] \in TaskState /\ DataOK(task[t])
  BY Parts
<1>2. At(t, "batch") /\ mailbox' = mailbox /\ (UNCHANGED ghosts \/ Fault)
  BY DEF StartDocument, FinishDocument
<1>3. FreezeTyped(status')
  BY <1>1, StatusOps DEF StartDocument, FinishDocument, FreezeTyped
<1>4. \E state \in {"active", "failed", "processed"} : WriteRow(t, d, state)
  BY DEF StartDocument, FinishDocument, Finish
<1>5. row' \in [Doc -> RowState]
  BY <1>1, <1>4 DEF WriteRow, RowState
<1>6. task' = task \/ task' = [task EXCEPT ![t].docs = @ \ {d}]
  BY DEF StartDocument, FinishDocument, Finish
<1>7. \E docs \in SUBSET Doc :
        task' = [task EXCEPT ![t].docs = docs, ![t].routed = task[t].routed,
                             ![t].drained = task[t].drained, ![t].pc = "batch"]
  <2>1. task[t].docs \in SUBSET Doc /\ task[t].docs \ {d} \in SUBSET Doc
    BY <1>1 DEF DataOK
  <2>2. \A docs : [task EXCEPT ![t].docs = docs] =
                  [task EXCEPT ![t].docs = docs, ![t].routed = task[t].routed,
                               ![t].drained = task[t].drained, ![t].pc = "batch"]
    BY <1>1, <1>2 DEF TaskState, At
  <2>3. task = [task EXCEPT ![t].docs = task[t].docs]
    BY <1>1 DEF TaskState
  <2>4. CASE task' = task
    BY <2>1, <2>2, <2>3, <2>4
  <2>5. CASE task' = [task EXCEPT ![t].docs = @ \ {d}]
    BY <2>1, <2>2, <2>5
  <2> QED  BY <1>6, <2>4, <2>5
<1>8. task[t].routed \in SUBSET Doc /\ task[t].drained \in Seq(Doc)
  BY <1>1 DEF DataOK
<1>9. PICK docs \in SUBSET Doc :
        task' = [task EXCEPT ![t].docs = docs, ![t].routed = task[t].routed,
                             ![t].drained = task[t].drained, ![t].pc = "batch"]
  BY <1>7
<1>10. mailbox' \in Channels
  BY <1>1, <1>2
<1> QED  BY <1>2, <1>3, <1>5, <1>8, <1>9, <1>10, BatchKeeps

\* The feeder takes notifications off the mailbox into the batch.
LEMMA FeedDocumentKeeps ==
  ASSUME RowsInv, FlagsInv', NEW t \in Worker, FeedDocument(t)
  PROVE  RowsInv'
<1> DEFINE d == Head(mailbox.documents)
<1>1. /\ FreezeTyped(status) /\ mailbox \in Channels
      /\ row \in [Doc -> RowState] /\ task \in [Worker -> TaskState]
      /\ task[t] \in TaskState /\ DataOK(task[t])
  BY Parts
<1>2. At(t, "batch") /\ row' = row /\ FreezeTyped(status') /\ UNCHANGED ghosts
  BY <1>1 DEF FeedDocument, FreezeTyped
<1>3. d \in Doc /\ NextDocumentTaken(mailbox) \in Channels
  BY <1>1, ConsumeKeeps DEF FeedDocument
<1>4. mailbox' \in Channels
  <2>1. RequestAutoRescan(NextDocumentTaken(mailbox)) \in Channels
    BY <1>3, ConsumeKeeps
  <2> QED  BY <1>3, <2>1 DEF FeedDocument
<1>5. task' = task \/ Route(t, d) \/ task' = [task EXCEPT ![t].drained = Append(@, d)]
  BY DEF FeedDocument
<1> HIDE DEF d
<1>6. /\ task[t].docs \in SUBSET Doc /\ task[t].docs \cup {d} \in SUBSET Doc
      /\ task[t].routed \in SUBSET Doc /\ task[t].routed \cup {d} \in SUBSET Doc
      /\ task[t].drained \in Seq(Doc) /\ Append(task[t].drained, d) \in Seq(Doc)
  <2>1. task[t].docs \in SUBSET Doc /\ task[t].routed \in SUBSET Doc /\ task[t].drained \in Seq(Doc)
    BY <1>1 DEF DataOK
  <2>2. task[t].docs \cup {d} \in SUBSET Doc /\ task[t].routed \cup {d} \in SUBSET Doc
    BY <1>3, <2>1, Zenon
  <2>3. Append(task[t].drained, d) \in Seq(Doc)
    BY <1>3, <2>1, AppendProperties
  <2> QED  BY <2>1, <2>2, <2>3
<1>7. \E docs \in SUBSET Doc, routed \in SUBSET Doc, drained \in Seq(Doc) :
        task' = [task EXCEPT ![t].docs = docs, ![t].routed = routed,
                             ![t].drained = drained, ![t].pc = "batch"]
  <2>1. CASE task' = task
    <3>1. task' = [task EXCEPT ![t].docs = task[t].docs, ![t].routed = task[t].routed,
                               ![t].drained = task[t].drained, ![t].pc = "batch"]
      BY <1>1, <1>2, <2>1 DEF TaskState, At
    <3> QED  BY <1>6, <3>1
  <2>2. CASE Route(t, d)
    <3>1. task' = [task EXCEPT ![t].docs = task[t].docs \cup {d}, ![t].routed = task[t].routed \cup {d},
                               ![t].drained = task[t].drained, ![t].pc = "batch"]
      BY <1>1, <1>2, <2>2 DEF Route, TaskState, At
    <3> QED  BY <1>6, <3>1
  <2>3. CASE task' = [task EXCEPT ![t].drained = Append(@, d)]
    <3>1. task' = [task EXCEPT ![t].docs = task[t].docs, ![t].routed = task[t].routed,
                               ![t].drained = Append(task[t].drained, d), ![t].pc = "batch"]
      BY <1>1, <1>2, <2>3 DEF TaskState, At
    <3> QED  BY <1>6, <3>1
  <2> QED  BY <1>5, <2>1, <2>2, <2>3
<1>8. PICK docs \in SUBSET Doc, routed \in SUBSET Doc, drained \in Seq(Doc) :
        task' = [task EXCEPT ![t].docs = docs, ![t].routed = routed,
                             ![t].drained = drained, ![t].pc = "batch"]
  BY <1>7
<1> QED  BY <1>1, <1>2, <1>4, <1>8, BatchKeeps

\* Those it could not route go back.
LEMMA EndBatchKeeps ==
  ASSUME RowsInv, FlagsInv', NEW t \in Worker, EndBatch(t)
  PROVE  RowsInv'
<1>1. /\ FreezeTyped(status) /\ mailbox \in Channels
      /\ row \in [Doc -> RowState] /\ task \in [Worker -> TaskState]
      /\ task[t] \in TaskState /\ DataOK(task[t])
  BY Parts
<1>2. /\ At(t, "batch") /\ row' = row /\ FreezeTyped(status') /\ (UNCHANGED ghosts \/ Fault)
      /\ mailbox' \in Channels
  BY <1>1, PutKeeps DEF EndBatch, FreezeTyped, DataOK
<1>3. <<>> \in Seq(Doc) /\ {} \in SUBSET Doc /\ task[t].routed \in SUBSET Doc /\ task[t].docs \in SUBSET Doc
  BY <1>1 DEF DataOK
<1>4. \/ task' = [task EXCEPT ![t].docs = task[t].docs, ![t].routed = {}, ![t].drained = <<>>,
                              ![t].pc = "decide"]
      \/ task' = [task EXCEPT ![t].docs = task[t].docs, ![t].routed = task[t].routed,
                              ![t].drained = <<>>, ![t].pc = "finalize"]
  <2>1. [task EXCEPT ![t].pc = "decide", ![t].drained = <<>>, ![t].routed = {}]
          = [task EXCEPT ![t].docs = task[t].docs, ![t].routed = {}, ![t].drained = <<>>,
                         ![t].pc = "decide"]
    BY <1>1 DEF TaskState
  <2>2. [task EXCEPT ![t].pc = "finalize", ![t].drained = <<>>]
          = [task EXCEPT ![t].docs = task[t].docs, ![t].routed = task[t].routed,
                         ![t].drained = <<>>, ![t].pc = "finalize"]
    BY <1>1 DEF TaskState
  <2> QED  BY <2>1, <2>2 DEF EndBatch
<1>5. CASE task' = [task EXCEPT ![t].docs = task[t].docs, ![t].routed = {}, ![t].drained = <<>>,
                                ![t].pc = "decide"]
  BY <1>1, <1>2, <1>3, <1>5, BatchKeeps
<1>6. CASE task' = [task EXCEPT ![t].docs = task[t].docs, ![t].routed = task[t].routed,
                                ![t].drained = <<>>, ![t].pc = "finalize"]
  BY <1>1, <1>2, <1>3, <1>6, BatchKeeps
<1> QED  BY <1>4, <1>5, <1>6

\* A run that winds down forgets its page.
LEMMA WindDownKeeps ==
  ASSUME RowsInv, FlagsInv', NEW t \in Worker, WindDown(t), Mild, task[t].wake = "none"
  PROVE  RowsInv'
<1>1. /\ row \in [Doc -> RowState] /\ task \in [Worker -> TaskState]
      /\ task[t] \in TaskState /\ DataOK(task[t])
  BY Parts
<1>2. \A u \in Worker \ {t} : task'[u] = task[u]
  BY <1>1 DEF WindDown
<1>3. End \in Start .. End
  BY DocAssumption DEF Start, End
<1>4. DataOK(task'[t]) /\ task'[t].pc = "top" /\ task'[t].wake = "none"
  BY <1>1, <1>3 DEF WindDown, TaskState, DataOK
<1>5. LocalsOK(task[t])' /\ Quiet(t)
  BY <1>4 DEF LocalsOK, WakeOK, Quiet, Mild
<1> QED  BY <1>1, <1>2, <1>4, <1>5, StepKeeps, BudgetOK DEF Mild

\* The waiting request begins its drain.
LEMMA StartDrainKeeps ==
  ASSUME RowsInv, FlagsInv', NEW t \in Worker, StartDrain(t)
  PROVE  RowsInv'
<1>1. status \in Status /\ FreezeTyped(status) /\ mailbox \in Channels /\ LocalsOK(task[t])
  BY Parts
<1>2. task[t].wake = "none" /\ mailbox.manual # <<>>
  BY <1>1 DEF StartDrain, At, LocalsOK, WakeOK
<1>3. Head(mailbox.manual) \in Worker
  BY <1>1, <1>2, HeadTailProperties DEF Channels
<1>4. FreezeTyped(BeginDrain(status, t, Head(mailbox.manual)))
  BY <1>1, <1>3, StatusOps
<1>5. Mild /\ (WindDown(t) \/ Goto(t, "fresh"))
  BY <1>1, <1>4 DEF StartDrain, Mild, FreezeTyped
<1> QED  BY <1>2, <1>5, WindDownKeeps, GotoKeeps DEF Plain, DrivePc

\* The notifications are the run's until its sweep has found their rows.
LEMMA DrainMailboxKeeps ==
  ASSUME RowsInv, FlagsInv', NEW t \in Worker, DrainMailbox(t)
  PROVE  RowsInv'
<1>1. /\ FreezeTyped(status) /\ mailbox \in Channels
      /\ row \in [Doc -> RowState] /\ task \in [Worker -> TaskState]
      /\ task[t] \in TaskState /\ DataOK(task[t])
  BY Parts
<1>2. Mild
  BY <1>1, ConsumeKeeps DEF DrainMailbox, Mild, FreezeTyped
<1>3. \A u \in Worker \ {t} : task'[u] = task[u]
  BY <1>1 DEF DrainMailbox
<1>4. mailbox.documents \in Seq(Doc)
  BY <1>1 DEF Channels
<1>5. DataOK(task'[t]) /\ task'[t].pc = "fresh"
  BY <1>1, <1>4 DEF DrainMailbox, TaskState, DataOK
<1>6. LocalsOK(task[t])' /\ Quiet(t)
  BY <1>2, <1>5 DEF LocalsOK, WakeOK, Quiet, Mild
<1> QED  BY <1>1, <1>2, <1>3, <1>5, <1>6, StepKeeps, BudgetOK DEF Mild

\* Waiting changes reservations alone.
LEMMA WaitForEnqueuesKeeps ==
  ASSUME RowsInv, FlagsInv', NEW t \in Worker, WaitForEnqueues(t)
  PROVE  RowsInv'
<1>1. status \in Status /\ mailbox \in Channels /\ LocalsOK(task[t])
  BY Parts
<1>2. Reconcile(status, Dead) \in Status
  BY <1>1, StatusOps
<1>3. FreezeTyped(Reconcile(status, Dead))
  BY <1>2, StatusOps
<1>4. Mild /\ Goto(t, "top")
  BY <1>1, <1>3 DEF WaitForEnqueues, Mild
<1>5. task[t].wake = "none"
  BY <1>1 DEF WaitForEnqueues, At, LocalsOK, WakeOK
<1> QED  BY <1>4, <1>5, GotoKeeps DEF Plain, DrivePc

\* The page a confirmation reads has a routable row, if there is one.
LEMMA ConfirmedOK ==
  /\ ConfirmedPage.docs \subseteq Doc /\ ConfirmedPage.next \in Start .. End
  /\ ConfirmedPage.docs = {} => Rows(Routable) = {}
<1>1. ASSUME NEW page \in SUBSET Doc PROVE CursorAfter(page) \in Start .. End
  <2>1. Newest(page) \in 0 .. LastDoc /\ LastDoc \in Nat
    BY NewestOK, DocAssumption
  <2> QED  BY <2>1 DEF CursorAfter, Start, End
<1>2. CASE Rows(Routable) = {}
  <2>1. End \in Start .. End
    BY DocAssumption DEF Start, End
  <2> QED  BY <1>2, <2>1 DEF ConfirmedPage
<1>3. CASE Rows(Routable) # {}
  <2> DEFINE first == Oldest(Rows(Routable))
             page  == IF PageSize = 0 THEN Rows(AutoStates)
                      ELSE {d \in Rows(AutoStates) : Block(d) = Block(first)}
  <2>1. first \in Rows(Routable)
    BY <1>3, OldestOK DEF Rows
  <2>2. Rows(Routable) \subseteq Rows(AutoStates) /\ Rows(AutoStates) \subseteq Doc
    BY DEF Rows, Routable, AutoStates
  <2>3. first \in page /\ page \in SUBSET Doc
    BY <2>1, <2>2
  <2>4. ConfirmedPage = [docs |-> page \cap Rows(Routable), next |-> CursorAfter(page)]
    BY <1>3 DEF ConfirmedPage
  <2> HIDE DEF page, first
  <2>5. CursorAfter(page) \in Start .. End
    BY <1>1, <2>3
  <2> QED  BY <2>1, <2>3, <2>4, <2>5
<1> QED  BY <1>2, <1>3

\* A confirmation that lets the reset go ahead has found no unfinished row.
LEMMA ConfirmDrainedKeeps ==
  ASSUME RowsInv, FlagsInv', NEW t \in Worker, ConfirmDrained(t)
  PROVE  RowsInv'
<1> DEFINE page == ConfirmedPage
<1>1. /\ status \in Status /\ FreezeTyped(status) /\ mailbox \in Channels
      /\ row \in [Doc -> RowState] /\ task \in [Worker -> TaskState]
      /\ task[t] \in TaskState /\ DataOK(task[t]) /\ LocalsOK(task[t])
  BY Parts
<1>2. task[t].wake = "none"
  BY <1>1 DEF ConfirmDrained, At, LocalsOK, WakeOK
<1>3. /\ page.docs \subseteq Doc /\ page.next \in Start .. End
      /\ page.docs = {} => Rows(Routable) = {}
  BY ConfirmedOK
<1>4. FreezeTyped(status')
  BY <1>1, StatusOps DEF ConfirmDrained, FreezeTyped
<1>5. Mild
  BY <1>1, <1>4 DEF ConfirmDrained, Mild
<1> HIDE DEF page
<1>6. CASE Goto(t, "finalize")
  BY <1>5, <1>6, GotoKeeps DEF Plain, DrivePc, Awake
<1>7. CASE /\ page.docs # {} /\ (Repeats(t, page.docs) < StallRounds \/ page.docs # task[t].stalled)
           /\ task' = [task EXCEPT ![t].pc = "top", ![t].docs = page.docs,
                                   ![t].cursor = page.next, ![t].stalled = page.docs,
                                   ![t].repeats = Repeats(t, page.docs)]
  <2>1. Repeats(t, page.docs) \in 0 .. StallRounds
    BY <1>1, <1>7, DocAssumption DEF Repeats, DataOK
  <2>2. \A u \in Worker \ {t} : task'[u] = task[u]
    BY <1>1, <1>7
  <2>3. DataOK(task'[t]) /\ task'[t].pc = "top" /\ task'[t].wake = "none"
    BY <1>1, <1>2, <1>3, <1>7, <2>1 DEF TaskState, DataOK
  <2>4. LocalsOK(task[t])' /\ Quiet(t)
    BY <1>5, <2>3 DEF LocalsOK, WakeOK, Quiet, Mild
  <2> QED  BY <1>1, <1>5, <2>2, <2>3, <2>4, StepKeeps, BudgetOK DEF Mild
<1>8. CASE page.docs = {} /\ Rows({"journal"}) = {} /\ Goto(t, "enter")
  <2>1. \A u \in Worker \ {t} : task'[u] = task[u]
    BY <1>1, <1>8 DEF Goto
  <2>2. DataOK(task'[t]) /\ task'[t].pc = "enter" /\ task'[t].wake = "none"
    BY <1>1, <1>2, <1>8 DEF Goto, TaskState, DataOK
  <2>3. Rows(AutoStates)' = {}
    BY <1>3, <1>5, <1>8 DEF Rows, AutoStates, Routable, Mild
  <2>4. LocalsOK(task[t])' /\ Quiet(t)
    BY <1>5, <2>2, <2>3 DEF LocalsOK, WakeOK, Quiet, Mild
  <2> QED  BY <1>1, <1>5, <2>1, <2>2, <2>4, StepKeeps, BudgetOK DEF Mild
<1> QED  BY <1>6, <1>7, <1>8 DEF ConfirmDrained, page

\* The reset begins before the oldest row.
LEMMA EnterExclusiveResetKeeps ==
  ASSUME RowsInv, FlagsInv', NEW t \in Worker, EnterExclusiveReset(t)
  PROVE  RowsInv'
<1>1. /\ status \in Status /\ FreezeTyped(status) /\ mailbox \in Channels
      /\ row \in [Doc -> RowState] /\ task \in [Worker -> TaskState]
      /\ task[t] \in TaskState /\ DataOK(task[t]) /\ LocalsOK(task[t])
      /\ Owns(status, t)
  BY Parts DEF EnterExclusiveReset, At, HoldingPc, ResetPc
<1>2. task[t].wake = "none"
  BY <1>1 DEF EnterExclusiveReset, At, LocalsOK, WakeOK
<1>3. FreezeTyped(status')
  BY <1>1, StatusOps DEF EnterExclusiveReset, FreezeTyped
<1>4. Mild
  BY <1>1, <1>3 DEF EnterExclusiveReset, Mild
<1>5. CASE WindDown(t)
  BY <1>2, <1>4, <1>5, WindDownKeeps
<1>6. CASE task' = [task EXCEPT ![t].cursor = Start, ![t].pc = "reset_page"]
  <2>1. \A u \in Worker \ {t} : task'[u] = task[u]
    BY <1>1, <1>6
  <2>2. Start \in Start .. End
    BY DocAssumption DEF Start, End
  <2>3. DataOK(task'[t]) /\ task'[t].pc = "reset_page" /\ task'[t].wake = "none" /\ task'[t].cursor = Start
    BY <1>1, <1>2, <1>6, <2>2 DEF TaskState, DataOK
  <2>4. \A d \in Doc : d > Start
    BY DocAssumption DEF Doc, Start
  <2>5. LocalsOK(task[t])' /\ Quiet(t)
    BY <1>4, <2>3, <2>4 DEF LocalsOK, WakeOK, Quiet, Mild, Rows
  <2> QED  BY <1>1, <1>4, <2>1, <2>3, <2>5, StepKeeps, BudgetOK DEF Mild
<1> QED  BY <1>1, <1>5, <1>6 DEF EnterExclusiveReset

\* A page of the reset leaves no FAILED row with content behind its cursor.
LEMMA ResetPageKeeps ==
  ASSUME RowsInv, FlagsInv', NEW t \in Worker, ResetPage(t)
  PROVE  RowsInv'
<1> DEFINE c == task[t].cursor
           S == Newer(Rows({"failed", "failed_journal"}), c)
           page == FailedPage(c)
<1>1. /\ status \in Status /\ FreezeTyped(status) /\ mailbox \in Channels
      /\ row \in [Doc -> RowState] /\ task \in [Worker -> TaskState]
      /\ task[t] \in TaskState /\ DataOK(task[t]) /\ LocalsOK(task[t])
      /\ Owns(status, t) /\ Quiet(t)
  BY Parts DEF ResetPage, At, HoldingPc, ResetPc
<1>2. task[t].wake = "none" /\ \A d \in Rows({"failed"}) \ Unreadable : d > c
  BY <1>1 DEF ResetPage, At, LocalsOK, WakeOK
<1>3. budget' \in Budgets /\ mailbox' = mailbox /\ status' = status
  BY BudgetOK DEF ResetPage
<1>4. CASE Fault /\ Goto(t, Abandon(t)) /\ UNCHANGED row
  <2>1. Mild
    BY <1>1, <1>3, <1>4 DEF Mild, FreezeTyped
  <2>2. Abandon(t) \in Plain
    BY DEF Abandon, Plain, DrivePc, OtherPc
  <2> QED  BY <1>2, <1>4, <2>1, <2>2, GotoKeeps
<1>5. CASE /\ row' = [d \in Doc |-> IF d \in page.docs \ Unreadable THEN "pending" ELSE row[d]]
           /\ task' = [task EXCEPT ![t].cursor = page.next,
                                   ![t].pc = IF page.next = End THEN "ack" ELSE "reset_page"]
  <2>1. /\ page.docs = FirstOf(S) \cap Rows({"failed"}) /\ page.next = CursorAfter(FirstOf(S))
        /\ S \in SUBSET Doc
    BY DEF FailedPage, Page, Newer, Rows
  <2>2. /\ page.next \in Start .. End
        /\ \A d \in S : d <= page.next => d \in FirstOf(S)
    BY <2>1, CursorOK
  <2>3. ASSUME NEW d \in Doc, row'[d] = "failed", d \notin Unreadable PROVE d > page.next
    <3>1. row[d] = "failed" /\ d \notin page.docs
      BY <1>5, <2>3
    <3>2. d \in Rows({"failed"}) /\ d \in S
      BY <1>2, <2>3, <3>1 DEF Rows, Newer
    <3>3. d \notin FirstOf(S)
      BY <2>1, <3>1, <3>2
    <3>4. d \in Int /\ page.next \in Int
      BY <2>2 DEF Doc, Start, End
    <3> HIDE DEF S, page
    <3> QED  BY <2>2, <3>2, <3>3, <3>4
  <2> DEFINE l == IF page.next = End THEN "ack" ELSE "reset_page"
  <2> HIDE DEF page
  <2>4. \A u \in Worker \ {t} : task'[u] = task[u]
    BY <1>1, <1>5
  <2>5. l \in {"ack", "reset_page"} /\ task' = [task EXCEPT ![t].cursor = page.next, ![t].pc = l]
    BY <1>5
  <2>6. l = "ack" => page.next = End
    OBVIOUS
  <2> HIDE DEF l
  <2>7. DataOK(task'[t]) /\ task'[t].pc = l /\ task'[t].wake = "none" /\ task'[t].cursor = page.next
    BY <1>1, <1>2, <2>2, <2>5 DEF TaskState, DataOK
  <2>8. \A d \in Doc : ~ (d > End)
    BY DocAssumption DEF Doc, End
  <2>9. l = "ack" => Rows({"failed"})' \subseteq Unreadable
    BY <2>3, <2>6, <2>8 DEF Rows
  <2>10. \A d \in Rows({"failed"})' \ Unreadable : d > page.next
    BY <2>3 DEF Rows
  <2>11. LocalsOK(task[t])'
    BY <2>5, <2>7, <2>9, <2>10 DEF LocalsOK, WakeOK
  <2>12. row' \in [Doc -> RowState]
    BY <1>1, <1>5 DEF RowState
  <2> QED  BY <1>1, <1>3, <2>4, <2>7, <2>11, <2>12, StepKeeps DEF FreezeTyped
<1> QED  BY <1>1, <1>4, <1>5 DEF ResetPage

\* The request that is retired is the one of the run's own freeze.
LEMMA AckRequestKeeps ==
  ASSUME RowsInv, FlagsInv', NEW t \in Worker, AckRequest(t)
  PROVE  RowsInv'
<1>1. /\ FreezeTyped(status) /\ mailbox \in Channels /\ row \in [Doc -> RowState] /\ LocalsOK(task[t])
      /\ Owns(status, t) /\ Quiet(t) /\ FlagsInv /\ TaskOK(status, t, task[t])
  BY Parts DEF AckRequest, At, HoldingPc, ResetPc
<1>2. task[t].wake = "none"
  BY <1>1 DEF AckRequest, At, LocalsOK, WakeOK
<1>3. status.manualOwner.request \in Worker
  <2>1. status.phase = "reset"
    BY <1>1 DEF AckRequest, At, TaskOK, PhaseOK
  <2>2. status.manualOwner.task = t
    BY <1>1, <2>1 DEF FlagsInv, StatusOK, FlagsOK, Owns
  <2> QED  BY <1>1, <2>2 DEF FreezeTyped, ManualOwner, NoManualOwner
<1>4. mailbox' \in Channels
  BY <1>1, <1>3, RetiringKeeps DEF AckRequest
<1>5. Goto(t, "release_reset") \/ Goto(t, "end_drain")
  BY DEF AckRequest
<1>6. row' \in [Doc -> RowState] /\ budget' \in Budgets /\ FreezeTyped(status')
  BY <1>1, BudgetOK DEF AckRequest, FreezeTyped
<1> QED  BY <1>1, <1>2, <1>4, <1>5, <1>6, GotoQuiet DEF Plain, DrivePc, OtherPc

\* The freeze goes, the run sweeps again.
LEMMA EndManualDrainKeeps ==
  ASSUME RowsInv, FlagsInv', NEW t \in Worker, EndManualDrain(t)
  PROVE  RowsInv'
<1>1. status \in Status /\ mailbox \in Channels /\ LocalsOK(task[t])
  BY Parts
<1>2. Mild /\ Goto(t, "fresh")
  BY <1>1, StatusOps DEF EndManualDrain, Mild
<1> QED  BY <1>2, GotoKeeps DEF Plain, DrivePc, Awake

\* A run that ends has put its signal back.
LEMMA FinalizeKeeps ==
  ASSUME RowsInv, FlagsInv', NEW t \in Worker, Finalize(t) \/ FinalizeReleased(t)
  PROVE  RowsInv'
<1>1. /\ status \in Status /\ mailbox \in Channels /\ DataOK(task[t])
      /\ Done(t) \in {"leaving", "transition", "leave_scan", "done"}
  BY Parts
<1>2. Rearm(mailbox, t) \in Channels /\ Rearm(mailbox, t).manual = mailbox.manual
  <2>1. /\ PutDocuments(mailbox, task[t].drained) \in Channels
        /\ PutDocuments(mailbox, task[t].drained).manual = mailbox.manual
    BY <1>1, PutKeeps DEF DataOK
  <2> QED  BY <1>1, <2>1, ConsumeKeeps DEF Rearm
<1>3. FreezeTyped(status')
  <2>1. ReleaseRun(status, t) \in Status
    BY <1>1 DEF ReleaseRun, Status, Phase
  <2>2. /\ \A c : FreezeTyped([ReleaseRun(status, t) EXCEPT !.cancel = c])
        /\ \A c : FreezeTyped([status EXCEPT !.cancel = c])
    BY <1>1, <2>1, StatusOps
  <2>3. ReleaseRun(status, t).cancel = status.cancel
    BY <1>1 DEF ReleaseRun, Status
  <2> QED  BY <2>2 DEF Finalize, FinalizeReleased
<1>4. Mild /\ Leave(t, Done(t))
  BY <1>1, <1>2, <1>3 DEF Finalize, FinalizeReleased, Mild
<1> QED  BY <1>1, <1>4, LeaveKeeps DEF Plain, DrivePc, OtherPc

\* Every step of a drive.
LEMMA DriveStepKeeps ==
  ASSUME RowsInv, FlagsInv', NEW t \in Worker, DriveStep(t)
  PROVE  RowsInv'
BY AcquireProcessingKeeps, PeekRequestKeeps, FirstPageKeeps, DecideKeeps, TopKeeps, ValidateKeeps,
   FeedDocumentKeeps, EndBatchKeeps, StartDocumentKeeps, SweepKeeps, StartDrainKeeps,
   DrainMailboxKeeps, FreshKeeps, WaitForEnqueuesKeeps, ConfirmDrainedKeeps,
   EnterExclusiveResetKeeps, ResetPageKeeps, AckRequestKeeps, EndManualDrainKeeps, FinalizeKeeps
   DEF DriveStep

-----------------------------------------------------------------------------
(* 11. Enqueues and retries.                                                *)

\* A reservation leaves rows and requests alone.
LEMMA ReserveSlotKeeps ==
  ASSUME RowsInv, FlagsInv', NEW t \in Worker, ReserveSlot(t) \/ AdmitEnqueue(t)
  PROVE  RowsInv'
<1> DEFINE s == Reconcile(status, Dead)
<1>1. status \in Status /\ mailbox \in Channels /\ LocalsOK(task[t])
  BY Parts
<1>2. s \in Status
  BY <1>1, StatusOps
<1> HIDE DEF s
<1>3. FreezeTyped(s) /\ FreezeTyped(TakeToken(s, t))
  BY <1>2, StatusOps
<1>4. Mild
  BY <1>1, <1>3 DEF ReserveSlot, AdmitEnqueue, Mild, s
<1>5. \E l \in {"done", "reserved", "leaving", "transition", "writing"} : Goto(t, l)
  BY DEF ReserveSlot, AdmitEnqueue, Rejected
<1>6. task[t].wake = "none"
  BY <1>1 DEF ReserveSlot, AdmitEnqueue, At, LocalsOK, WakeOK
<1> QED  BY <1>4, <1>5, <1>6, GotoKeeps DEF Plain, DrivePc, OtherPc

\* A new document is pending, and its enqueue remembers it.
LEMMA StoreRowKeeps ==
  ASSUME RowsInv, FlagsInv', NEW t \in Worker, StoreRow(t)
  PROVE  RowsInv'
<1>1. /\ FreezeTyped(status) /\ mailbox \in Channels
      /\ row \in [Doc -> RowState] /\ task \in [Worker -> TaskState]
      /\ task[t] \in TaskState /\ DataOK(task[t]) /\ LocalsOK(task[t])
  BY Parts
<1>2. At(t, "writing") /\ task[t].wake = "none" /\ NewDoc \in Doc
  BY <1>1 DEF StoreRow, At, LocalsOK, WakeOK
<1>3. row' \in {row, [row EXCEPT ![NewDoc] = "pending"]}
  BY DEF StoreRow
<1>4. row' \in [Doc -> RowState] /\ Quiet(t)
  BY <1>1, <1>2, <1>3 DEF RowState, Quiet, AutoStates, StoreRow
<1>5. mailbox' = mailbox /\ status' = status /\ budget' \in Budgets
  BY BudgetOK DEF StoreRow
<1>6. CASE \E l \in {"upsert_failed", "raise"} : Goto(t, l)
  BY <1>1, <1>2, <1>4, <1>5, <1>6, GotoQuiet DEF Plain, OtherPc, FreezeTyped
<1>7. CASE task' = [task EXCEPT ![t].pc = "stored", ![t].docs = {NewDoc}]
  <2>1. \A u \in Worker \ {t} : task'[u] = task[u]
    BY <1>1, <1>7
  <2>2. DataOK(task'[t]) /\ task'[t].pc = "stored" /\ task'[t].wake = "none" /\ task'[t].docs # {}
    BY <1>1, <1>2, <1>7 DEF TaskState, DataOK
  <2>3. LocalsOK(task[t])'
    BY <2>2 DEF LocalsOK, WakeOK
  <2> QED  BY <1>1, <1>4, <1>5, <2>1, <2>2, <2>3, StepKeeps DEF FreezeTyped
<1> QED  BY <1>6, <1>7 DEF StoreRow

\* So does the compensation of a failed upsert.
LEMMA ArmAfterFaultKeeps ==
  ASSUME RowsInv, FlagsInv', NEW t \in Worker, ArmAfterFault(t)
  PROVE  RowsInv'
<1>1. FreezeTyped(status) /\ mailbox \in Channels /\ LocalsOK(task[t])
  BY Parts
<1>2. Mild /\ (Goto(t, "raise") \/ Goto(t, "rescue"))
  BY <1>1, ConsumeKeeps DEF ArmAfterFault, Mild, FreezeTyped
<1>3. task[t].wake = "none"
  BY <1>1 DEF ArmAfterFault, At, LocalsOK, WakeOK
<1> QED  BY <1>2, <1>3, GotoKeeps DEF Plain, OtherPc

\* The enqueue still knows its row when it publishes.
LEMMA LeaveSerializeLockKeeps ==
  ASSUME RowsInv, FlagsInv', NEW t \in Worker, LeaveSerializeLock(t)
  PROVE  RowsInv'
<1>1. /\ status \in Status /\ FreezeTyped(status) /\ mailbox \in Channels
      /\ row \in [Doc -> RowState] /\ task \in [Worker -> TaskState]
      /\ task[t] \in TaskState /\ DataOK(task[t]) /\ LocalsOK(task[t])
      /\ Done(t) \in {"leaving", "transition", "leave_scan", "done"}
  BY Parts
<1>2. task[t].wake = "none" /\ (At(t, "stored") => task[t].docs # {})
  BY <1>1 DEF LeaveSerializeLock, At, LocalsOK, WakeOK
<1>3. FreezeTyped(status')
  BY <1>1, StatusOps DEF LeaveSerializeLock, ReleaseMinted
<1>4. Mild
  BY <1>1, <1>3 DEF LeaveSerializeLock, Mild
<1>5. CASE Goto(t, "acquire") \/ Goto(t, Done(t))
  BY <1>1, <1>2, <1>4, <1>5, GotoKeeps DEF Plain, DrivePc, OtherPc
<1>6. CASE At(t, "stored") /\ Goto(t, "publishing")
  <2>1. \A u \in Worker \ {t} : task'[u] = task[u]
    BY <1>1, <1>6 DEF Goto
  <2>2. DataOK(task'[t]) /\ task'[t].pc = "publishing" /\ task'[t].wake = "none" /\ task'[t].docs # {}
    BY <1>1, <1>2, <1>6 DEF Goto, TaskState, DataOK
  <2>3. LocalsOK(task[t])' /\ Quiet(t)
    BY <1>4, <2>2 DEF LocalsOK, WakeOK, Quiet, Mild
  <2> QED  BY <1>1, <1>4, <2>1, <2>2, <2>3, StepKeeps, BudgetOK DEF Mild
<1> QED  BY <1>5, <1>6 DEF LeaveSerializeLock

\* A published document has left its enqueue.
LEMMA PublishKeeps ==
  ASSUME RowsInv, FlagsInv', NEW t \in Worker, Publish(t)
  PROVE  RowsInv'
<1>1. /\ FreezeTyped(status) /\ mailbox \in Channels
      /\ row \in [Doc -> RowState] /\ task \in [Worker -> TaskState]
      /\ task[t] \in TaskState /\ DataOK(task[t]) /\ LocalsOK(task[t])
  BY Parts
<1>2. task[t].wake = "none" /\ task[t].docs # {} /\ task[t].docs \subseteq Doc
  BY <1>1 DEF Publish, At, LocalsOK, WakeOK, DataOK
<1> DEFINE d == CHOOSE d \in Doc : d \in task[t].docs
<1>3. d \in Doc
  BY <1>2
<1>4. \/ mailbox' = PutDocuments(mailbox, <<d>>) /\ UNCHANGED ghosts
      \/ Fault /\ mailbox' = RequestAutoRescan(mailbox)
  BY DEF Publish
<1> HIDE DEF d
<1>10. <<d>> \in Seq(Doc)
  BY <1>3
<1>11. /\ PutDocuments(mailbox, <<d>>) \in Channels
       /\ PutDocuments(mailbox, <<d>>).manual = mailbox.manual
  BY <1>1, <1>10, PutKeeps
<1>12. mailbox' \in Channels /\ mailbox'.manual = mailbox.manual
  BY <1>1, <1>4, <1>11, ConsumeKeeps
<1>5. Mild
  BY <1>1, <1>12 DEF Publish, Mild, FreezeTyped
<1> DEFINE l == IF t \in Scans THEN "transition" ELSE "acquire"
<1>6. l \in {"transition", "acquire"} /\ task' = [task EXCEPT ![t].docs = {}, ![t].pc = l]
  BY DEF Publish
<1> HIDE DEF l
<1>7. \A u \in Worker \ {t} : task'[u] = task[u]
  BY <1>1, <1>6
<1>8. DataOK(task'[t]) /\ task'[t].pc = l /\ task'[t].wake = "none"
  BY <1>1, <1>2, <1>6 DEF TaskState, DataOK
<1>9. LocalsOK(task[t])' /\ Quiet(t)
  BY <1>5, <1>6, <1>8 DEF LocalsOK, WakeOK, Quiet, Mild
<1> QED  BY <1>1, <1>5, <1>7, <1>8, <1>9, StepKeeps, BudgetOK DEF Mild

\* A task that has no signal and is owed nothing afterwards.
LEMMA PlainKeeps ==
  ASSUME RowsInv, FlagsInv', NEW t \in Worker, NEW l \in Plain, Goto(t, l), Mild,
         task[t].pc \notin Awake \cup {"top", "dead"}
  PROVE  RowsInv'
<1>1. LocalsOK(task[t])
  BY Parts
<1>2. task[t].wake = "none"
  BY <1>1 DEF LocalsOK, WakeOK, Awake
<1> QED  BY <1>2, GotoKeeps

\* Every step of an enqueue.
LEMMA EnqueueStepKeeps ==
  ASSUME RowsInv, FlagsInv', NEW t \in Worker, EnqueueStep(t)
  PROVE  RowsInv'
<1>1. ASSUME ReleaseSlot(t) PROVE RowsInv'
  <2>1. status \in Status /\ mailbox \in Channels
    BY Parts
  <2>2. FreezeTyped(ReleaseToken(status, t))
    BY <2>1, StatusOps
  <2>3. Mild /\ Goto(t, "done")
    BY <1>1, <2>1, <2>2 DEF ReleaseSlot, Mild
  <2> QED  BY <1>1, <2>3, PlainKeeps DEF ReleaseSlot, At, Plain, OtherPc, Awake
<1> QED  BY <1>1, StoreRowKeeps, ArmAfterFaultKeeps, LeaveSerializeLockKeeps, PublishKeeps,
            ReserveSlotKeeps DEF EnqueueStep

\* A request that is published waits behind those that wait.
LEMMA PublishedKeeps ==
  ASSUME RowsInv, FlagsInv', NEW t \in Worker, NEW l \in Plain, Goto(t, l),
         task[t].pc \notin Awake \cup {"top", "dead"},
         mailbox' \in {mailbox, RequestManualRetry(mailbox, t)}, row' = row,
         UNCHANGED ghosts \/ Fault, FreezeTyped(status')
  PROVE  RowsInv'
<1>1. mailbox \in Channels /\ LocalsOK(task[t]) /\ row \in [Doc -> RowState]
  BY Parts
<1>2. mailbox' \in Channels /\ Quiet(t)
  BY <1>1, RequestKeeps DEF Quiet
<1>3. task[t].wake = "none" /\ budget' \in Budgets
  BY <1>1, BudgetOK DEF LocalsOK, WakeOK, Awake
<1> QED  BY <1>1, <1>2, <1>3, GotoQuiet

\* A manual retry joins those that wait, or is refused.
LEMMA CommitRetryKeeps ==
  ASSUME RowsInv, FlagsInv', NEW t \in Worker, CommitRetry(t)
  PROVE  RowsInv'
<1> DEFINE s == Reconcile(status, Dead)
<1>1. status \in Status
  BY Parts
<1>2. s \in Status
  BY <1>1, StatusOps
<1> HIDE DEF s
<1>3. FreezeTyped(s)
  BY <1>2, StatusOps
<1>4. /\ task[t].pc = "new" /\ status' = s
      /\ mailbox' \in {mailbox, RequestManualRetry(mailbox, t)} /\ row' = row /\ UNCHANGED ghosts
      /\ \E l \in {"done", "acquire"} : Goto(t, l)
  BY DEF CommitRetry, At, s
<1> QED  BY <1>3, <1>4, PublishedKeeps DEF Plain, DrivePc, OtherPc, Awake

-----------------------------------------------------------------------------
(* 12. Scans.                                                               *)

\* A scan reserves.
LEMMA ReserveScanKeeps ==
  ASSUME RowsInv, FlagsInv', NEW t \in Worker, ReserveScan(t)
  PROVE  RowsInv'
<1> DEFINE s == Reconcile(status, Dead)
<1>1. status \in Status /\ mailbox \in Channels
  BY Parts
<1>2. s \in Status
  BY <1>1, StatusOps
<1>3. /\ task[t].pc = "new" /\ status' \in {s, TakeScanning(s, t)}
      /\ UNCHANGED <<mailbox, row, ghosts>> /\ \E l \in {"done", "publish"} : Goto(t, l)
  BY DEF ReserveScan, At
<1> HIDE DEF s
<1>4. Mild
  BY <1>1, <1>2, <1>3, StatusOps DEF Mild
<1> QED  BY <1>3, <1>4, PlainKeeps DEF Plain, OtherPc, Awake

\* A scan publishes its own request.
LEMMA CommitScanKeeps ==
  ASSUME RowsInv, FlagsInv', NEW t \in Worker, CommitScan(t)
  PROVE  RowsInv'
<1>1. FreezeTyped(status)
  BY Parts
<1>2. /\ task[t].pc = "publish" /\ status' = status /\ row' = row
      /\ mailbox' \in {mailbox, RequestManualRetry(mailbox, t)} /\ (UNCHANGED ghosts \/ Fault)
      /\ \E l \in {"rollback", "refused"} : Goto(t, l)
  BY DEF CommitScan, At
<1> QED  BY <1>1, <1>2, PublishedKeeps DEF Plain, OtherPc, Awake, FreezeTyped

\* A rollback leaves processed rows or none.
LEMMA RollBackJournalsKeeps ==
  ASSUME RowsInv, FlagsInv', NEW t \in Worker, RollBackJournals(t)
  PROVE  RowsInv'
<1>1. /\ FreezeTyped(status) /\ mailbox \in Channels /\ row \in [Doc -> RowState]
      /\ LocalsOK(task[t])
  BY Parts
<1>2. /\ task[t].pc = "rollback" /\ status' = status /\ mailbox' = mailbox
      /\ (UNCHANGED ghosts \/ Fault) /\ Goto(t, "scan_acquire")
  BY DEF RollBackJournals, At
<1>3. row' \in [Doc -> RowState] /\ \A d \in Doc : row'[d] \in {row[d], "processed", "none"}
  BY <1>1 DEF RollBackJournals, RowState
<1>4. Quiet(t)
  BY <1>2, <1>3 DEF Quiet, AutoStates
<1>5. task[t].wake = "none" /\ budget' \in Budgets
  BY <1>1, <1>2, BudgetOK DEF LocalsOK, WakeOK
<1> QED  BY <1>1, <1>2, <1>3, <1>4, <1>5, GotoQuiet DEF Plain, OtherPc, FreezeTyped

\* A scan takes the slot for its reset.
LEMMA AcquireForResetKeeps ==
  ASSUME RowsInv, FlagsInv', NEW t \in Worker, AcquireForReset(t)
  PROVE  RowsInv'
<1> DEFINE s == Reconcile(status, Dead)
           n == TakeProcessing(s, t, s.scanOwner = t)
<1>1. status \in Status /\ mailbox \in Channels
  BY Parts
<1>2. s \in Status
  BY <1>1, StatusOps
<1>3. /\ task[t].pc = "scan_acquire"
      /\ status' \in {s, Defer(s), n}
      /\ mailbox' \in {mailbox, RequestAutoRescan(mailbox)} /\ UNCHANGED <<row, ghosts>>
      /\ \E l \in {"leave_scan", "scan_begin"} : Goto(t, l)
  BY DEF AcquireForReset, At
<1>4. n \in {TakeProcessing(s, t, TRUE), TakeProcessing(s, t, FALSE)}
  BY <1>2 DEF Status
<1> HIDE DEF s, n
<1>5. FreezeTyped(s) /\ FreezeTyped(Defer(s)) /\ FreezeTyped(n)
  BY <1>2, <1>4, StatusOps
<1>6. Mild
  BY <1>1, <1>3, <1>5, ConsumeKeeps DEF Mild
<1> QED  BY <1>3, <1>6, PlainKeeps DEF Plain, OtherPc, Awake

\* A scan freezes the pipeline, or gives it up.
LEMMA ScanDrainKeeps ==
  ASSUME RowsInv, FlagsInv', NEW t \in Worker, BeginScanDrain(t) \/ ReleaseReset(t)
  PROVE  RowsInv'
<1>1. status \in Status /\ mailbox \in Channels
  BY Parts
<1>2. /\ task[t].pc \in {"scan_begin", "release_reset", "abandon_reset"}
      /\ status' \in {BeginDrain(status, t, t), ReleaseRun(status, t)}
      /\ UNCHANGED <<mailbox, row, ghosts>>
      /\ \E l \in {"scan_confirm", "abandon_reset", "classify", "leave_scan"} : Goto(t, l)
  BY DEF BeginScanDrain, ReleaseReset, At
<1>3. Mild
  BY <1>1, <1>2, StatusOps DEF Mild
<1> QED  BY <1>2, <1>3, PlainKeeps DEF Plain, OtherPc, Awake

\* A scan's reset does not wait for the rows: nothing is owed to it when it enters.
LEMMA ConfirmScanDrainKeeps ==
  ASSUME RowsInv, FlagsInv', NEW t \in Worker, ConfirmScanDrain(t)
  PROVE  RowsInv'
<1> DEFINE s == IF status.tokens = {} THEN status ELSE Reconcile(status, Dead)
<1>1. /\ status \in Status /\ mailbox \in Channels /\ row \in [Doc -> RowState]
      /\ task \in [Worker -> TaskState] /\ task[t] \in TaskState
      /\ DataOK(task[t]) /\ LocalsOK(task[t]) /\ TaskOK(status, t, task[t])
  BY Parts
<1>2. s \in Status /\ FreezeTyped(s)
  BY <1>1, StatusOps
<1>3. /\ task[t].pc = "scan_confirm" /\ status' = s /\ UNCHANGED <<mailbox, row, ghosts>>
      /\ \E l \in {"enter", "abandon_reset"} : Goto(t, l)
  BY DEF ConfirmScanDrain, At
<1> HIDE DEF s
<1>4. Mild
  BY <1>1, <1>2, <1>3 DEF Mild
<1>5. CASE Goto(t, "abandon_reset")
  BY <1>3, <1>4, <1>5, PlainKeeps DEF Plain, OtherPc, Awake
<1>6. CASE Goto(t, "enter")
  <2>1. task[t].stage = "reset" /\ task[t].wake = "none"
    BY <1>1, <1>3 DEF TaskOK, EntryOK, ScanPc, LocalsOK, WakeOK
  <2>2. \A u \in Worker \ {t} : task'[u] = task[u]
    BY <1>1, <1>6 DEF Goto
  <2>3. /\ DataOK(task'[t]) /\ task'[t].pc = "enter" /\ task'[t].stage = "reset"
        /\ task'[t].wake = "none"
    BY <1>1, <1>6, <2>1 DEF Goto, TaskState, DataOK
  <2>4. LocalsOK(task[t])' /\ Quiet(t)
    BY <1>3, <2>3 DEF LocalsOK, WakeOK, Quiet
  <2> QED  BY <1>1, <1>4, <2>2, <2>3, <2>4, StepKeeps, BudgetOK DEF Mild
<1> QED  BY <1>3, <1>5, <1>6

\* A scan that goes on in another stage is owed nothing either.
LEMMA StageKeeps ==
  ASSUME RowsInv, FlagsInv', NEW t \in Worker, NEW l \in Plain, NEW g \in {"drive", "last"},
         task' = [task EXCEPT ![t].pc = l, ![t].stage = g], Mild,
         task[t].pc \notin Awake \cup {"top", "dead"}
  PROVE  RowsInv'
<1>1. /\ row \in [Doc -> RowState] /\ task \in [Worker -> TaskState]
      /\ task[t] \in TaskState /\ DataOK(task[t]) /\ LocalsOK(task[t])
  BY Parts
<1>2. task[t].wake = "none" /\ \A u \in Worker \ {t} : task'[u] = task[u]
  BY <1>1 DEF LocalsOK, WakeOK, Awake
<1>3. DataOK(task'[t]) /\ task'[t].pc = l /\ task'[t].wake = "none"
  BY <1>1, <1>2 DEF TaskState, DataOK
<1>4. LocalsOK(task[t])' /\ Quiet(t)
  BY <1>3 DEF LocalsOK, WakeOK, Plain, Quiet, Mild
<1> QED  BY <1>1, <1>2, <1>3, <1>4, StepKeeps, BudgetOK DEF Mild

\* Every step of a scan.
LEMMA ScanStepKeeps ==
  ASSUME RowsInv, FlagsInv', NEW t \in Worker, ScanStep(t)
  PROVE  RowsInv'
<1>1. status \in Status /\ FreezeTyped(status) /\ mailbox \in Channels
  BY Parts
<1>2. /\ FreezeTyped(ReleaseScanning(status, t)) /\ FreezeTyped(EndClassification(status, t))
  BY <1>1, StatusOps
<1>3. ASSUME RefuseScan(t) \/ LeaveScan(t) PROVE RowsInv'
  <2>1. /\ task[t].pc \in {"refused", "leave_scan"} /\ Mild
        /\ \E l \in {"done", "check_deferred"} : Goto(t, l)
    BY <1>1, <1>2, <1>3 DEF RefuseScan, LeaveScan, At, Mild
  <2> QED  BY <2>1, PlainKeeps DEF Plain, OtherPc, Awake
<1>4. ASSUME Classify(t) PROVE RowsInv'
  <2>1. /\ task[t].pc = "classify" /\ Mild
        /\ \E l \in {"enqueue", "transition", "leave_scan"} : Goto(t, l)
    BY <1>1, <1>4 DEF Classify, At, Mild, FreezeTyped
  <2> QED  BY <2>1, PlainKeeps DEF Plain, OtherPc, Awake
<1>5. ASSUME EndScanClassification(t) PROVE RowsInv'
  <2>1. /\ task[t].pc = "transition" /\ Mild
        /\ task' = [task EXCEPT ![t].pc = "acquire", ![t].stage = "drive"]
    BY <1>1, <1>2, <1>5 DEF EndScanClassification, At, Mild
  <2> QED  BY <2>1, StageKeeps DEF Plain, DrivePc, OtherPc, Awake
<1>6. ASSUME CheckDeferred(t) PROVE RowsInv'
  <2> DEFINE l == IF status.deferred \/ InReset(t) THEN "acquire" ELSE "done"
  <2>1. l \in Plain
    BY DEF Plain, DrivePc, OtherPc
  <2>2. /\ task[t].pc = "check_deferred" /\ Mild
        /\ task' = [task EXCEPT ![t].stage = "last", ![t].pc = l]
    BY <1>1, <1>6 DEF CheckDeferred, At, Mild, FreezeTyped
  <2> HIDE DEF l
  <2>3. task' = [task EXCEPT ![t].pc = l, ![t].stage = "last"]
    BY <2>2, Parts
  <2> QED  BY <2>1, <2>2, <2>3, StageKeeps DEF Awake
<1> QED  BY <1>3, <1>4, <1>5, <1>6, CommitScanKeeps, RollBackJournalsKeeps, AcquireForResetKeeps,
            ScanDrainKeeps, ConfirmScanDrainKeeps DEF ScanStep

-----------------------------------------------------------------------------
(* 13. Inserts that bring their own chunks.                                 *)

\* An insert with chunks of its own takes the slot.
LEMMA InsertCustomChunksKeeps ==
  ASSUME RowsInv, FlagsInv', NEW t \in Worker, InsertCustomChunks(t)
  PROVE  RowsInv'
<1> DEFINE s == Reconcile(status, Dead)
<1>1. status \in Status /\ mailbox \in Channels
  BY Parts
<1>2. s \in Status
  BY <1>1, StatusOps
<1>3. /\ task[t].pc = "new" /\ status' \in {s, TakeDirect(s, t, "custom_chunks")}
      /\ UNCHANGED <<mailbox, row, ghosts>> /\ \E l \in {"done", "preparing"} : Goto(t, l)
  BY DEF InsertCustomChunks, At
<1> HIDE DEF s
<1>4. Mild
  BY <1>1, <1>2, <1>3, StatusOps DEF Mild
<1> QED  BY <1>3, <1>4, PlainKeeps DEF Plain, OtherPc, Awake

\* The writes of who holds the slot disturb nobody.
LEMMA HolderKeeps ==
  ASSUME RowsInv, FlagsInv', NEW t \in Worker, NEW l \in Plain, NEW ds \in SUBSET Doc,
         task[t].pc \in DestroyingPc \cup {"preparing", "applying"},
         task' = [task EXCEPT ![t].pc = l, ![t].docs = ds],
         mailbox' \in Channels, row' \in [Doc -> RowState], status' = status,
         UNCHANGED ghosts \/ Fault
  PROVE  RowsInv'
<1>1. /\ task \in [Worker -> TaskState] /\ task[t] \in TaskState /\ FreezeTyped(status)
      /\ DataOK(task[t]) /\ LocalsOK(task[t]) /\ Quiet(t)
  BY Parts DEF HoldingPc, ChunksPc
<1>2. task[t].wake = "none" /\ \A u \in Worker \ {t} : task'[u] = task[u]
  BY <1>1 DEF LocalsOK, WakeOK, DestroyingPc
<1>3. DataOK(task'[t]) /\ task'[t].pc = l /\ task'[t].wake = "none"
  BY <1>1, <1>2 DEF TaskState, DataOK
<1>4. LocalsOK(task[t])'
  BY <1>3 DEF LocalsOK, WakeOK, Plain
<1> QED  BY <1>1, <1>2, <1>3, <1>4, StepKeeps, BudgetOK DEF FreezeTyped

\* Every step of such an insert.
LEMMA ChunksStepKeeps ==
  ASSUME RowsInv, FlagsInv', NEW t \in Worker, ChunksStep(t)
  PROVE  RowsInv'
<1>1. /\ status \in Status /\ FreezeTyped(status) /\ mailbox \in Channels
      /\ row \in [Doc -> RowState] /\ task \in [Worker -> TaskState]
      /\ task[t] \in TaskState /\ DataOK(task[t])
  BY Parts
<1>2. ASSUME PrepareOperation(t) PROVE RowsInv'
  <2>1. CASE Goto(t, "leave_slot") /\ UNCHANGED row
    <3>1. Mild /\ task[t].pc = "preparing"
      BY <1>1, <1>2, <2>1 DEF PrepareOperation, At, Mild, FreezeTyped
    <3> QED  BY <2>1, <3>1, PlainKeeps DEF Plain, OtherPc, Awake
  <2>2. ASSUME NEW d \in Doc, row' = [row EXCEPT ![d] = "journal"],
               task' = [task EXCEPT ![t].pc = "applying", ![t].docs = {d}]
        PROVE  RowsInv'
    <3>1. row' \in [Doc -> RowState] /\ mailbox' \in Channels /\ "applying" \in Plain /\ {d} \in SUBSET Doc
      BY <1>1, <1>2, <2>2 DEF PrepareOperation, RowState, Plain, OtherPc
    <3> QED  BY <1>2, <2>2, <3>1, HolderKeeps DEF PrepareOperation, At
  <2> QED  BY <1>2, <2>1, <2>2 DEF PrepareOperation
<1>3. ASSUME ApplyOperation(t) PROVE RowsInv'
  <2>1. row' \in [Doc -> RowState] /\ mailbox' \in Channels /\ "leave_slot" \in Plain
    BY <1>1, <1>3 DEF ApplyOperation, RowState, Journaled, Plain, OtherPc
  <2>2. /\ task' = [task EXCEPT ![t].pc = "leave_slot", ![t].docs = {}] /\ {} \in SUBSET Doc
        /\ task[t].pc = "applying" /\ status' = status /\ UNCHANGED ghosts
    BY <1>3 DEF ApplyOperation, At
  <2> QED  BY <2>1, <2>2, HolderKeeps
<1>4. ASSUME LeaveSlot(t) PROVE RowsInv'
  <2>1. FreezeTyped(ReleaseDelete(status, t)) /\ FreezeTyped([status EXCEPT !.cancel = "no"])
    BY <1>1, StatusOps
  <2>2. Mild /\ task[t].pc = "leave_slot" /\ \E l \in {"handoff", "done"} : Goto(t, l)
    BY <1>1, <1>4, <2>1 DEF LeaveSlot, At, Mild
  <2> QED  BY <2>2, PlainKeeps DEF Plain, OtherPc, Awake
<1>5. ASSUME TakeOver(t) PROVE RowsInv'
  <2> DEFINE s == Reconcile(status, Dead)
  <2>1. s \in Status
    BY <1>1, StatusOps
  <2>2. /\ task[t].pc = "handoff" /\ status' \in {ReleaseDelete(s, t), TakeProcessing(s, t, FALSE)}
        /\ UNCHANGED <<mailbox, row, ghosts>> /\ \E l \in {"done", "peek"} : Goto(t, l)
    BY <1>5 DEF TakeOver, At
  <2> HIDE DEF s
  <2>3. Mild
    BY <1>1, <2>1, <2>2, StatusOps DEF Mild
  <2> QED  BY <2>2, <2>3, PlainKeeps DEF Plain, DrivePc, OtherPc, Awake
<1> QED  BY <1>2, <1>3, <1>4, <1>5 DEF ChunksStep

-----------------------------------------------------------------------------
(* 14. Deletes and clears.                                                  *)

\* A delete remembers the documents it was asked for.
LEMMA AcquireDestructiveKeeps ==
  ASSUME RowsInv, FlagsInv', NEW t \in Worker, AcquireDestructive(t)
  PROVE  RowsInv'
<1> DEFINE s == Reconcile(status, Dead)
<1>1. /\ status \in Status /\ mailbox \in Channels /\ row \in [Doc -> RowState]
      /\ task \in [Worker -> TaskState] /\ task[t] \in TaskState
      /\ DataOK(task[t]) /\ LocalsOK(task[t])
  BY Parts
<1>2. s \in Status
  BY <1>1, StatusOps
<1>3. /\ task[t].pc = "new" /\ UNCHANGED <<mailbox, row, ghosts>>
      /\ status' \in {s, TakeDestructive(s, t, "delete"), TakeDestructive(s, t, "clear")}
      /\ \/ \E l \in {"done", "clearing"} : Goto(t, l)
         \/ \E docs \in SUBSET Doc : task' = [task EXCEPT ![t].pc = "deleting", ![t].docs = docs]
  BY DEF AcquireDestructive, At, Rows
<1> HIDE DEF s
<1>4. Mild
  BY <1>1, <1>2, <1>3, StatusOps DEF Mild
<1>5. CASE \E l \in {"done", "clearing"} : Goto(t, l)
  BY <1>3, <1>4, <1>5, PlainKeeps DEF Plain, OtherPc, Awake
<1>6. ASSUME NEW docs \in SUBSET Doc, task' = [task EXCEPT ![t].pc = "deleting", ![t].docs = docs]
      PROVE  RowsInv'
  <2>1. task[t].wake = "none" /\ \A u \in Worker \ {t} : task'[u] = task[u]
    BY <1>1, <1>3, <1>6 DEF LocalsOK, WakeOK
  <2>2. DataOK(task'[t]) /\ task'[t].pc = "deleting" /\ task'[t].wake = "none"
    BY <1>1, <1>6, <2>1 DEF TaskState, DataOK
  <2>3. LocalsOK(task[t])' /\ Quiet(t)
    BY <1>3, <2>2 DEF LocalsOK, WakeOK, Quiet
  <2> QED  BY <1>1, <1>4, <2>1, <2>2, <2>3, StepKeeps, BudgetOK DEF Mild
<1> QED  BY <1>3, <1>5, <1>6

\* Every step of a delete or a clear.
LEMMA DestructiveStepKeeps ==
  ASSUME RowsInv, FlagsInv', NEW t \in Worker, DestructiveStep(t)
  PROVE  RowsInv'
<1>1. /\ status \in Status /\ FreezeTyped(status) /\ mailbox \in Channels
      /\ row \in [Doc -> RowState] /\ task \in [Worker -> TaskState]
      /\ task[t] \in TaskState /\ DataOK(task[t])
  BY Parts
<1>2. ASSUME EndDelete(t) \/ LeaveClear(t) PROVE RowsInv'
  <2>1. FreezeTyped(ReleaseClear(status, t))
    BY <1>1, StatusOps
  <2>2. /\ Mild /\ task[t].pc \in {"deleting", "leave_clear"}
        /\ \E l \in {"leave_delete", "done"} : Goto(t, l)
    BY <1>1, <1>2, <2>1 DEF EndDelete, LeaveClear, At, Mild, FreezeTyped
  <2> QED  BY <2>2, PlainKeeps DEF Plain, OtherPc, Awake
<1>3. ASSUME LeaveDelete(t) PROVE RowsInv'
  <2>1. FreezeTyped(ReleaseDelete(status, t))
    BY <1>1, StatusOps
  <2>2. Mild /\ \E l \in {"acquire", "done"} : Leave(t, l)
    BY <1>1, <1>3, <2>1 DEF LeaveDelete, Mild
  <2> QED  BY <2>2, LeaveKeeps DEF Plain, DrivePc, OtherPc
<1>4. ASSUME ClearIngress(t) \/ DropStorages(t) PROVE RowsInv'
  <2>1. mailbox' \in Channels
    BY <1>1, <1>4, RetiringKeeps DEF ClearIngress, DropStorages
  <2>2. row' \in [Doc -> RowState]
    BY <1>1, <1>4 DEF ClearIngress, DropStorages, RowState
  <2>3. /\ task[t].pc \in DestroyingPc /\ status' = status /\ (UNCHANGED ghosts \/ Fault)
        /\ \E l \in {"dropping", "leave_clear"} : Goto(t, l)
    BY <1>4 DEF ClearIngress, DropStorages, At, DestroyingPc
  <2>4. Quiet(t) /\ task[t].wake = "none"
    BY <2>3, Parts DEF HoldingPc, LocalsOK, WakeOK, DestroyingPc
  <2> QED  BY <1>1, <2>1, <2>2, <2>3, <2>4, GotoQuiet, BudgetOK DEF Plain, OtherPc, FreezeTyped
<1>5. ASSUME NEW d \in Doc, DeleteDocument(t, d) PROVE RowsInv'
  <2>1. /\ task[t].pc = "deleting" /\ status' = status /\ mailbox' = mailbox
        /\ (UNCHANGED ghosts \/ Fault)
        /\ row' \in {row, [row EXCEPT ![d] = "none"]}
        /\ task' = [task EXCEPT ![t].docs = @ \ {d}]
    BY <1>5 DEF DeleteDocument, At
  <2>2. row' \in [Doc -> RowState]
    BY <1>1, <2>1 DEF RowState
  <2> DEFINE ds == task[t].docs \ {d}
  <2>3. ds \in SUBSET Doc /\ task' = [task EXCEPT ![t].docs = ds]
    BY <1>1, <2>1 DEF DataOK
  <2> HIDE DEF ds
  <2>4. [task[t] EXCEPT !.docs = ds] = [task[t] EXCEPT !.pc = "deleting", !.docs = ds]
    BY <1>1, <2>1 DEF TaskState
  <2>5. task' = [task EXCEPT ![t].pc = "deleting", ![t].docs = ds]
    BY <1>1, <2>3, <2>4
  <2> QED  BY <1>1, <2>1, <2>2, <2>3, <2>5, HolderKeeps DEF Plain, OtherPc, DestroyingPc
<1> QED  BY <1>2, <1>3, <1>4, <1>5 DEF DestructiveStep

-----------------------------------------------------------------------------
(* 15. Deaths and operators.                                                *)

\* A dead task is owed nothing.
LEMMA KillKeeps ==
  ASSUME RowsInv, FlagsInv', NEW t \in Worker, Kill(t)
  PROVE  RowsInv'
<1>1. /\ FreezeTyped(status) /\ mailbox \in Channels /\ row \in [Doc -> RowState]
      /\ task \in [Worker -> TaskState]
  BY Parts
<1>2. /\ task'[t] = [IdleTask EXCEPT !.pc = "dead"]
      /\ \A u \in Worker \ {t} : task'[u] = task[u]
  BY <1>1 DEF Kill
<1>3. DataOK(task'[t]) /\ task'[t].pc = "dead" /\ task'[t].wake = "none"
  <2>1. End \in Start .. End /\ 0 \in 0 .. StallRounds /\ <<>> \in Seq(Doc)
    BY DocAssumption DEF Start, End
  <2> QED  BY <1>2, <2>1 DEF IdleTask, DataOK
<1>4. LocalsOK(task[t])' /\ Quiet(t)
  BY <1>3 DEF LocalsOK, WakeOK, Quiet, Kill
<1>5. budget' \in Budgets
  BY BudgetOK DEF Kill
<1> QED  BY <1>1, <1>2, <1>3, <1>4, <1>5, StepKeeps DEF Kill, FreezeTyped

\* A step of nobody: every task keeps what it is owed.
LEMMA NobodyKeeps ==
  ASSUME RowsInv, FlagsInv', task' = task, row' = row, mailbox' \in Channels, budget' \in Budgets,
         FreezeTyped(status'), \A t \in Worker : task[t].pc = "manual" => mailbox' = mailbox
  PROVE  RowsInv'
<1>1. FlagsInv /\ TypeOK /\ \A t \in Worker : LocalsOK(task[t])
  BY DEF RowsInv
<1>2. Typed
  BY <1>1, Types
<1>3. Typed'
  BY <1>2 DEF Typed, DataOK, FreezeTyped
<1>4. (FlagsInv => (TypeOK <=> Typed))'
  BY Types, PTL
<1>5. ASSUME NEW t \in Worker PROVE LocalsOK(task[t])'
  BY <1>1 DEF LocalsOK, WakeOK, Rows
<1> QED  BY <1>3, <1>4, <1>5 DEF RowsInv

\* A cancellation sets a flag.
LEMMA CancelPipelineKeeps ==
  ASSUME RowsInv, FlagsInv', CancelPipeline
  PROVE  RowsInv'
<1>1. status \in Status /\ FreezeTyped(status) /\ mailbox \in Channels
  BY Types DEF RowsInv, TypeOK, Typed
<1>2. budget' \in Budgets
  BY BudgetOK DEF CancelPipeline
<1> DEFINE c == IF status.cancel = "internal" THEN "internal" ELSE "user"
<1>3. status' = [status EXCEPT !.cancel = c]
  BY <1>1 DEF CancelPipeline, Status
<1> HIDE DEF c
<1>4. FreezeTyped(status')
  BY <1>1, <1>3 DEF FreezeTyped, Status
<1> QED  BY <1>1, <1>2, <1>4, NobodyKeeps DEF CancelPipeline

\* No run is under way behind a recovery fence, so none misses the requests.
LEMMA ForceResetKeeps ==
  ASSUME RowsInv, FlagsInv', ForceReset
  PROVE  RowsInv'
<1>1. FlagsInv /\ Typed /\ status \in Status
  BY Types DEF RowsInv, TypeOK
<1>2. budget' \in Budgets
  BY BudgetOK DEF ForceReset
<1>3. \A t \in Worker : task[t].pc \notin HoldingPc
  BY <1>1 DEF ForceReset, FlagsInv, TaskOK, SlotOK
<1>4. FreezeTyped(status')
  BY <1>1 DEF ForceReset, Unfence, FreezeTyped, Status
<1>5. mailbox' \in Channels
  BY <1>1, RetiringKeeps DEF ForceReset, Typed
<1> QED  BY <1>2, <1>3, <1>4, <1>5, NobodyKeeps DEF ForceReset, HoldingPc, SweepPc

-----------------------------------------------------------------------------
(* 16. The invariant of the rows and the mailbox.                           *)

\* The rows a deployment finds are typed, and no task has begun.
LEMMA RowsInit == Init => RowsInv
<1> SUFFICES ASSUME Init PROVE RowsInv
  OBVIOUS
<1>1. FlagsInv
  BY InitOK
<1>2. ASSUME NEW t \in Worker PROVE DataOK(task[t]) /\ LocalsOK(task[t])
  <2>1. task[t] = [IdleTask EXCEPT !.stage = IF t \in Scans THEN "reset" ELSE "drive"]
    BY DEF Init
  <2>2. End \in Start .. End /\ 0 \in 0 .. StallRounds /\ <<>> \in Seq(Doc)
    BY DocAssumption DEF Start, End
  <2> QED  BY <2>1, <2>2 DEF IdleTask, DataOK, LocalsOK, WakeOK
<1>3. mailbox \in Channels
  BY DEF Init, EmptyMailbox, Channels
<1>4. row \in [Doc -> RowState] /\ budget \in Budgets /\ FreezeTyped(status)
  BY BacklogAssumption DEF Init, RowState, Budgets, FreezeTyped, IdleStatus
<1> QED  BY <1>1, <1>2, <1>3, <1>4, Types DEF RowsInv, Typed

\* Every step keeps what the tasks are owed.
LEMMA RowsNext == RowsInv /\ [Next]_vars => RowsInv'
<1> SUFFICES ASSUME RowsInv, [Next]_vars PROVE RowsInv'
  OBVIOUS
<1>1. FlagsInv'
  BY NextOK DEF RowsInv
<1>2. CASE UNCHANGED vars
  <2>1. /\ task' = task /\ row' = row /\ mailbox' = mailbox /\ budget' = budget /\ status' = status
    BY <1>2 DEF vars, ghosts
  <2>2. FlagsInv /\ Typed
    BY Types DEF RowsInv
  <2>3. mailbox' \in Channels /\ budget' \in Budgets /\ FreezeTyped(status')
    BY <2>1, <2>2 DEF Typed, FreezeTyped
  <2> QED  BY <1>1, <2>1, <2>3, NobodyKeeps
<1>3. ASSUME NEW t \in Worker, Request(t) PROVE RowsInv'
  BY <1>1, <1>3, ReserveSlotKeeps, CommitRetryKeeps, ReserveScanKeeps, AcquireDestructiveKeeps,
     InsertCustomChunksKeeps DEF Request
<1>4. ASSUME NEW t \in Worker, Step(t) PROVE RowsInv'
  BY <1>1, <1>4, DriveStepKeeps, EnqueueStepKeeps, ScanStepKeeps, ChunksStepKeeps, DestructiveStepKeeps
     DEF Step
<1> QED  BY <1>1, <1>2, <1>3, <1>4, KillKeeps, CancelPipelineKeeps, ForceResetKeeps DEF Next, Finished

\* In every reachable state the rows and the mailbox are what the tasks rely on.
THEOREM RowsInvariance == Spec => []RowsInv
  BY RowsInit, RowsNext, PTL DEF Spec

\* Every variable keeps its type.
THEOREM TypeCorrect == Spec => []TypeOK
<1>1. RowsInv => TypeOK
  BY DEF RowsInv
<1> QED  BY <1>1, RowsInvariance, PTL

-----------------------------------------------------------------------------
(* 17. What a step makes of pipeline_status and of the requests.            *)

\* What the operators of pipeline_status make of s for t, those apart that begin a scan, a drain or a reset.
PlainOps(s, t) ==
    {s, EndDrain(s, t), ReleaseRun(s, t), ReleaseClear(s, t), ReleaseDelete(s, t), Defer(s),
     EndClassification(s, t), ReleaseScanning(s, t), TakeToken(s, t), ReleaseToken(s, t),
     TakeDirect(s, t, "custom_chunks"), TakeDestructive(s, t, "delete"), TakeDestructive(s, t, "clear"),
     TakeProcessing(s, t, FALSE), TakeProcessing(s, t, TRUE),
     Fence(s, "drain_stalled"), Fence(s, "drain_blocked"),
     [s EXCEPT !.busy = FALSE, !.busyOwner = NoOwner],
     [s EXCEPT !.cancel = "no"], [ReleaseRun(s, t) EXCEPT !.cancel = "no"]}

\* The reaper keeps the recovery fence, and begins nothing.
LEMMA ReapSteady ==
  ASSUME NEW s \in Status
  PROVE  /\ Fenced(s) => Fenced(Reconcile(s, Dead))
         /\ Reconcile(s, Dead).phase = "reset" => s.phase = "reset"
         /\ Dead = {} => Reconcile(s, Dead) = s
<1>1. ReapBusy(s, Dead) \in [busy : BOOLEAN, destructive : BOOLEAN, busyOwner : {ReapBusy(s, Dead).busyOwner},
           scanning : BOOLEAN, exclusive : BOOLEAN, scanOwner : Worker \cup {NoWorker},
           tokens : SUBSET Worker, phase : Phase, manualOwner : {ReapBusy(s, Dead).manualOwner},
           cancel : {"no", "user", "internal"}, deferred : BOOLEAN, recovery : {ReapBusy(s, Dead).recovery}]
  <2> DEFINE r == [s EXCEPT !.busy = FALSE, !.destructive = FALSE, !.busyOwner = NoOwner,
                            !.phase = "idle", !.manualOwner = NoManualOwner,
                            !.recovery = IF s.busyOwner.kind \in Rerunnable
                                         THEN @ ELSE s.busyOwner.kind]
  <2>1. CASE ReapBusy(s, Dead) = s
    BY <2>1 DEF Status, Phase
  <2>2. CASE ReapBusy(s, Dead) = r
    <3>1. r \in [busy : BOOLEAN, destructive : BOOLEAN, busyOwner : {r.busyOwner}, scanning : BOOLEAN,
                 exclusive : BOOLEAN, scanOwner : Worker \cup {NoWorker}, tokens : SUBSET Worker,
                 phase : Phase, manualOwner : {r.manualOwner}, cancel : {"no", "user", "internal"},
                 deferred : BOOLEAN, recovery : {r.recovery}]
      BY DEF Status, Phase
    <3> HIDE DEF r
    <3> QED  BY <2>2, <3>1
  <2> QED  BY <2>1, <2>2 DEF ReapBusy
<1>2. /\ Fenced(s) => Fenced(ReapBusy(s, Dead))
      /\ ReapBusy(s, Dead).phase = "reset" => s.phase = "reset"
      /\ Dead = {} => ReapBusy(s, Dead) = s
  <2>1. s.busyOwner.task \in Dead => s.busyOwner.kind # "no"
    BY DEF Status, Dead, Owner, NoOwner, BusyKind
  <2> QED  BY <2>1 DEF ReapBusy, Status, Fenced
<1> DEFINE b == ReapBusy(s, Dead)
<1> HIDE DEF b
<1>3. Reconcile(s, Dead) = [ReapScanning(b, Dead) EXCEPT !.tokens = @ \ Dead]
  BY DEF Reconcile, b
<1>4. /\ Reconcile(s, Dead).recovery = b.recovery /\ Reconcile(s, Dead).phase = b.phase
      /\ Dead = {} => Reconcile(s, Dead) = b
  BY <1>1, <1>3 DEF ReapScanning, b
<1> QED  BY <1>2, <1>4 DEF Fenced, b

\* What no operator does for t: lift a recovery fence, raise a classification fence, begin a reset or a
\* drain, change the phase of another's run, cancel.
Steady(s, n, t) ==
    /\ Fenced(s) => Fenced(n)
    /\ n.exclusive => s.exclusive /\ n.scanOwner = s.scanOwner
    /\ n.phase = "reset" => s.phase = "reset"
    /\ n.phase # s.phase => Owns(s, t)
    /\ n.manualOwner \in {s.manualOwner, NoManualOwner}
    /\ s.cancel = "no" => n.cancel = "no"

LEMMA PlainOpsSteady ==
  ASSUME NEW s \in Status, NEW t \in Worker, NEW n \in PlainOps(s, t)
  PROVE  Steady(s, n, t)
<1>1. CASE n \in {s, EndDrain(s, t), ReleaseRun(s, t)}
  BY <1>1 DEF EndDrain, ReleaseRun, Status, Steady, Fenced, Owns
<1>2. CASE n \in {ReleaseClear(s, t), ReleaseDelete(s, t), Defer(s)}
  BY <1>2 DEF ReleaseClear, ReleaseDelete, Defer, Status, Steady, Fenced, Owns
<1>3. CASE n \in {EndClassification(s, t), ReleaseScanning(s, t), TakeToken(s, t), ReleaseToken(s, t)}
  BY <1>3 DEF EndClassification, ReleaseScanning, TakeToken, ReleaseToken, Status, Steady, Fenced, Owns
<1>4. CASE n \in {TakeDirect(s, t, "custom_chunks"), TakeDestructive(s, t, "delete"),
                  TakeDestructive(s, t, "clear")}
  BY <1>4 DEF TakeDirect, TakeDestructive, Status, Steady, Fenced, Owns
<1>5. CASE n \in {TakeProcessing(s, t, FALSE), TakeProcessing(s, t, TRUE),
                  Fence(s, "drain_stalled"), Fence(s, "drain_blocked")}
  BY <1>5 DEF TakeProcessing, Fence, Status, Steady, Fenced, Owns
<1>6. CASE n \in {[s EXCEPT !.busy = FALSE, !.busyOwner = NoOwner],
                  [s EXCEPT !.cancel = "no"], [ReleaseRun(s, t) EXCEPT !.cancel = "no"]}
  BY <1>6 DEF ReleaseRun, Status, Steady, Fenced, Owns
<1> QED  BY <1>1, <1>2, <1>3, <1>4, <1>5, <1>6 DEF PlainOps

\* The operator a step applies, to pipeline_status as it is or as the reaper leaves it.
MadeFrom(s, t) ==
    \/ status' \in PlainOps(s, t)
    \/ ReserveScan(t) /\ status' = TakeScanning(s, t)
    \/ PeekRequest(t) /\ mailbox.manual # <<>> /\ status' = BeginDrain(s, t, Head(mailbox.manual))
    \/ StartDrain(t) /\ status' = BeginDrain(s, t, Head(mailbox.manual))
    \/ BeginScanDrain(t) /\ status' = BeginDrain(s, t, t)
    \/ EnterExclusiveReset(t) /\ status' = EnterReset(s, t)
    \/ Fault /\ status' = [s EXCEPT !.cancel = "internal"]

LEMMA StatusMade ==
  ASSUME RowsInv, NEW t \in Worker, Request(t) \/ Step(t)
  PROVE  MadeFrom(status, t) \/ MadeFrom(Reconcile(status, Dead), t)
<1> DEFINE s == Reconcile(status, Dead)
<1>0. status \in Status
  BY Parts
<1>1. s \in Status
  BY <1>0, StatusOps
<1>2. CASE \/ AcquireProcessing(t) \/ ReserveSlot(t) \/ AdmitEnqueue(t) \/ CommitRetry(t)
           \/ InsertCustomChunks(t) \/ AcquireDestructive(t) \/ TakeOver(t) \/ WaitForEnqueues(t)
           \/ ConfirmScanDrain(t)
  <2>1. status' \in {status, s, Defer(s), TakeProcessing(s, t, FALSE), TakeToken(s, t),
                     TakeDirect(s, t, "custom_chunks"), TakeDestructive(s, t, "delete"),
                     TakeDestructive(s, t, "clear"), ReleaseDelete(s, t)}
    BY <1>2 DEF AcquireProcessing, ReserveSlot, AdmitEnqueue, CommitRetry, InsertCustomChunks,
                AcquireDestructive, TakeOver, WaitForEnqueues, ConfirmScanDrain, s
  <2> HIDE DEF s
  <2>2. status' \in PlainOps(s, t) \/ status' \in PlainOps(status, t)
    BY <2>1 DEF PlainOps
  <2> QED  BY <2>2 DEF MadeFrom, s
<1>3. CASE ReserveScan(t)
  <2>1. status' \in {s, TakeScanning(s, t)}
    BY <1>3 DEF ReserveScan, s
  <2> HIDE DEF s
  <2>2. MadeFrom(s, t)
    BY <1>3, <2>1 DEF MadeFrom, PlainOps
  <2> QED  BY <2>2 DEF s
<1>4. CASE AcquireForReset(t)
  <2>1. status' \in {s, Defer(s), TakeProcessing(s, t, s.scanOwner = t)}
    BY <1>4 DEF AcquireForReset, s
  <2> HIDE DEF s
  <2>2. TakeProcessing(s, t, s.scanOwner = t) \in {TakeProcessing(s, t, TRUE), TakeProcessing(s, t, FALSE)}
    BY <1>1 DEF Status
  <2>3. status' \in PlainOps(s, t)
    BY <2>1, <2>2 DEF PlainOps
  <2> QED  BY <2>3 DEF MadeFrom, s
<1>5. CASE \/ PeekRequest(t) \/ StartDrain(t) \/ BeginScanDrain(t) \/ EnterExclusiveReset(t)
  <2>1. \/ status' = status
        \/ PeekRequest(t) /\ mailbox.manual # <<>> /\ status' = BeginDrain(status, t, Head(mailbox.manual))
        \/ StartDrain(t) /\ status' = BeginDrain(status, t, Head(mailbox.manual))
        \/ BeginScanDrain(t) /\ status' = BeginDrain(status, t, t)
        \/ EnterExclusiveReset(t) /\ status' = EnterReset(status, t)
    BY <1>5 DEF PeekRequest, StartDrain, BeginScanDrain, EnterExclusiveReset
  <2> QED  BY <2>1 DEF MadeFrom, PlainOps
<1>6. CASE \/ Top(t) \/ FinalizeReleased(t) \/ \E d \in Doc : StartDocument(t, d) \/ FinishDocument(t, d)
  <2>1. \/ status' = status \/ status' = [status EXCEPT !.cancel = "no"]
        \/ status' = [status EXCEPT !.cancel = status.cancel]
        \/ Fault /\ status' = [status EXCEPT !.cancel = "internal"]
    BY <1>6 DEF Top, FinalizeReleased, StartDocument, FinishDocument
  <2>2. [status EXCEPT !.cancel = status.cancel] = status
    BY <1>0 DEF Status
  <2> QED  BY <2>1, <2>2 DEF MadeFrom, PlainOps
<1>7. CASE Finalize(t)
  <2> DEFINE n == ReleaseRun(status, t)
  <2>1. ReleaseRun(status, t) \in Status
    BY <1>0 DEF ReleaseRun, Status, Phase
  <2>2. status' = [n EXCEPT !.cancel = "no"] \/ status' = [n EXCEPT !.cancel = n.cancel]
    BY <1>7 DEF Finalize
  <2> HIDE DEF n
  <2>3. [n EXCEPT !.cancel = n.cancel] = n
    BY <2>1 DEF Status, n
  <2>4. status' \in {n, [n EXCEPT !.cancel = "no"]}
    BY <2>2, <2>3
  <2> QED  BY <2>4 DEF MadeFrom, PlainOps, n
<1>8. CASE \/ Decide(t) \/ ConfirmDrained(t) \/ EndManualDrain(t) \/ ReleaseReset(t)
  <2>1. status' \in {status, [status EXCEPT !.busy = FALSE, !.busyOwner = NoOwner],
                     Fence(status, "drain_stalled"), Fence(status, "drain_blocked"), EndDrain(status, t),
                     ReleaseRun(status, t)}
    BY <1>8 DEF Decide, DecideCancelled, DecideDraining, DecideIdle, Continue, ContinueAuto,
                ContinueDocument, Released, ConfirmDrained, EndManualDrain, ReleaseReset
  <2> QED  BY <2>1 DEF MadeFrom, PlainOps
<1>9. CASE \/ LeaveSerializeLock(t) \/ ReleaseSlot(t) \/ RefuseScan(t) \/ LeaveScan(t)
           \/ EndScanClassification(t) \/ LeaveDelete(t) \/ LeaveClear(t) \/ LeaveSlot(t)
  <2>1. status' \in {status, ReleaseToken(status, t), ReleaseScanning(status, t),
                     EndClassification(status, t), ReleaseDelete(status, t), ReleaseClear(status, t),
                     [status EXCEPT !.cancel = "no"]}
    BY <1>9 DEF LeaveSerializeLock, ReleaseMinted, ReleaseSlot, RefuseScan, LeaveScan,
                EndScanClassification, LeaveDelete, LeaveClear, LeaveSlot
  <2> QED  BY <2>1 DEF MadeFrom, PlainOps
<1>10. CASE \/ FirstPage(t) \/ Validate(t) \/ FeedDocument(t) \/ EndBatch(t) \/ Sweep(t) \/ DrainMailbox(t)
            \/ Fresh(t) \/ ResetPage(t) \/ AckRequest(t)
  <2>1. status' = status
    BY <1>10 DEF FirstPage, Validate, FeedDocument, EndBatch, Sweep, DrainMailbox, Fresh, ResetPage,
                 AckRequest
  <2> QED  BY <2>1 DEF MadeFrom, PlainOps
<1>11. CASE \/ StoreRow(t) \/ ArmAfterFault(t) \/ Publish(t) \/ CommitScan(t) \/ RollBackJournals(t)
            \/ Classify(t) \/ CheckDeferred(t) \/ PrepareOperation(t) \/ ApplyOperation(t) \/ EndDelete(t)
            \/ ClearIngress(t) \/ DropStorages(t) \/ \E d \in Doc : DeleteDocument(t, d)
  <2>1. status' = status
    BY <1>11 DEF StoreRow, ArmAfterFault, Publish, CommitScan, RollBackJournals, Classify, CheckDeferred,
                 PrepareOperation, ApplyOperation, EndDelete, ClearIngress, DropStorages, DeleteDocument
  <2> QED  BY <2>1 DEF MadeFrom, PlainOps
<1> QED  BY <1>2, <1>3, <1>4, <1>5, <1>6, <1>7, <1>8, <1>9, <1>10, <1>11
         DEF Request, Step, DriveStep, EnqueueStep, ScanStep, ChunksStep, DestructiveStep

\* The freeze becomes a reset in one step of a drive alone.
LEMMA ResetBegins ==
  ASSUME RowsInv, NEW t \in Worker, Request(t) \/ Step(t), ~ EnterExclusiveReset(t)
  PROVE  status'.phase = "reset" => status.phase = "reset"
<1>1. status \in Status /\ Reconcile(status, Dead) \in Status
  BY Parts, StatusOps
<1>2. Reconcile(status, Dead).phase = "reset" => status.phase = "reset"
  BY <1>1, ReapSteady
<1>3. ASSUME NEW s \in Status, MadeFrom(s, t) PROVE status'.phase = "reset" => s.phase = "reset"
  <2>1. CASE status' \in PlainOps(s, t)
    BY <2>1, PlainOpsSteady DEF Steady
  <2>2. CASE status' \notin PlainOps(s, t)
    BY <1>3, <2>2 DEF MadeFrom, TakeScanning, BeginDrain, Status
  <2> QED  BY <2>1, <2>2
<1> QED  BY <1>1, <1>2, <1>3, StatusMade

\* Only an operator lifts a recovery fence.
LEMMA FenceStays ==
  ASSUME RowsInv, NEW t \in Worker, Request(t) \/ Step(t)
  PROVE  Fenced(status) => Fenced(status')
<1>1. status \in Status /\ Reconcile(status, Dead) \in Status
  BY Parts, StatusOps
<1>2. Fenced(status) => Fenced(Reconcile(status, Dead))
  BY <1>1, ReapSteady
<1>3. ASSUME NEW s \in Status, MadeFrom(s, t) PROVE Fenced(s) => Fenced(status')
  <2>1. CASE status' \in PlainOps(s, t)
    BY <2>1, PlainOpsSteady DEF Steady
  <2>2. CASE status' \notin PlainOps(s, t)
    BY <1>3, <2>2 DEF MadeFrom, TakeScanning, BeginDrain, EnterReset, Status, Fenced
  <2> QED  BY <2>1, <2>2
<1> QED  BY <1>1, <1>2, <1>3, StatusMade

\* Every step but an acknowledgement and a clear leaves the retired requests, and every step but a
\* commit the waiting ones.
LEMMA RequestsKept ==
  ASSUME RowsInv, NEW t \in Worker, Request(t) \/ Step(t), ~ AckRequest(t), ~ ClearIngress(t)
  PROVE  /\ mailbox'.terminal = mailbox.terminal
         /\ mailbox'.manual = mailbox.manual \/ (CommitRetry(t) \/ CommitScan(t))
<1>1. mailbox \in Channels /\ DataOK(task[t]) /\ LocalsOK(task[t])
  BY Parts
<1> DEFINE Same(n) == n.terminal = mailbox.terminal /\ n.manual = mailbox.manual
<1>2. Same(Rearm(mailbox, t)) /\ Same(PutDocuments(mailbox, task[t].drained))
  <2>1. /\ PutDocuments(mailbox, task[t].drained) \in Channels
        /\ Same(PutDocuments(mailbox, task[t].drained))
    BY <1>1, PutKeeps DEF DataOK
  <2> QED  BY <2>1, ConsumeKeeps DEF Rearm
<1>3. CASE Finalize(t) \/ FinalizeReleased(t) \/ EndBatch(t) \/ Fresh(t)
  BY <1>2, <1>3 DEF Finalize, FinalizeReleased, EndBatch, Fresh
<1>4. CASE FeedDocument(t)
  <2>1. NextDocumentTaken(mailbox) \in Channels /\ Same(NextDocumentTaken(mailbox))
    BY <1>1, <1>4, ConsumeKeeps DEF FeedDocument
  <2> DEFINE n == NextDocumentTaken(mailbox)
  <2>2. mailbox' \in {n, RequestAutoRescan(n)}
    BY <1>4 DEF FeedDocument
  <2> HIDE DEF n
  <2> QED  BY <2>1, <2>2, ConsumeKeeps DEF n
<1>5. CASE Publish(t)
  <2> DEFINE d == CHOOSE d \in Doc : d \in task[t].docs
  <2>1. d \in Doc
    BY <1>1, <1>5 DEF Publish, At, LocalsOK, DataOK
  <2>2. mailbox' = PutDocuments(mailbox, <<d>>) \/ mailbox' = RequestAutoRescan(mailbox)
    BY <1>5 DEF Publish
  <2> HIDE DEF d
  <2>3. <<d>> \in Seq(Doc)
    BY <2>1
  <2>4. Same(PutDocuments(mailbox, <<d>>))
    BY <1>1, <2>3, PutKeeps
  <2> QED  BY <1>1, <2>2, <2>4, ConsumeKeeps
<1>6. CASE CommitRetry(t) \/ CommitScan(t)
  <2>1. mailbox' \in {mailbox, RequestManualRetry(mailbox, t)}
    BY <1>6 DEF CommitRetry, CommitScan
  <2> QED  BY <1>1, <1>6, <2>1, RequestKeeps
<1>7. CASE \/ AcquireProcessing(t) \/ PeekRequest(t) \/ Decide(t) \/ Sweep(t) \/ DrainMailbox(t)
           \/ ArmAfterFault(t) \/ AcquireForReset(t)
  <2>1. mailbox' \in {mailbox, RequestAutoRescan(mailbox), ConsumeAutoRescan(mailbox), DrainDocuments(mailbox)}
    BY <1>7 DEF AcquireProcessing, PeekRequest, Decide, DecideCancelled, DecideDraining, DecideIdle,
                Continue, ContinueAuto, ContinueDocument, Released, Sweep, DrainMailbox, ArmAfterFault,
                AcquireForReset
  <2> QED  BY <1>1, <2>1, ConsumeKeeps
<1>8. CASE \/ FirstPage(t) \/ Top(t) \/ Validate(t)
           \/ \E d \in Doc : StartDocument(t, d) \/ FinishDocument(t, d)
           \/ StartDrain(t) \/ WaitForEnqueues(t) \/ ConfirmDrained(t) \/ EnterExclusiveReset(t)
           \/ ResetPage(t) \/ EndManualDrain(t)
  BY <1>8 DEF FirstPage, Top, Validate, StartDocument, FinishDocument, StartDrain, WaitForEnqueues,
              ConfirmDrained, EnterExclusiveReset, ResetPage, EndManualDrain
<1>9. CASE \/ ReserveSlot(t) \/ AdmitEnqueue(t) \/ StoreRow(t) \/ LeaveSerializeLock(t) \/ ReleaseSlot(t)
           \/ ReserveScan(t) \/ RefuseScan(t) \/ RollBackJournals(t) \/ BeginScanDrain(t)
           \/ ConfirmScanDrain(t) \/ ReleaseReset(t) \/ Classify(t) \/ EndScanClassification(t)
           \/ LeaveScan(t) \/ CheckDeferred(t)
  BY <1>9 DEF ReserveSlot, AdmitEnqueue, StoreRow, LeaveSerializeLock, ReleaseSlot, ReserveScan, RefuseScan,
              RollBackJournals, BeginScanDrain, ConfirmScanDrain, ReleaseReset, Classify,
              EndScanClassification, LeaveScan, CheckDeferred
<1>10. CASE \/ InsertCustomChunks(t) \/ PrepareOperation(t) \/ ApplyOperation(t) \/ LeaveSlot(t)
            \/ TakeOver(t) \/ AcquireDestructive(t) \/ EndDelete(t) \/ LeaveDelete(t) \/ DropStorages(t)
            \/ LeaveClear(t) \/ \E d \in Doc : DeleteDocument(t, d)
  BY <1>10 DEF InsertCustomChunks, PrepareOperation, ApplyOperation, LeaveSlot, TakeOver,
               AcquireDestructive, EndDelete, LeaveDelete, DropStorages, LeaveClear, DeleteDocument
<1> QED  BY <1>3, <1>4, <1>5, <1>6, <1>7, <1>8, <1>9, <1>10
         DEF Request, Step, DriveStep, EnqueueStep, ScanStep, ChunksStep, DestructiveStep

-----------------------------------------------------------------------------
(* 18. What an acknowledgement means.                                       *)

\* A request is retired as acknowledged only when every FAILED row that has content was reset.
THEOREM AcksMeanReset == Spec => AckMeansReset
<1> DEFINE Acks == \A i \in DOMAIN mailbox'.terminal :
                      /\ mailbox'.terminal[i].state = "acked"
                      /\ ~ IsTerminal(mailbox, mailbox'.terminal[i].id)
                      => Rows({"failed"}) \subseteq Unreadable
<1>1. ASSUME RowsInv, [Next]_vars PROVE Acks
  <2>1. CASE mailbox'.terminal = mailbox.terminal
    BY <2>1 DEF IsTerminal, TerminalIds
  <2>2. mailbox \in Channels
    BY <1>1, Types DEF RowsInv, Typed
  <2>3. CASE mailbox' \in {CancelManualRetries(mailbox), ClearMailbox(mailbox)}
    <3>1. \A n \in {CancelManualRetries(mailbox), ClearMailbox(mailbox)} : \A i \in DOMAIN n.terminal :
            IsTerminal(mailbox, n.terminal[i].id) \/ n.terminal[i].state = "cancelled"
      BY <2>2, RetiringKeeps
    <3> QED  BY <2>3, <3>1
  <2>4. CASE \E t \in Worker : AckRequest(t)
    BY <1>1, <2>4 DEF AckRequest, At, RowsInv, LocalsOK
  <2>5. CASE \E t \in Worker : ClearIngress(t)
    BY <2>1, <2>3, <2>5 DEF ClearIngress
  <2>6. CASE ForceReset
    BY <2>3, <2>6 DEF ForceReset
  <2>7. CASE UNCHANGED vars \/ CancelPipeline \/ \E t \in Worker : Kill(t)
    BY <2>1, <2>7 DEF vars, CancelPipeline, Kill
  <2>8. ASSUME NEW t \in Worker, Request(t) \/ Step(t), ~ AckRequest(t), ~ ClearIngress(t)
        PROVE  Acks
    <3>1. mailbox'.terminal = mailbox.terminal
      BY <1>1, <2>8, RequestsKept
    <3> QED  BY <2>1, <3>1
  <2> HIDE DEF Acks
  <2> QED  BY <1>1, <2>4, <2>5, <2>6, <2>7, <2>8 DEF Next, Finished
<1>2. RowsInv /\ [Next]_vars => [Acks]_vars
  BY <1>1
<1> QED  BY <1>2, RowsInvariance, PTL DEF Spec, AckMeansReset

-----------------------------------------------------------------------------
(* 19. What a reset has waited for.                                         *)

\* A drive resets FAILED rows only when it has proved that no row is unfinished, and any reset only when
\* no enqueue is in flight.
THEOREM ResetsStartDrained == Spec => ResetStartsDrained
<1> DEFINE Drained == status.phase = "drain" /\ status'.phase = "reset" =>
                        /\ status.tokens = {}
                        /\ Rows(AutoStates) = {} \/ InReset(status.busyOwner.task)
<1>1. ASSUME RowsInv, [Next]_vars PROVE Drained
  <2>1. CASE status'.phase = "reset" => status.phase = "reset"
    BY <2>1
  <2>2. status \in Status
    BY <1>1 DEF RowsInv, TypeOK
  <2>3. ASSUME NEW t \in Worker, EnterExclusiveReset(t) PROVE Drained
    <3>1. LocalsOK(task[t]) /\ TaskOK(status, t, task[t])
      BY <1>1 DEF RowsInv, FlagsInv
    <3>2. task[t].pc = "enter"
      BY <2>3 DEF EnterExclusiveReset, At
    <3> QED  BY <3>1, <3>2 DEF LocalsOK, TaskOK, PhaseOK, SlotOK, ResetPc, HoldingPc, Owns, InReset
  <2>4. CASE ForceReset
    BY <2>1, <2>2, <2>4 DEF ForceReset, Unfence, Status
  <2>5. CASE CancelPipeline
    BY <2>1, <2>2, <2>5 DEF CancelPipeline, Status
  <2>6. CASE UNCHANGED vars \/ \E t \in Worker : Kill(t)
    BY <2>1, <2>6 DEF vars, Kill
  <2>7. ASSUME NEW t \in Worker, Request(t) \/ Step(t), ~ EnterExclusiveReset(t) PROVE Drained
    <3>1. status'.phase = "reset" => status.phase = "reset"
      BY <1>1, <2>7, ResetBegins
    <3> QED  BY <2>1, <3>1
  <2> HIDE DEF Drained
  <2> QED  BY <1>1, <2>3, <2>4, <2>5, <2>6, <2>7 DEF Next, Finished
<1>2. RowsInv /\ [Next]_vars => [Drained]_vars
  BY <1>1
<1> QED  BY <1>2, RowsInvariance, PTL DEF Spec, ResetStartsDrained

-----------------------------------------------------------------------------
(* 20. What becomes of a signal.                                            *)

\* An empty page that ends a sweep from the start is all there is to route.
LEMMA EmptyPage ==
  SchedulingPage(Start).docs = {} /\ SchedulingPage(Start).next = End => Rows(Routable) = {}
<1> DEFINE S == Newer(Rows(AutoStates), Start)
<1>1. S \in SUBSET Doc /\ Rows(Routable) \subseteq S
  BY DocAssumption DEF Newer, Rows, Start, Doc, AutoStates, Routable
<1>2. SchedulingPage(Start) = [docs |-> FirstOf(S) \cap Rows(Routable), next |-> CursorAfter(FirstOf(S))]
  BY DEF SchedulingPage, Page
<1> HIDE DEF S
<1>3. CursorAfter(FirstOf(S)) = End => FirstOf(S) = S
  BY <1>1, CursorOK
<1> QED  BY <1>1, <1>2, <1>3

\* A step leaves the locals of the other tasks.
LEMMA StepsOwn ==
  ASSUME task = [u \in Worker |-> task[u]], NEW t \in Worker, Request(t) \/ Step(t) \/ Kill(t)
  PROVE  \A u \in Worker \ {t} : task'[u] = task[u]
<1>1. \A l : Goto(t, l) \/ Leave(t, l) => \A u \in Worker \ {t} : task'[u] = task[u]
  BY DEF Goto, Leave
<1>2. CASE DriveStep(t)
  <2>1. CASE \/ AcquireProcessing(t) \/ PeekRequest(t) \/ FirstPage(t) \/ Top(t) \/ Validate(t)
             \/ FeedDocument(t) \/ EndBatch(t) \/ \E d \in Doc : StartDocument(t, d) \/ FinishDocument(t, d)
    BY <1>1, <2>1 DEF AcquireProcessing, PeekRequest, FirstPage, Take, Top, Validate, FeedDocument, Route,
                      EndBatch, StartDocument, FinishDocument, Finish
  <2>2. CASE Decide(t)
    BY <1>1, <2>2 DEF Decide, DecideCancelled, DecideDraining, DecideIdle, Continue, ContinueAuto,
                      ContinueDocument, Released
  <2>3. CASE \/ Sweep(t) \/ StartDrain(t) \/ DrainMailbox(t) \/ Fresh(t) \/ WaitForEnqueues(t)
             \/ ConfirmDrained(t)
    BY <1>1, <2>3 DEF Sweep, Take, StartDrain, WindDown, DrainMailbox, Fresh, WaitForEnqueues, ConfirmDrained
  <2>4. CASE \/ EnterExclusiveReset(t) \/ ResetPage(t) \/ AckRequest(t) \/ EndManualDrain(t)
             \/ Finalize(t) \/ FinalizeReleased(t)
    BY <1>1, <2>4 DEF EnterExclusiveReset, WindDown, ResetPage, AckRequest, EndManualDrain, Finalize,
                      FinalizeReleased
  <2> QED  BY <1>2, <2>1, <2>2, <2>3, <2>4 DEF DriveStep
<1>3. CASE EnqueueStep(t) \/ ReserveSlot(t) \/ AdmitEnqueue(t)
  BY <1>1, <1>3 DEF EnqueueStep, ReserveSlot, AdmitEnqueue, StoreRow, ArmAfterFault, LeaveSerializeLock,
                    Publish, ReleaseSlot
<1>4. CASE CommitRetry(t) \/ ReserveScan(t) \/ InsertCustomChunks(t) \/ AcquireDestructive(t)
  BY <1>1, <1>4 DEF CommitRetry, ReserveScan, InsertCustomChunks, AcquireDestructive
<1>5. CASE ScanStep(t)
  BY <1>1, <1>5 DEF ScanStep, CommitScan, RefuseScan, RollBackJournals, AcquireForReset, BeginScanDrain,
                    ConfirmScanDrain, ReleaseReset, Classify, EndScanClassification, LeaveScan, CheckDeferred
<1>6. CASE ChunksStep(t) \/ DestructiveStep(t) \/ Kill(t)
  BY <1>1, <1>6 DEF ChunksStep, PrepareOperation, ApplyOperation, LeaveSlot, TakeOver, DestructiveStep,
                    EndDelete, LeaveDelete, ClearIngress, DropStorages, LeaveClear, DeleteDocument, Kill
<1> QED  BY <1>2, <1>3, <1>4, <1>5, <1>6 DEF Request, Step

\* Where a drive may lose its signal.
LEMMA SignalSteps ==
  ASSUME NEW t \in Worker, Request(t) \/ Step(t),
         task[t].pc \in {"first_page", "fresh", "validate", "finalize", "dead", "top"}
  PROVE  FirstPage(t) \/ Fresh(t) \/ Validate(t) \/ Finalize(t) \/ Top(t)
<1>1. ~ Request(t)
  BY DEF Request, ReserveSlot, CommitRetry, ReserveScan, AcquireDestructive, AdmitEnqueue, InsertCustomChunks, At
<1>2. ~ EnqueueStep(t) /\ ~ ChunksStep(t)
  BY DEF EnqueueStep, StoreRow, ArmAfterFault, LeaveSerializeLock, Publish, ReleaseSlot, AdmitEnqueue,
         ChunksStep, PrepareOperation, ApplyOperation, LeaveSlot, TakeOver, At
<1>3. ~ ScanStep(t)
  BY DEF ScanStep, CommitScan, RefuseScan, RollBackJournals, AcquireForReset, BeginScanDrain,
         ConfirmScanDrain, ReleaseReset, Classify, EndScanClassification, LeaveScan, CheckDeferred, At
<1>4. ~ DestructiveStep(t)
  BY DEF DestructiveStep, EndDelete, LeaveDelete, ClearIngress, DropStorages, LeaveClear, DeleteDocument, At
<1>5. DriveStep(t)
  BY <1>1, <1>2, <1>3, <1>4 DEF Step
<1> QED  BY <1>5 DEF DriveStep, AcquireProcessing, PeekRequest, Decide, FeedDocument, EndBatch, StartDocument,
                     FinishDocument, Sweep, StartDrain, DrainMailbox, WaitForEnqueues, ConfirmDrained,
                     EnterExclusiveReset, ResetPage, AckRequest, EndManualDrain, FinalizeReleased, At

\* A signal that a run has taken off the mailbox is served, or put back, whatever ends the run.
THEOREM SignalsKept == Spec => SignalKept
<1> DEFINE Safe(t) == \/ At(t, "validate") /\ task'[t].pc \in {"batch", "decide"}
                      \/ task'[t].docs = {} /\ task'[t].pc \in {"entry", "top"}
                            /\ (Rows(Routable) = {} \/ task'[t].cursor # End)
                      \/ mailbox'.auto
                      \/ task'[t].pc = "dead"
<1>1. ASSUME RowsInv, [Next]_vars, NEW t \in Worker, task[t].wake # "none", task'[t].wake = "none"
      PROVE  Safe(t)
  <2>1. /\ task \in [Worker -> TaskState] /\ task[t] \in TaskState /\ LocalsOK(task[t])
        /\ DataOK(task[t]) /\ mailbox \in Channels /\ task = [u \in Worker |-> task[u]]
    BY <1>1, Parts
  <2>2. task'[t] # task[t]
    BY <1>1
  <2>3. Request(t) \/ Step(t) \/ Kill(t)
    <3>1. ~ UNCHANGED vars /\ ~ CancelPipeline /\ ~ ForceReset
      BY <2>2 DEF vars, CancelPipeline, ForceReset
    <3>2. PICK u \in Worker : Request(u) \/ Step(u) \/ Kill(u)
      BY <1>1, <3>1 DEF Next, Finished
    <3>3. u = t
      BY <2>1, <2>2, <3>2, StepsOwn
    <3> QED  BY <3>2, <3>3
  <2>4. task[t].pc \in {"first_page", "fresh", "validate", "finalize", "dead", "top"}
    BY <1>1, <2>1 DEF LocalsOK, WakeOK
  <2>5. CASE Kill(t)
    BY <2>1, <2>5 DEF Kill, IdleTask
  \* Only an empty page serves a signal.
  <2>6. ASSUME NEW l \in {"entry", "top"}, Take(t, SchedulingPage(Start), l) PROVE Safe(t)
    <3> DEFINE page == SchedulingPage(Start)
               w    == IF page.docs = {} THEN "none" ELSE task[t].wake
    <3>1. task' = [task EXCEPT ![t].docs = page.docs, ![t].cursor = page.next, ![t].pc = l,
                               ![t].drained = <<>>, ![t].wake = w]
      BY <2>1, <2>6 DEF Take
    <3>2. page.docs # {} => w = task[t].wake
      OBVIOUS
    <3>3. page.docs = {} /\ page.next = End => Rows(Routable) = {}
      BY EmptyPage
    <3> HIDE DEF page, w
    <3>4. task'[t].docs = page.docs /\ task'[t].cursor = page.next /\ task'[t].pc = l /\ task'[t].wake = w
      BY <2>1, <3>1 DEF TaskState
    <3> QED  BY <1>1, <3>2, <3>3, <3>4
  <2>7. ASSUME NEW l, Goto(t, l) PROVE FALSE
    BY <1>1, <2>1, <2>7 DEF Goto, TaskState
  \* What is put back raises the flag.
  <2>8. ASSUME mailbox' = Rearm(mailbox, t) PROVE Safe(t)
    <3>1. PutDocuments(mailbox, task[t].drained) \in Channels
      BY <2>1, PutKeeps DEF DataOK
    <3>2. Rearm(mailbox, t) = RequestAutoRescan(PutDocuments(mailbox, task[t].drained))
      BY <1>1 DEF Rearm
    <3> QED  BY <2>8, <3>1, <3>2, ConsumeKeeps
  <2>9. CASE FirstPage(t)
    BY <2>6, <2>7, <2>9 DEF FirstPage
  <2>10. CASE Fresh(t)
    <3> HIDE DEF Safe
    <3> QED  BY <2>6, <2>8, <2>10 DEF Fresh
  <2>11. CASE Top(t)
    BY <2>7, <2>11 DEF Top
  <2>12. CASE Finalize(t)
    <3> HIDE DEF Safe
    <3> QED  BY <2>8, <2>12 DEF Finalize
  <2>13. CASE Validate(t)
    <3> DEFINE docs == task[t].docs \ Unreadable
               l    == IF docs = {} THEN "decide" ELSE "batch"
    <3>1. task' = [task EXCEPT ![t].docs = docs, ![t].wake = "none", ![t].routed = docs, ![t].pc = l]
      BY <2>7, <2>13 DEF Validate
    <3>2. l \in {"batch", "decide"}
      OBVIOUS
    <3> HIDE DEF docs, l
    <3>3. task'[t].pc = l
      BY <2>1, <3>1 DEF TaskState
    <3> QED  BY <2>13, <3>2, <3>3 DEF Validate
  <2> HIDE DEF Safe
  <2> QED  BY <2>3, <2>4, <2>5, <2>9, <2>10, <2>11, <2>12, <2>13, SignalSteps
<1>2. RowsInv /\ [Next]_vars => [\A t \in Worker : task[t].wake # "none" /\ task'[t].wake = "none" => Safe(t)]_vars
  BY <1>1
<1> QED  BY <1>2, RowsInvariance, PTL DEF Spec, SignalKept

-----------------------------------------------------------------------------
(* 21. A step that disturbs nobody.                                         *)

\* A step of a task while nothing has gone wrong, before or by it.
CalmStep(t) == /\ RowsInv /\ RowsInv' /\ Undisturbed /\ Undisturbed' /\ Calm
               /\ Request(t) \/ Step(t)

\* A fault cannot be undone.
LEMMA NoFault ==
  ASSUME RowsInv, Undisturbed'
  PROVE  ~ Fault
<1>1. budget \in Budgets /\ MaxFaults \in Nat
  BY Types, BacklogAssumption DEF RowsInv, Typed
<1>2. budget'.fault = MaxFaults
  BY DEF Undisturbed
<1> QED  BY <1>1, <1>2 DEF Fault, Budgets

\* Every step but a fault of a task leaves the bounds alone.
LEMMA BudgetKept ==
  ASSUME NEW t \in Worker, Request(t) \/ Step(t), ~ Fault
  PROVE  budget' = budget
<1>1. CASE DriveStep(t)
  <2>1. CASE \/ AcquireProcessing(t) \/ PeekRequest(t) \/ FirstPage(t) \/ Decide(t) \/ Top(t) \/ Validate(t)
             \/ FeedDocument(t) \/ EndBatch(t) \/ \E d \in Doc : StartDocument(t, d) \/ FinishDocument(t, d)
    BY <2>1 DEF AcquireProcessing, PeekRequest, FirstPage, Decide, Top, Validate, FeedDocument, EndBatch,
                StartDocument, FinishDocument, ghosts
  <2>2. CASE \/ Sweep(t) \/ StartDrain(t) \/ DrainMailbox(t) \/ Fresh(t) \/ WaitForEnqueues(t)
             \/ ConfirmDrained(t) \/ EnterExclusiveReset(t) \/ ResetPage(t) \/ AckRequest(t)
             \/ EndManualDrain(t) \/ Finalize(t) \/ FinalizeReleased(t)
    BY <2>2 DEF Sweep, StartDrain, DrainMailbox, Fresh, WaitForEnqueues, ConfirmDrained,
                EnterExclusiveReset, ResetPage, AckRequest, EndManualDrain, Finalize, FinalizeReleased, ghosts
  <2> QED  BY <1>1, <2>1, <2>2 DEF DriveStep
<1>2. CASE EnqueueStep(t) \/ ReserveSlot(t) \/ AdmitEnqueue(t)
  BY <1>2 DEF EnqueueStep, ReserveSlot, AdmitEnqueue, StoreRow, ArmAfterFault, LeaveSerializeLock,
              Publish, ReleaseSlot, ghosts
<1>3. CASE CommitRetry(t) \/ ReserveScan(t) \/ InsertCustomChunks(t) \/ AcquireDestructive(t)
  BY <1>3 DEF CommitRetry, ReserveScan, InsertCustomChunks, AcquireDestructive, ghosts
<1>4. CASE ScanStep(t)
  BY <1>4 DEF ScanStep, CommitScan, RefuseScan, RollBackJournals, AcquireForReset, BeginScanDrain,
              ConfirmScanDrain, ReleaseReset, Classify, EndScanClassification, LeaveScan, CheckDeferred, ghosts
<1>5. CASE ChunksStep(t) \/ DestructiveStep(t)
  BY <1>5 DEF ChunksStep, PrepareOperation, ApplyOperation, LeaveSlot, TakeOver, DestructiveStep,
              EndDelete, LeaveDelete, ClearIngress, DropStorages, LeaveClear, DeleteDocument, ghosts
<1> QED  BY <1>1, <1>2, <1>3, <1>4, <1>5 DEF Request, Step

\* What is undisturbed after a step was so before it.
LEMMA CalmBack ==
  ASSUME RowsInv, [Next]_vars, Undisturbed'
  PROVE  /\ Undisturbed
         /\ UNCHANGED vars \/ \E t \in Worker : Request(t) \/ Step(t)
<1>1. /\ budget \in Budgets /\ {MaxKills, MaxCancels, MaxFaults, MaxResets} \subseteq Nat
      /\ ~ Fault
  BY Types, BacklogAssumption, NoFault DEF RowsInv, Typed
<1>2. /\ budget'.kill = MaxKills /\ budget'.cancel = MaxCancels /\ budget'.reset = MaxResets
      /\ ~ Fenced(status)'
  BY DEF Undisturbed
<1>3. CASE UNCHANGED vars
  BY <1>3 DEF Undisturbed, vars, Fenced
<1>4. ASSUME NEW t \in Worker, Request(t) \/ Step(t) PROVE Undisturbed
  <2>1. budget' = budget /\ ~ Fenced(status)
    BY <1>1, <1>2, <1>4, BudgetKept, FenceStays DEF Fenced
  <2> QED  BY <2>1 DEF Undisturbed
<1>5. ~ CancelPipeline /\ ~ ForceReset /\ \A t \in Worker : ~ Kill(t)
  BY <1>1, <1>2 DEF CancelPipeline, ForceReset, Kill, Budgets
<1> QED  BY <1>3, <1>4, <1>5 DEF Next, Finished

\* What is known before and after a calm step.
LEMMA CalmFacts ==
  ASSUME NEW t \in Worker, CalmStep(t)
  PROVE  /\ RowsInv /\ FlagsInv /\ ~ Fault /\ Dead = {} /\ Reconcile(status, Dead) = status
         /\ status.cancel = "no" /\ ~ Fenced(status) /\ ~ Fenced(status')
         /\ status \in Status /\ mailbox \in Channels /\ row \in [Doc -> RowState]
         /\ task \in [Worker -> TaskState] /\ DataOK(task[t]) /\ LocalsOK(task[t])
         /\ \A u \in Worker \ {t} : task'[u] = task[u]
         /\ MadeFrom(status, t) /\ (Request(t) \/ Step(t))
<1>1. /\ RowsInv /\ FlagsInv /\ status \in Status /\ mailbox \in Channels /\ row \in [Doc -> RowState]
      /\ task \in [Worker -> TaskState] /\ DataOK(task[t]) /\ LocalsOK(task[t])
  BY Parts DEF CalmStep
<1>2. ~ Fault
  BY NoFault DEF CalmStep
<1>3. Dead = {}
  BY DEF CalmStep, Calm, Dead, At
<1>4. Reconcile(status, Dead) = status
  BY <1>1, <1>3, ReapSteady
<1>5. MadeFrom(status, t)
  BY <1>1, <1>4, StatusMade DEF CalmStep
<1>6. \A u \in Worker \ {t} : task'[u] = task[u]
  BY StepsOwn DEF CalmStep, RowsInv, FlagsInv
<1>7. status.cancel = "no" /\ ~ Fenced(status) /\ ~ Fenced(status')
  BY DEF CalmStep, Calm, Undisturbed, Fenced
<1> QED  BY <1>1, <1>2, <1>3, <1>4, <1>5, <1>6, <1>7 DEF CalmStep

\* Who holds the slot stands where the slot is held, and nobody else does.
LEMMA CalmHolder ==
  ASSUME NEW t \in Worker, CalmStep(t), NEW u \in Worker
  PROVE  /\ Owns(status, u) <=> task[u].pc \in HoldingPc
         /\ TaskOK(status, u, task[u]) /\ StatusOK(status)
         /\ status.busy <=> \E w \in Worker : Owns(status, w)
<1>1. TaskOK(status, u, task[u]) /\ StatusOK(status)
  BY CalmFacts DEF FlagsInv
<1>2. task[u].pc \notin {"finalize", "dead"}
  BY DEF CalmStep, Calm
<1>3. Owns(status, u) <=> task[u].pc \in HoldingPc
  BY <1>1, <1>2 DEF TaskOK, SlotOK
<1>4. status.busy <=> \E w \in Worker : Owns(status, w)
  BY <1>1 DEF StatusOK, HasStatusFields, OwnerOK, Owner, NoOwner, Owns
<1> QED  BY <1>1, <1>3, <1>4

\* What a step to another place leaves of a task.
LEMMA GotoLocals ==
  ASSUME task \in [Worker -> TaskState], NEW t \in Worker, NEW l, Goto(t, l)
  PROVE  /\ task'[t] = [task[t] EXCEPT !.pc = l]
         /\ task'[t].pc = l /\ task'[t].stage = task[t].stage
         /\ task'[t].docs = task[t].docs /\ task'[t].cursor = task[t].cursor
         /\ task'[t].routed = task[t].routed
  BY DEF Goto, TaskState

LEMMA LeaveLocals ==
  ASSUME task \in [Worker -> TaskState], NEW t \in Worker, NEW l, Leave(t, l)
  PROVE  task'[t].pc = l /\ task'[t].stage = task[t].stage
  BY DEF Leave, TaskState, IdleTask

LEMMA TakeLocals ==
  ASSUME task \in [Worker -> TaskState], NEW t \in Worker, NEW page, NEW l, Take(t, page, l)
  PROVE  /\ task'[t].pc = l /\ task'[t].stage = task[t].stage
         /\ task'[t].docs = page.docs /\ task'[t].cursor = page.next
<1> DEFINE w == IF page.docs = {} THEN "none" ELSE task[t].wake
<1>1. task' = [task EXCEPT ![t].docs = page.docs, ![t].cursor = page.next, ![t].pc = l,
                           ![t].drained = <<>>, ![t].wake = w]
  BY DEF Take, TaskState
<1> HIDE DEF w
<1> QED  BY <1>1 DEF TaskState

\* A scan stays in its stage until it drives.
LEMMA StageKept ==
  ASSUME task \in [Worker -> TaskState], NEW t \in Worker, Request(t) \/ Step(t),
         ~ EndScanClassification(t), ~ CheckDeferred(t)
  PROVE  task'[t].stage = task[t].stage
<1>1. \A l : Goto(t, l) \/ Leave(t, l) => task'[t].stage = task[t].stage
  BY GotoLocals, LeaveLocals
<1>2. \A page, l : Take(t, page, l) => task'[t].stage = task[t].stage
  BY TakeLocals
<1>3. task[t] \in TaskState
  OBVIOUS
<1>4. CASE DriveStep(t)
  <2>1. CASE \/ AcquireProcessing(t) \/ FirstPage(t) \/ Top(t) \/ Sweep(t) \/ WaitForEnqueues(t)
             \/ AckRequest(t) \/ EndManualDrain(t) \/ Finalize(t) \/ FinalizeReleased(t)
    BY <1>1, <1>2, <2>1 DEF AcquireProcessing, FirstPage, Top, Sweep, WaitForEnqueues, AckRequest,
                      EndManualDrain, Finalize, FinalizeReleased
  <2>2. CASE Decide(t)
    BY <1>1, <1>3, <2>2 DEF Decide, DecideCancelled, DecideDraining, DecideIdle, Continue, ContinueAuto,
                      ContinueDocument, Released, TaskState
  <2>3. CASE PeekRequest(t) \/ Validate(t)
    BY <1>1, <1>3, <2>3 DEF PeekRequest, Validate, TaskState
  <2>4. CASE \/ FeedDocument(t) \/ EndBatch(t) \/ \E d \in Doc : StartDocument(t, d) \/ FinishDocument(t, d)
    BY <1>1, <1>3, <2>4 DEF FeedDocument, Route, EndBatch, StartDocument, FinishDocument, Finish, TaskState
  <2>5. CASE \/ StartDrain(t) \/ DrainMailbox(t) \/ Fresh(t)
    BY <1>1, <1>2, <1>3, <2>5 DEF StartDrain, WindDown, DrainMailbox, Fresh, TaskState
  <2>6. CASE \/ ConfirmDrained(t) \/ EnterExclusiveReset(t) \/ ResetPage(t)
    BY <1>1, <1>3, <2>6 DEF ConfirmDrained, EnterExclusiveReset, WindDown, ResetPage, TaskState
  <2> QED  BY <1>4, <2>1, <2>2, <2>3, <2>4, <2>5, <2>6 DEF DriveStep
<1>5. CASE EnqueueStep(t) \/ ReserveSlot(t) \/ AdmitEnqueue(t)
  <2>1. CASE StoreRow(t)
    BY <1>1, <1>3, <2>1 DEF StoreRow, TaskState
  <2>2. CASE Publish(t)
    BY <1>3, <2>2 DEF Publish, TaskState
  <2>3. CASE \/ ArmAfterFault(t) \/ LeaveSerializeLock(t) \/ ReleaseSlot(t) \/ ReserveSlot(t)
             \/ AdmitEnqueue(t)
    BY <1>1, <2>3 DEF ArmAfterFault, LeaveSerializeLock, ReleaseSlot, ReserveSlot, AdmitEnqueue
  <2> QED  BY <1>5, <2>1, <2>2, <2>3 DEF EnqueueStep
<1>6. CASE CommitRetry(t) \/ ReserveScan(t) \/ InsertCustomChunks(t) \/ AcquireDestructive(t)
  BY <1>1, <1>3, <1>6 DEF CommitRetry, ReserveScan, InsertCustomChunks, AcquireDestructive, TaskState
<1>7. CASE ScanStep(t)
  BY <1>1, <1>7 DEF ScanStep, CommitScan, RefuseScan, RollBackJournals, AcquireForReset, BeginScanDrain,
                    ConfirmScanDrain, ReleaseReset, Classify, LeaveScan
<1>8. CASE ChunksStep(t) \/ DestructiveStep(t)
  <2>1. CASE PrepareOperation(t) \/ ApplyOperation(t) \/ \E d \in Doc : DeleteDocument(t, d)
    BY <1>1, <1>3, <2>1 DEF PrepareOperation, ApplyOperation, DeleteDocument, TaskState
  <2>2. CASE \/ LeaveSlot(t) \/ TakeOver(t) \/ EndDelete(t) \/ LeaveDelete(t) \/ ClearIngress(t)
             \/ DropStorages(t) \/ LeaveClear(t)
    BY <1>1, <2>2 DEF LeaveSlot, TakeOver, EndDelete, LeaveDelete, ClearIngress, DropStorages, LeaveClear
  <2> QED  BY <1>8, <2>1, <2>2 DEF ChunksStep, DestructiveStep
<1> QED  BY <1>4, <1>5, <1>6, <1>7, <1>8 DEF Request, Step

\* There is room for every request.
LEMMA RequestAccepted ==
  ASSUME NEW t \in Worker, CalmStep(t), t \in Retries \cup Scans, task[t].pc \in {"new", "publish"}
  PROVE  PublishResult(mailbox, t) = "accepted" /\ ~ Pending(mailbox, t)
<1> DEFINE q == mailbox.manual
           n == Len(q)
           R == {q[i] : i \in 1 .. n}
<1>1. q \in Seq(Worker) /\ n \in Nat /\ DOMAIN q = 1 .. n
  BY CalmFacts, LenProperties DEF Channels
<1>2. /\ \A i \in 1 .. n : Asked(q[i])
      /\ \A i, j \in 1 .. n : q[i] = q[j] => i = j
      /\ \A r \in TerminalIds(mailbox) : Asked(r)
  BY <1>1 DEF CalmStep, Calm, RequestsOK
<1>3. IsFiniteSet(Retries \cup Scans) /\ Cardinality(Retries \cup Scans) <= ManualCapacity
  BY DEF CalmStep, Undisturbed
<1>4. ~ Asked(t)
  BY DEF Asked
<1>5. ~ Pending(mailbox, t) /\ ~ IsTerminal(mailbox, t)
  BY <1>1, <1>2, <1>4 DEF Pending, Occurs, IsTerminal
<1>6. IsFiniteSet(1 .. n) /\ Cardinality(1 .. n) = n
  <2> HIDE DEF n
  <2> QED  BY <1>1, FS_Interval
<1>7. IsFiniteSet(R) /\ Cardinality(R) = n
  <2> DEFINE f == [i \in 1 .. n |-> q[i]]
  <2>1. f \in Bijection(1 .. n, R)
    BY <1>2 DEF Bijection, Injection, Surjection, IsInjective
  <2> HIDE DEF f, R
  <2> QED  BY <1>6, <2>1, FS_Bijection DEF ExistsBijection
<1>8. R \cup {t} \subseteq Retries \cup Scans /\ t \notin R
  BY <1>2, <1>4 DEF Asked
<1> HIDE DEF R, n
<1>9. IsFiniteSet(R \cup {t}) /\ Cardinality(R \cup {t}) = n + 1
  BY <1>7, <1>8, FS_AddElement
<1>10. n + 1 <= Cardinality(Retries \cup Scans) /\ Cardinality(Retries \cup Scans) \in Nat
  BY <1>3, <1>8, <1>9, FS_Subset, FS_CardinalityType
<1>11. n < ManualCapacity
  BY <1>1, <1>3, <1>10, CapacityAssumption
<1> QED  BY <1>1, <1>5, <1>11, CapacityAssumption DEF PublishResult, n

\* Where a calm step of t may lead: not to where something has gone wrong; a scan reserves once, and does
\* not end before it drives.
Fit(t, l) ==
    /\ l \notin {"new", "finalize", "refused", "dead"}
    /\ l = "publish" => task[t].pc = "new"
    /\ task[t].stage = "reset" /\ l = "done" => task[t].pc \in {"new", "check_deferred"}

LEMMA CalmPlaces ==
  ASSUME NEW t \in Worker, CalmStep(t)
  PROVE  Fit(t, task'[t].pc)
<1>0. task \in [Worker -> TaskState]
  BY CalmFacts
<1>1. ~ Fault /\ status.cancel = "no" /\ ~ Fenced(status) /\ Reconcile(status, Dead) = status
  BY CalmFacts
<1>20. status \in Status /\ ~ Fenced(status')
  BY CalmFacts
<1>21. Request(t) \/ Step(t)
  BY CalmFacts
<1>2. /\ TaskOK(status, t, task[t]) /\ StatusOK(status)
      /\ task[t].pc \in HoldingPc => Owns(status, t)
      /\ task[t].pc \notin {"finalize", "refused", "dead"}
  BY CalmHolder, CalmFacts DEF CalmStep, Calm
<1> DEFINE l == task'[t].pc
<1>3. \A k : Goto(t, k) \/ Leave(t, k) => l = k
  BY <1>0, GotoLocals, LeaveLocals
<1>4. \A page, k : Take(t, page, k) => l = k
  BY <1>0, TakeLocals
<1>5. Fit(t, Done(t)) /\ Done(t) \in {"leaving", "transition", "leave_scan", "done"}
  BY <1>2 DEF Done, InReset, TaskOK, EntryOK, Fit
<1>6. task[t].stage = "reset" => task[t].pc \notin {"leaving", "leave_slot", "handoff", "leave_delete", "leave_clear"}
  BY <1>2 DEF TaskOK, EntryOK, SlotOK, ChunksPc, HoldingPc, DestroyingPc, Fencing, StatusOK, OwnerOK, FlagsOK, Owns
<1>7. /\ Abandon(t) \in {"abandon_reset", "finalize"} /\ Lost(t) \in {"abandon_reset", "fresh"}
      /\ Rejected(t) \in {"leaving", "transition", "leave_scan", "done"} /\ Fit(t, Rejected(t))
  BY <1>2 DEF Abandon, Lost, Rejected, Fit, TaskOK, EntryOK
<1>8. CASE DriveStep(t)
  <2>1. CASE \/ AcquireProcessing(t) \/ FinalizeReleased(t) \/ FirstPage(t) \/ Top(t) \/ Sweep(t)
             \/ WaitForEnqueues(t) \/ AckRequest(t) \/ EndManualDrain(t) \/ Finalize(t)
    <3>1. l \in {Done(t), "peek", "entry", "top", "validate", "decide", "release_reset", "end_drain", "fresh"}
      BY <1>1, <1>2, <1>3, <1>4, <2>1 DEF AcquireProcessing, FinalizeReleased, FirstPage, Top, Sweep,
                        WaitForEnqueues, AckRequest, EndManualDrain, Finalize, At
    <3> QED  BY <1>5, <3>1 DEF Fit
  <2>2. CASE Decide(t)
    <3>1. l \in {Done(t), "released", "sweep", "fresh", "drain_mailbox", "confirm", "wait", "manual"}
      BY <1>0, <1>1, <1>3, <2>2 DEF Decide, DecideDraining, DecideIdle, Continue, ContinueAuto, ContinueDocument,
                              Released, TaskState
    <3> QED  BY <1>5, <3>1 DEF Fit
  <2>3. CASE PeekRequest(t) \/ Validate(t) \/ DrainMailbox(t)
    <3>1. l \in {"first_page", "decide", "batch", "fresh"}
      BY <1>0, <1>1, <1>3, <2>3 DEF PeekRequest, Validate, DrainMailbox, TaskState
    <3> QED  BY <3>1 DEF Fit
  <2>4. CASE FeedDocument(t) \/ EndBatch(t) \/ \E d \in Doc : StartDocument(t, d) \/ FinishDocument(t, d)
    <3>1. l \in {"decide", "batch"}
      BY <1>0, <1>1, <1>3, <2>4 DEF FeedDocument, Route, EndBatch, StartDocument, FinishDocument, Finish, At, TaskState
    <3> QED  BY <3>1 DEF Fit
  <2>5. CASE StartDrain(t) \/ Fresh(t)
    <3>1. l \in {"top", "fresh"}
      BY <1>0, <1>1, <1>3, <1>4, <2>5 DEF StartDrain, WindDown, Fresh, TaskState
    <3> QED  BY <3>1 DEF Fit
  <2>6. CASE ConfirmDrained(t)
    <3>1. \A kind \in {"drain_stalled", "drain_blocked"} : status' # Fence(status, kind)
      BY <1>20 DEF Fence, Fenced, Status
    <3>2. l \in {"top", "enter"}
      BY <1>0, <1>1, <1>3, <2>6, <3>1 DEF ConfirmDrained, TaskState
    <3> QED  BY <3>2 DEF Fit
  <2>7. CASE EnterExclusiveReset(t) \/ ResetPage(t)
    <3>1. l \in {"top", "reset_page", "ack", Lost(t)}
      BY <1>0, <1>1, <1>3, <2>7 DEF EnterExclusiveReset, WindDown, ResetPage, TaskState
    <3> QED  BY <1>7, <3>1 DEF Fit
  <2> QED  BY <1>8, <2>1, <2>2, <2>3, <2>4, <2>5, <2>6, <2>7 DEF DriveStep
<1>9. CASE EnqueueStep(t) \/ ReserveSlot(t) \/ AdmitEnqueue(t)
  <2>1. CASE StoreRow(t) \/ Publish(t)
    <3>1. l \in {"stored", "transition", "acquire"}
      BY <1>0, <1>1, <1>3, <2>1 DEF StoreRow, Publish, TaskState
    <3> QED  BY <3>1 DEF Fit
  <2>2. CASE ReserveSlot(t) \/ AdmitEnqueue(t)
    <3>1. l \in {"reserved", "writing", Rejected(t)} \/ (l = "done" /\ task[t].pc = "new")
      BY <1>3, <2>2 DEF ReserveSlot, AdmitEnqueue, At
    <3> QED  BY <1>7, <3>1 DEF Fit
  <2>3. CASE \/ ArmAfterFault(t) \/ LeaveSerializeLock(t) \/ ReleaseSlot(t)
    <3>1. l \in {"raise", "rescue", "publishing", "acquire", Done(t)} \/ (l = "done" /\ task[t].pc = "leaving")
      BY <1>3, <2>3 DEF ArmAfterFault, LeaveSerializeLock, ReleaseSlot, At
    <3> QED  BY <1>5, <1>6, <3>1 DEF Fit
  <2> QED  BY <1>9, <2>1, <2>2, <2>3 DEF EnqueueStep
<1>10. CASE CommitRetry(t) \/ ReserveScan(t) \/ InsertCustomChunks(t) \/ AcquireDestructive(t)
  <2>1. task[t].pc = "new" /\ l \in {"done", "acquire", "publish", "preparing", "clearing", "deleting"}
    BY <1>0, <1>1, <1>3, <1>10 DEF CommitRetry, ReserveScan, InsertCustomChunks, AcquireDestructive, At, TaskState
  <2> QED  BY <2>1 DEF Fit
<1>11. CASE ScanStep(t)
  <2>1. CASE CommitScan(t)
    <3>1. t \in Scans /\ task[t].pc = "publish"
      BY <1>2, <2>1 DEF CommitScan, At, TaskOK, EntryOK, ScanPc
    <3>2. l = "rollback"
      BY <1>1, <1>3, <2>1, <3>1, RequestAccepted DEF CommitScan
    <3> QED  BY <3>2 DEF Fit
  <2>2. CASE EndScanClassification(t) \/ CheckDeferred(t)
    <3>1. l = "acquire" \/ (l = "done" /\ task[t].pc = "check_deferred")
      BY <1>0, <1>1, <2>2 DEF EndScanClassification, CheckDeferred, At, TaskState
    <3> QED  BY <3>1 DEF Fit
  <2>3. CASE \/ RollBackJournals(t) \/ AcquireForReset(t) \/ BeginScanDrain(t) \/ ConfirmScanDrain(t)
             \/ ReleaseReset(t) \/ Classify(t) \/ LeaveScan(t) \/ RefuseScan(t)
    <3>1. l \in {"scan_acquire", "leave_scan", "scan_begin", "scan_confirm", "abandon_reset", "enter",
                 "classify", "enqueue", "transition", "check_deferred"}
      BY <1>1, <1>2, <1>3, <2>3 DEF RollBackJournals, AcquireForReset, BeginScanDrain, ConfirmScanDrain,
                        ReleaseReset, Classify, LeaveScan, RefuseScan, At
    <3> QED  BY <3>1 DEF Fit
  <2> QED  BY <1>11, <2>1, <2>2, <2>3 DEF ScanStep
<1>12. CASE ChunksStep(t) \/ DestructiveStep(t)
  <2>1. CASE PrepareOperation(t) \/ ApplyOperation(t) \/ \E d \in Doc : DeleteDocument(t, d)
    <3>1. l \in {"applying", "leave_slot", "deleting"}
      BY <1>0, <1>1, <1>3, <2>1 DEF PrepareOperation, ApplyOperation, DeleteDocument, At, TaskState
    <3> QED  BY <3>1 DEF Fit
  <2>2. CASE \/ LeaveSlot(t) \/ TakeOver(t) \/ EndDelete(t) \/ LeaveDelete(t) \/ ClearIngress(t)
             \/ DropStorages(t) \/ LeaveClear(t)
    <3>1. \/ l \in {"handoff", "peek", "leave_delete", "acquire", "dropping", "leave_clear"}
          \/ l = "done" /\ task[t].pc \in {"leave_slot", "handoff", "leave_delete", "leave_clear"}
      BY <1>3, <2>2 DEF LeaveSlot, TakeOver, EndDelete, LeaveDelete, ClearIngress, DropStorages, LeaveClear, At
    <3> QED  BY <1>6, <3>1 DEF Fit
  <2> QED  BY <1>12, <2>1, <2>2 DEF ChunksStep, DestructiveStep
<1> QED  BY <1>21, <1>8, <1>9, <1>10, <1>11, <1>12 DEF Request, Step

\* Publishing documents announces them, and nothing less than before.
LEMMA PutAnnounces ==
  ASSUME NEW m \in Channels, NEW docs \in Seq(Doc), NEW d,
         Announced(m, d) \/ Occurs(docs, d)
  PROVE  Announced(PutDocuments(m, docs), d)
<1> DEFINE all == m.documents \o docs
<1>1. m.documents \in Seq(Doc)
  BY DEF Channels
<1>2. /\ all \in Seq(Doc) /\ Len(all) = Len(m.documents) + Len(docs)
      /\ Len(m.documents) \in Nat /\ Len(docs) \in Nat
      /\ \A i \in 1 .. Len(m.documents) + Len(docs) :
           all[i] = IF i <= Len(m.documents) THEN m.documents[i] ELSE docs[i - Len(m.documents)]
  BY <1>1, ConcatProperties
<1>3. Occurs(m.documents, d) \/ Occurs(docs, d) => Occurs(all, d)
  <2>1. DOMAIN m.documents = 1 .. Len(m.documents) /\ DOMAIN docs = 1 .. Len(docs) /\ DOMAIN all = 1 .. Len(all)
    BY <1>1, <1>2
  <2> HIDE DEF all
  <2>2. ASSUME NEW i \in DOMAIN m.documents PROVE i \in DOMAIN all /\ all[i] = m.documents[i]
    BY <1>2, <2>1
  <2>3. ASSUME NEW i \in DOMAIN docs
        PROVE  i + Len(m.documents) \in DOMAIN all /\ all[i + Len(m.documents)] = docs[i]
    <3> DEFINE j == i + Len(m.documents)
    <3>1. i \in 1 .. Len(docs) /\ j \in 1 .. Len(m.documents) + Len(docs) /\ ~ (j <= Len(m.documents))
          /\ j - Len(m.documents) = i
      BY <1>2, <2>1
    <3> HIDE DEF j
    <3> QED  BY <1>2, <2>1, <3>1 DEF j
  <2> QED  BY <2>2, <2>3 DEF Occurs
<1> HIDE DEF all
<1>4. PutDocuments(m, docs) = IF Len(all) <= DocumentCapacity THEN [m EXCEPT !.documents = all]
                              ELSE [m EXCEPT !.documents = SubSeq(all, 1, DocumentCapacity), !.auto = TRUE]
  BY DEF PutDocuments, all
<1>5. CASE Len(all) <= DocumentCapacity
  <2>1. PutDocuments(m, docs).documents = all /\ PutDocuments(m, docs).auto = m.auto
    BY <1>4, <1>5 DEF Channels
  <2> QED  BY <1>3, <2>1 DEF Announced
<1>6. CASE ~ (Len(all) <= DocumentCapacity)
  <2>1. PutDocuments(m, docs).auto
    BY <1>4, <1>6 DEF Channels
  <2> QED  BY <2>1 DEF Announced
<1> QED  BY <1>5, <1>6

\* What a task may do that does not hold the slot.
LEMMA OutsideActs ==
  ASSUME NEW t \in Worker, CalmStep(t), task[t].pc \notin HoldingPc
  PROVE  \/ AcquireProcessing(t) \/ FinalizeReleased(t) \/ ReserveSlot(t) \/ AdmitEnqueue(t) \/ StoreRow(t)
         \/ ArmAfterFault(t) \/ LeaveSerializeLock(t) \/ Publish(t) \/ ReleaseSlot(t) \/ CommitRetry(t)
         \/ ReserveScan(t) \/ CommitScan(t) \/ RefuseScan(t) \/ RollBackJournals(t) \/ AcquireForReset(t)
         \/ Classify(t) \/ EndScanClassification(t) \/ LeaveScan(t) \/ CheckDeferred(t)
         \/ InsertCustomChunks(t) \/ AcquireDestructive(t)
<1>1. Request(t) \/ Step(t)
  BY CalmFacts
<1>2. task[t].pc \notin {"finalize", "refused", "dead"}
  BY DEF CalmStep, Calm
<1>3. ~ ChunksStep(t) /\ ~ DestructiveStep(t)
  BY DEF ChunksStep, PrepareOperation, ApplyOperation, LeaveSlot, TakeOver, DestructiveStep, EndDelete,
         LeaveDelete, ClearIngress, DropStorages, LeaveClear, DeleteDocument, At, HoldingPc, ChunksPc,
         DestroyingPc
<1>4. ~ BeginScanDrain(t) /\ ~ ConfirmScanDrain(t) /\ ~ ReleaseReset(t)
  BY DEF BeginScanDrain, ConfirmScanDrain, ReleaseReset, At, HoldingPc
<1>5. DriveStep(t) => AcquireProcessing(t) \/ FinalizeReleased(t)
  BY <1>2 DEF DriveStep, PeekRequest, FirstPage, Decide, Top, Validate, FeedDocument, EndBatch, StartDocument,
              FinishDocument, Sweep, StartDrain, DrainMailbox, Fresh, WaitForEnqueues, ConfirmDrained,
              EnterExclusiveReset, ResetPage, AckRequest, EndManualDrain, Finalize, At, HoldingPc, SweepPc,
              ResetPc
<1> QED  BY <1>1, <1>3, <1>4, <1>5 DEF Request, Step, EnqueueStep, ScanStep

\* Who does not hold the slot adds to the mailbox and takes nothing from it.
LEMMA CalmTold ==
  ASSUME NEW t \in Worker, CalmStep(t), task[t].pc \notin HoldingPc, NEW d, Announced(mailbox, d)
  PROVE  Announced(mailbox', d)
<1>1. mailbox \in Channels /\ DataOK(task[t]) /\ LocalsOK(task[t])
  BY CalmFacts
<1>2. Announced(RequestAutoRescan(mailbox), d) /\ Announced(RequestManualRetry(mailbox, t), d)
  BY <1>1 DEF Announced, RequestAutoRescan, RequestManualRetry, Channels
<1>3. CASE Publish(t)
  <2> DEFINE e == CHOOSE e \in Doc : e \in task[t].docs
  <2>1. e \in Doc
    BY <1>1, <1>3 DEF Publish, At, LocalsOK, DataOK
  <2>2. mailbox' = PutDocuments(mailbox, <<e>>) \/ mailbox' = RequestAutoRescan(mailbox)
    BY <1>3 DEF Publish
  <2> HIDE DEF e
  <2>3. <<e>> \in Seq(Doc)
    BY <2>1
  <2>4. Announced(PutDocuments(mailbox, <<e>>), d)
    BY <1>1, <2>3, PutAnnounces
  <2> QED  BY <1>2, <2>2, <2>4
<1>4. CASE \/ AcquireProcessing(t) \/ ArmAfterFault(t) \/ CommitRetry(t) \/ CommitScan(t) \/ AcquireForReset(t)
  <2>1. mailbox' \in {mailbox, RequestAutoRescan(mailbox), RequestManualRetry(mailbox, t)}
    BY <1>4 DEF AcquireProcessing, ArmAfterFault, CommitRetry, CommitScan, AcquireForReset
  <2> QED  BY <1>2, <2>1
<1>5. CASE \/ FinalizeReleased(t) \/ ReserveSlot(t) \/ AdmitEnqueue(t) \/ StoreRow(t)
           \/ LeaveSerializeLock(t) \/ ReleaseSlot(t) \/ ReserveScan(t) \/ RefuseScan(t)
           \/ RollBackJournals(t) \/ Classify(t) \/ EndScanClassification(t) \/ LeaveScan(t)
           \/ CheckDeferred(t) \/ InsertCustomChunks(t) \/ AcquireDestructive(t)
  BY <1>5 DEF FinalizeReleased, ReserveSlot, AdmitEnqueue, StoreRow, LeaveSerializeLock, ReleaseSlot,
              ReserveScan, RefuseScan, RollBackJournals, Classify, EndScanClassification, LeaveScan,
              CheckDeferred, InsertCustomChunks, AcquireDestructive
<1> QED  BY <1>3, <1>4, <1>5, OutsideActs

\* Nor does it change rows, but for a new document and for what a scan rolls back.
LEMMA CalmRows ==
  ASSUME NEW t \in Worker, CalmStep(t), task[t].pc \notin HoldingPc
  PROVE  \/ row' = row
         \/ /\ At(t, "writing") /\ NewDoc \in Doc /\ row' = [row EXCEPT ![NewDoc] = "pending"]
            /\ task'[t].pc = "stored"
         \/ /\ At(t, "rollback")
            /\ \E restored \in {"processed", "none"} :
                 row' = [d \in Doc |-> IF row[d] \in Journaled THEN restored ELSE row[d]]
<1>1. ~ Fault /\ task \in [Worker -> TaskState]
  BY CalmFacts
<1>2. CASE StoreRow(t)
  BY <1>1, <1>2 DEF StoreRow, TaskState
<1>3. CASE RollBackJournals(t)
  BY <1>1, <1>3 DEF RollBackJournals
<1>4. CASE ~ StoreRow(t) /\ ~ RollBackJournals(t)
  BY <1>4, OutsideActs
     DEF AcquireProcessing, FinalizeReleased, ReserveSlot, AdmitEnqueue, ArmAfterFault, LeaveSerializeLock,
         Publish, ReleaseSlot, CommitRetry, ReserveScan, CommitScan, RefuseScan, AcquireForReset, Classify,
         EndScanClassification, LeaveScan, CheckDeferred, InsertCustomChunks, AcquireDestructive
<1> QED  BY <1>2, <1>3, <1>4

\* Nor the phase of the run that holds it.
LEMMA CalmPhase ==
  ASSUME NEW t \in Worker, CalmStep(t), task[t].pc \notin HoldingPc
  PROVE  status'.phase = status.phase
<1>1. MadeFrom(status, t) /\ ~ Fault /\ status \in Status
  BY CalmFacts
<1>2. ~ Owns(status, t)
  BY CalmHolder
<1>3. CASE status' \in PlainOps(status, t)
  BY <1>1, <1>2, <1>3, PlainOpsSteady DEF Steady
<1>4. CASE status' \notin PlainOps(status, t)
  BY <1>1, <1>2, <1>4 DEF MadeFrom, TakeScanning, BeginDrain, EnterReset, Status
<1> QED  BY <1>3, <1>4

-----------------------------------------------------------------------------
(* 22. Nothing goes wrong.                                                  *)

\* What a mailbox may know, if A is what has been asked for.
Known(m, A) ==
    /\ \A i \in DOMAIN m.manual : m.manual[i] \in A
    /\ \A i, j \in DOMAIN m.manual : m.manual[i] = m.manual[j] => i = j
    /\ TerminalIds(m) \subseteq A

\* One more request, or one less, is known.
LEMMA KnownKept ==
  ASSUME NEW m \in Channels, NEW A \in SUBSET Worker, Known(m, A)
  PROVE  /\ \A t \in A : /\ ~ Pending(m, t) => Known([m EXCEPT !.manual = Append(@, t)], A)
                        /\ Known(AckManualRetry(m, t), A)
         /\ Known(ClearMailbox(m), A)
<1> DEFINE q == m.manual
<1>1. q \in Seq(Worker) /\ A \subseteq Worker
  BY DEF Channels
<1>2. ASSUME NEW t \in A, ~ Pending(m, t) PROVE Known([m EXCEPT !.manual = Append(@, t)], A)
  <2>1. /\ Append(q, t) \in Seq(Worker) /\ Len(q) \in Nat /\ DOMAIN q = 1 .. Len(q)
        /\ Len(Append(q, t)) = Len(q) + 1 /\ DOMAIN Append(q, t) = 1 .. Len(q) + 1
        /\ \A i \in 1 .. Len(q) : Append(q, t)[i] = q[i]
        /\ Append(q, t)[Len(q) + 1] = t
    BY <1>1
  <2> DEFINE p == Append(q, t)
             n == Len(q)
  <2>2. \A i \in 1 .. n : p[i] = q[i] /\ q[i] \in A /\ q[i] # t
    BY <1>2, <2>1 DEF Known, Pending, Occurs
  <2>3. \A i, j \in 1 .. n : q[i] = q[j] => i = j
    BY <2>1 DEF Known
  <2>4. [m EXCEPT !.manual = Append(@, t)].manual = p
        /\ [m EXCEPT !.manual = Append(@, t)].terminal = m.terminal
    BY DEF Channels
  <2>5. n \in Nat /\ DOMAIN p = 1 .. n + 1 /\ p[n + 1] = t
    BY <2>1
  <2> HIDE DEF p, n, q
  <2>6. \A i \in 1 .. n + 1 : i \in 1 .. n \/ i = n + 1
    BY <2>5
  <2>7. \A i \in DOMAIN p : p[i] \in A
    BY <2>2, <2>5, <2>6
  <2>8. \A i, j \in DOMAIN p : p[i] = p[j] => i = j
    BY <2>2, <2>3, <2>5, <2>6
  <2> QED  BY <2>4, <2>7, <2>8 DEF Known, TerminalIds
<1>3. ASSUME NEW ids \in Seq(Worker), NEW state \in {"acked", "cancelled"}, \A x : Occurs(ids, x) => x \in A
      PROVE  \A i \in DOMAIN Retire(m, ids, state) : Retire(m, ids, state)[i].id \in A
  <2>1. \A i \in DOMAIN Retire(m, ids, state) :
           IsTerminal(m, Retire(m, ids, state)[i].id) \/ Occurs(ids, Retire(m, ids, state)[i].id)
    BY <1>3, RetireKeeps
  <2> QED  BY <1>3, <2>1 DEF Known, IsTerminal
<1>4. ASSUME NEW t \in A PROVE Known(AckManualRetry(m, t), A)
  <2>1. <<t>> \in Seq(Worker) /\ \A x : Occurs(<<t>>, x) => x \in A
    BY <1>1 DEF Occurs
  <2>2. /\ AckManualRetry(m, t).manual = Without(q, {t})
        /\ AckManualRetry(m, t).terminal = Retire(m, <<t>>, "acked")
    BY DEF AckManualRetry, Channels
  <2>3. \A i, j \in DOMAIN q : q[i] = q[j] => i = j
    BY DEF Known
  <2>4. \A i, j \in DOMAIN Without(q, {t}) : Without(q, {t})[i] = Without(q, {t})[j] => i = j
    <3> HIDE DEF q
    <3> QED  BY <1>1, <2>3, WithoutInjective
  <2>5. \A x : (\E j \in DOMAIN Without(q, {t}) : Without(q, {t})[j] = x) => \E i \in DOMAIN q : q[i] = x
    <3> HIDE DEF q
    <3> QED  BY <1>1, WithoutRange
  <2>6. \A i \in DOMAIN q : q[i] \in A
    BY DEF Known
  <2>7. \A j \in DOMAIN Without(q, {t}) : Without(q, {t})[j] \in A
    <3> HIDE DEF q
    <3> QED  BY <2>5, <2>6
  <2>8. \A i \in DOMAIN Retire(m, <<t>>, "acked") : Retire(m, <<t>>, "acked")[i].id \in A
    BY <1>3, <2>1
  <2> QED  BY <2>2, <2>4, <2>7, <2>8 DEF Known, TerminalIds
<1>5. Known(ClearMailbox(m), A)
  <2>1. \A x : Occurs(q, x) => x \in A
    BY DEF Known, Occurs
  <2>2. ClearMailbox(m).manual = <<>> /\ ClearMailbox(m).terminal = Retire(m, q, "cancelled")
    BY DEF ClearMailbox, EmptyMailbox
  <2>3. \A i \in DOMAIN Retire(m, q, "cancelled") : Retire(m, q, "cancelled")[i].id \in A
    <3> HIDE DEF q
    <3> QED  BY <1>1, <1>3, <2>1
  <2>4. DOMAIN <<>> = {}
    OBVIOUS
  <2> QED  BY <2>2, <2>3, <2>4 DEF Known, TerminalIds
<1> QED  BY <1>2, <1>4, <1>5

\* What the mailbox knows.
LEMMA CalmRequests ==
  ASSUME NEW t \in Worker, CalmStep(t)
  PROVE  RequestsOK'
<1> DEFINE A == {u \in Retries \cup Scans : task'[u].pc \notin {"new", "publish"}}
<1>1. Fit(t, task'[t].pc)
  BY CalmPlaces
<1>2. /\ \A u \in Worker \ {t} : task'[u] = task[u]
      /\ mailbox \in Channels /\ status \in Status /\ task \in [Worker -> TaskState]
      /\ RowsInv /\ (Request(t) \/ Step(t)) /\ MadeFrom(status, t) /\ ~ Fault
  BY CalmFacts
<1>3. RequestsOK
  BY DEF CalmStep, Calm
<1>4. A \subseteq Worker
  BY TaskAssumption
<1>5. \A u : Asked(u) => u \in A
  <2> SUFFICES ASSUME NEW u, Asked(u) PROVE u \in A
    OBVIOUS
  <2>1. u \in Worker /\ u \in Retries \cup Scans
    BY TaskAssumption DEF Asked
  <2>2. task'[u].pc \notin {"new", "publish"}
    BY <1>1, <1>2, <2>1 DEF Asked, Fit
  <2> QED  BY <2>1, <2>2
<1>6. \A u : u \in A => Asked(u)'
  BY DEF Asked
<1> HIDE DEF A
<1>7. Known(mailbox, A)
  <2>1. \A i \in DOMAIN mailbox.manual : mailbox.manual[i] \in A
    BY <1>3, <1>5 DEF RequestsOK
  <2>2. TerminalIds(mailbox) \subseteq A
    BY <1>3, <1>5 DEF RequestsOK
  <2> QED  BY <1>3, <2>1, <2>2 DEF RequestsOK, Known
<1>8. /\ TaskOK(status, t, task[t]) /\ StatusOK(status)
      /\ task[t].pc \in HoldingPc => Owns(status, t)
  BY CalmHolder
<1>9. Known(mailbox', A)
  <2>1. CASE AckRequest(t)
    <3> DEFINE r == IF InReset(t) THEN t ELSE status.manualOwner.request
    <3>1. task[t].pc = "ack" /\ task'[t].pc \in {"release_reset", "end_drain"}
      BY <1>2, <2>1, GotoLocals DEF AckRequest, At
    <3>2. InReset(t) => t \in A
      BY <1>8, <3>1 DEF InReset, TaskOK, EntryOK, A
    <3>3. status.manualOwner # NoManualOwner
      BY <1>8, <3>1 DEF TaskOK, PhaseOK, StatusOK, FlagsOK, HoldingPc, ResetPc, Owns, NoManualOwner
    <3>4. r \in A
      BY <1>3, <1>5, <3>2, <3>3 DEF RequestsOK
    <3>5. mailbox' = AckManualRetry(mailbox, r)
      BY <2>1 DEF AckRequest
    <3> HIDE DEF r
    <3> QED  BY <1>2, <1>4, <1>7, <3>4, <3>5, KnownKept
  <2>2. CASE ClearIngress(t)
    <3>1. mailbox' = ClearMailbox(mailbox)
      BY <1>2, <2>2 DEF ClearIngress
    <3> QED  BY <1>2, <1>4, <1>7, <3>1, KnownKept
  <2>3. CASE CommitRetry(t) \/ CommitScan(t)
    <3>1. t \in Retries \cup Scans /\ task[t].pc \in {"new", "publish"}
      BY <1>8, <2>3 DEF CommitRetry, CommitScan, At, TaskOK, EntryOK, ScanPc
    <3>2. PublishResult(mailbox, t) = "accepted" /\ ~ Pending(mailbox, t)
      BY <3>1, RequestAccepted
    <3>3. \/ mailbox' = mailbox
          \/ /\ mailbox' = RequestManualRetry(mailbox, t)
             /\ task'[t].pc \in {"acquire", "rollback"}
      BY <1>2, <2>3, <3>2, GotoLocals DEF CommitRetry, CommitScan
    <3>4. CASE mailbox' = mailbox
      BY <1>7, <3>4
    <3>5. CASE mailbox' # mailbox
      <4>1. t \in A
        BY <3>1, <3>3, <3>5 DEF A
      <4>2. mailbox' = [mailbox EXCEPT !.manual = Append(@, t)]
        BY <3>2, <3>3, <3>5 DEF RequestManualRetry
      <4> QED  BY <1>2, <1>4, <1>7, <3>2, <4>1, <4>2, KnownKept
    <3> QED  BY <3>4, <3>5
  <2>4. CASE ~ AckRequest(t) /\ ~ ClearIngress(t) /\ ~ CommitRetry(t) /\ ~ CommitScan(t)
    <3>1. mailbox'.terminal = mailbox.terminal /\ mailbox'.manual = mailbox.manual
      BY <1>2, <2>4, RequestsKept
    <3> QED  BY <1>7, <3>1 DEF Known, TerminalIds
  <2> QED  BY <2>1, <2>2, <2>3, <2>4
<1>10. status'.manualOwner # NoManualOwner => status'.manualOwner.request \in A
  <2>1. status.manualOwner # NoManualOwner => status.manualOwner.request \in A
    BY <1>3, <1>5 DEF RequestsOK
  <2>2. CASE status' \in PlainOps(status, t)
    <3>1. status'.manualOwner \in {status.manualOwner, NoManualOwner}
      BY <1>2, <2>2, PlainOpsSteady DEF Steady
    <3> QED  BY <2>1, <3>1
  <2>3. CASE status' \notin PlainOps(status, t)
    <3>1. mailbox.manual # <<>> => Head(mailbox.manual) \in A
      <4>1. mailbox.manual \in Seq(Worker)
        BY <1>2 DEF Channels
      <4>2. mailbox.manual # <<>> => 1 \in DOMAIN mailbox.manual /\ Head(mailbox.manual) = mailbox.manual[1]
        BY <4>1
      <4> QED  BY <1>7, <4>2 DEF Known
    <3>2. StartDrain(t) => mailbox.manual # <<>>
      BY CalmFacts DEF StartDrain, At, LocalsOK
    <3>3. BeginScanDrain(t) => t \in A
      <4>1. SUFFICES ASSUME BeginScanDrain(t) PROVE t \in A
        OBVIOUS
      <4>2. task[t].pc = "scan_begin" /\ task'[t].pc \in {"scan_confirm", "abandon_reset"}
        BY <1>2, <4>1, GotoLocals DEF BeginScanDrain, At
      <4> QED  BY <1>8, <4>2 DEF TaskOK, EntryOK, ScanPc, A
    <3>4. \/ status'.manualOwner = status.manualOwner
          \/ status' = BeginDrain(status, t, Head(mailbox.manual)) /\ mailbox.manual # <<>>
          \/ status' = BeginDrain(status, t, t) /\ t \in A
      BY <1>2, <2>3, <3>2, <3>3 DEF MadeFrom, TakeScanning, EnterReset, Status
    <3>5. ASSUME NEW r, status' = BeginDrain(status, t, r), r \in A
          PROVE  status'.manualOwner # NoManualOwner => status'.manualOwner.request \in A
      BY <1>2, <2>1, <3>5 DEF BeginDrain, Status
    <3> QED  BY <2>1, <3>1, <3>4, <3>5
  <2> QED  BY <2>2, <2>3
<1>11. /\ \A i \in DOMAIN mailbox'.manual : Asked(mailbox.manual[i])'
       /\ \A u \in TerminalIds(mailbox)' : Asked(u)'
  BY <1>6, <1>9 DEF Known
<1> QED  BY <1>6, <1>9, <1>10, <1>11 DEF RequestsOK, Known

\* Whom the classification fence belongs to.
LEMMA CalmFence ==
  ASSUME NEW t \in Worker, CalmStep(t)
  PROVE  FenceMet'
<1>1. MadeFrom(status, t) /\ ~ Fault /\ status \in Status
  BY CalmFacts
<1>2. TaskOK(status, t, task[t])
  BY CalmHolder
<1>3. /\ task \in [Worker -> TaskState] /\ (Request(t) \/ Step(t))
      /\ \A u \in Worker \ {t} : task'[u] = task[u]
  BY CalmFacts
<1>4. ASSUME ReserveScan(t), status' # status
      PROVE  FenceMet'
  <2>1. t \in Scans /\ task[t].pc = "new"
    BY <1>4 DEF ReserveScan, At
  <2>2. task[t].stage = "reset"
    BY <1>2, <2>1 DEF TaskOK, EntryOK
  <2>3. ~ EndScanClassification(t) /\ ~ CheckDeferred(t)
    BY <2>1 DEF EndScanClassification, CheckDeferred, At
  <2>4. task'[t].stage = "reset"
    BY <1>3, <2>2, <2>3, StageKept
  <2>5. Reconcile(status, Dead) = status
    BY CalmFacts
  <2>6. status' = TakeScanning(status, t)
    BY <1>4, <2>5 DEF ReserveScan
  <2>7. status'.scanOwner = t
    BY <1>1, <2>6 DEF TakeScanning, Status
  <2> QED  BY <2>4, <2>7 DEF FenceMet
<1>5. ASSUME ~ ReserveScan(t) \/ status' = status
      PROVE  FenceMet'
  <2>1. status'.exclusive => status.exclusive /\ status'.scanOwner = status.scanOwner
    <3>1. CASE status' \in PlainOps(status, t)
      BY <1>1, <3>1, PlainOpsSteady DEF Steady
    <3>2. CASE status' \notin PlainOps(status, t)
      BY <1>1, <1>5, <3>2 DEF MadeFrom, BeginDrain, EnterReset, Status
    <3> QED  BY <3>1, <3>2
  <2>2. ASSUME status'.exclusive PROVE FenceMet'
    <3>1. PICK u \in Worker : status.scanOwner = u /\ task[u].stage = "reset"
      BY <2>1, <2>2 DEF CalmStep, Calm, FenceMet
    <3>2. CASE u # t
      BY <1>3, <2>1, <2>2, <3>1, <3>2 DEF FenceMet
    <3>3. CASE u = t
      <4>1. ~ EndScanClassification(t)
        BY <1>1, <2>2, <3>1, <3>3 DEF EndScanClassification, EndClassification, Status
      <4>2. ~ CheckDeferred(t)
        BY <1>2, <2>1, <2>2, <3>1, <3>3 DEF CheckDeferred, At, TaskOK, EntryOK, Fencing
      <4>3. task'[t].stage = "reset"
        BY <1>3, <3>1, <3>3, <4>1, <4>2, StageKept
      <4> QED  BY <2>1, <2>2, <3>1, <3>3, <4>3 DEF FenceMet
    <3> QED  BY <3>2, <3>3
  <2> QED  BY <2>2 DEF FenceMet
<1> QED  BY <1>4, <1>5

-----------------------------------------------------------------------------
(* 23. Rows.                                                                *)

\* Only a delete, a clear and a batch lead into themselves.
LEMMA CalmArrivals ==
  ASSUME NEW t \in Worker, CalmStep(t)
  PROVE  /\ task'[t].pc = "dropping" => ClearIngress(t)
         /\ task'[t].pc = "leave_clear" => DropStorages(t)
         /\ task'[t].pc = "batch" =>
              Validate(t) \/ FeedDocument(t) \/ \E d \in Doc : StartDocument(t, d) \/ FinishDocument(t, d)
<1> DEFINE l == task'[t].pc
           Apart == l \notin {"dropping", "leave_clear", "batch"}
<1>0. task \in [Worker -> TaskState]
  BY CalmFacts
<1>1. ~ Fault /\ status.cancel = "no"
  BY CalmFacts
<1>2. \A k : Goto(t, k) \/ Leave(t, k) => l = k
  BY <1>0, GotoLocals, LeaveLocals
<1>3. \A page, k : Take(t, page, k) => l = k
  BY <1>0, TakeLocals
<1>4. /\ Done(t) \in {"leaving", "transition", "leave_scan", "done"} /\ Rejected(t) \in {"leaving", "transition", "leave_scan", "done"}
      /\ Abandon(t) \in {"abandon_reset", "finalize"} /\ Lost(t) \in {"abandon_reset", "fresh"}
  BY DEF Done, Rejected, Abandon, Lost
<1>5. Request(t) \/ Step(t)
  BY CalmFacts
<1>6. CASE DriveStep(t)
  <2>1. CASE \/ AcquireProcessing(t) \/ FinalizeReleased(t) \/ FirstPage(t) \/ Top(t) \/ Sweep(t)
             \/ WaitForEnqueues(t) \/ AckRequest(t) \/ EndManualDrain(t) \/ Finalize(t)
    <3>1. l \in {Done(t), "peek", "entry", "top", "validate", "decide", "release_reset", "end_drain", "fresh"}
      BY <1>1, <1>2, <1>3, <2>1 DEF AcquireProcessing, FinalizeReleased, FirstPage, Top, Sweep,
                        WaitForEnqueues, AckRequest, EndManualDrain, Finalize
    <3> QED  BY <1>4, <3>1
  <2>2. CASE Decide(t)
    <3>1. l \in {Done(t), "released", "sweep", "fresh", "drain_mailbox", "confirm", "wait", "manual"}
      BY <1>0, <1>1, <1>2, <2>2 DEF Decide, DecideDraining, DecideIdle, Continue, ContinueAuto,
                        ContinueDocument, Released, TaskState
    <3> QED  BY <1>4, <3>1
  <2>3. CASE PeekRequest(t) \/ DrainMailbox(t) \/ EndBatch(t) \/ StartDrain(t) \/ Fresh(t)
    <3>1. l \in {"first_page", "fresh", "decide", "top"}
      BY <1>0, <1>1, <1>2, <1>3, <2>3 DEF PeekRequest, DrainMailbox, EndBatch, StartDrain, WindDown, Fresh,
                        TaskState
    <3> QED  BY <3>1
  <2>4. CASE Validate(t) \/ FeedDocument(t) \/ \E d \in Doc : StartDocument(t, d) \/ FinishDocument(t, d)
    <3>1. l \in {"decide", "batch"}
      BY <1>0, <1>1, <1>2, <2>4 DEF Validate, FeedDocument, Route, StartDocument, FinishDocument, Finish, At,
                        TaskState
    <3> QED  BY <2>4, <3>1
  <2>5. CASE ConfirmDrained(t) \/ EnterExclusiveReset(t) \/ ResetPage(t)
    <3>1. l \in {"top", "enter", "finalize", "reset_page", "ack", Lost(t)}
      BY <1>0, <1>1, <1>2, <2>5 DEF ConfirmDrained, EnterExclusiveReset, WindDown, ResetPage, TaskState
    <3> QED  BY <1>4, <3>1
  <2> QED  BY <1>6, <2>1, <2>2, <2>3, <2>4, <2>5 DEF DriveStep
<1>7. CASE EnqueueStep(t) \/ ReserveSlot(t) \/ AdmitEnqueue(t)
  <2>1. CASE StoreRow(t) \/ Publish(t)
    <3>1. l \in {"stored", "transition", "acquire"}
      BY <1>0, <1>1, <1>2, <2>1 DEF StoreRow, Publish, TaskState
    <3> QED  BY <3>1
  <2>2. CASE \/ ReserveSlot(t) \/ AdmitEnqueue(t) \/ ArmAfterFault(t) \/ LeaveSerializeLock(t) \/ ReleaseSlot(t)
    <3>1. l \in {"reserved", "writing", "raise", "rescue", "publishing", "acquire", "done", Rejected(t), Done(t)}
      BY <1>2, <2>2 DEF ReserveSlot, AdmitEnqueue, ArmAfterFault, LeaveSerializeLock, ReleaseSlot
    <3> QED  BY <1>4, <3>1
  <2> QED  BY <1>7, <2>1, <2>2 DEF EnqueueStep
<1>8. CASE CommitRetry(t) \/ ReserveScan(t) \/ InsertCustomChunks(t) \/ AcquireDestructive(t)
  <2>1. l \in {"done", "acquire", "publish", "preparing", "clearing", "deleting"}
    BY <1>0, <1>2, <1>8 DEF CommitRetry, ReserveScan, InsertCustomChunks, AcquireDestructive, TaskState
  <2> QED  BY <2>1
<1>9. CASE ScanStep(t)
  <2>1. CASE EndScanClassification(t) \/ CheckDeferred(t)
    <3>1. l \in {"acquire", "done"}
      BY <1>0, <2>1 DEF EndScanClassification, CheckDeferred, TaskState
    <3> QED  BY <3>1
  <2>2. CASE \/ CommitScan(t) \/ RollBackJournals(t) \/ AcquireForReset(t) \/ BeginScanDrain(t)
             \/ ConfirmScanDrain(t) \/ ReleaseReset(t) \/ Classify(t) \/ LeaveScan(t) \/ RefuseScan(t)
    <3>1. l \in {"rollback", "refused", "scan_acquire", "leave_scan", "scan_begin", "scan_confirm",
                 "abandon_reset", "enter", "classify", "enqueue", "transition", "check_deferred", "done"}
      BY <1>2, <2>2 DEF CommitScan, RollBackJournals, AcquireForReset, BeginScanDrain,
                        ConfirmScanDrain, ReleaseReset, Classify, LeaveScan, RefuseScan
    <3> QED  BY <3>1
  <2> QED  BY <1>9, <2>1, <2>2 DEF ScanStep
<1>10. CASE ChunksStep(t) \/ DestructiveStep(t)
  <2>1. CASE PrepareOperation(t) \/ ApplyOperation(t) \/ \E d \in Doc : DeleteDocument(t, d)
    <3>1. l \in {"applying", "leave_slot", "deleting"}
      BY <1>0, <1>2, <2>1 DEF PrepareOperation, ApplyOperation, DeleteDocument, At, TaskState
    <3> QED  BY <3>1
  <2>2. CASE \/ LeaveSlot(t) \/ TakeOver(t) \/ EndDelete(t) \/ LeaveDelete(t) \/ LeaveClear(t)
    <3>1. l \in {"handoff", "peek", "leave_delete", "acquire", "done"}
      BY <1>2, <2>2 DEF LeaveSlot, TakeOver, EndDelete, LeaveDelete, LeaveClear
    <3> QED  BY <3>1
  <2>3. CASE ClearIngress(t) \/ DropStorages(t)
    <3>1. ClearIngress(t) => l = "dropping"
      BY <1>2 DEF ClearIngress
    <3>2. DropStorages(t) => l = "leave_clear"
      BY <1>2 DEF DropStorages
    <3> QED  BY <2>3, <3>1, <3>2
  <2> QED  BY <1>10, <2>1, <2>2, <2>3 DEF ChunksStep, DestructiveStep
<1> QED  BY <1>5, <1>6, <1>7, <1>8, <1>9, <1>10 DEF Request, Step

\* While another task holds the slot, no scan of t is in its reservation; and no enqueue of t beside
\* a destructive job.
LEMMA BesideHolder ==
  ASSUME NEW t \in Worker, CalmStep(t), NEW u \in Worker \ {t}, task[u].pc \in HoldingPc
  PROVE  /\ task[t].pc \notin HoldingPc /\ ~ At(t, "rollback") /\ ~ At(t, "publish")
         /\ task[u].pc \in DestroyingPc => status.destructive /\ ~ At(t, "writing")
<1>1. /\ Owns(status, u) /\ TaskOK(status, u, task[u]) /\ TaskOK(status, t, task[t]) /\ StatusOK(status)
      /\ Owns(status, t) <=> task[t].pc \in HoldingPc
  BY CalmHolder
<1>2. ~ Owns(status, t) /\ status.busy /\ ~ At(t, "dead") /\ ~ At(u, "dead")
  BY <1>1, CalmHolder DEF Owns, CalmStep, Calm, At
<1>3. Fencing(task[t]) => status.busyOwner.task = t /\ status.scanning
  BY <1>1, <1>2 DEF TaskOK, EntryOK, StatusOK, FlagsOK
<1>4. ~ Fencing(task[t])
  BY <1>2, <1>3 DEF Owns
<1>5. ~ At(t, "rollback") /\ ~ At(t, "publish")
  BY <1>1, <1>4 DEF TaskOK, EntryOK, ScanPc, Fencing, At
<1>6. task[u].pc \in DestroyingPc => status.destructive /\ status.tokens = {}
  BY <1>1, <1>2 DEF TaskOK, SlotOK, StatusOK, FlagsOK, At
<1>7. At(t, "writing") => t \in status.tokens
  BY <1>1, <1>4 DEF TaskOK, EntryOK, Fencing, At
<1> QED  BY <1>1, <1>2, <1>5, <1>6, <1>7

\* What a clear has left.
LEMMA CalmCleared ==
  ASSUME NEW t \in Worker, CalmStep(t), NEW u \in Worker
  PROVE  ClearedOK(task[u])'
<1>1. ClearedOK(task[u])
  BY DEF CalmStep, Calm
<1>2. ~ Fault /\ \A w \in Worker \ {t} : task'[w] = task[w]
  BY CalmFacts
<1>3. RowsInv /\ (Request(t) \/ Step(t)) /\ mailbox \in Channels /\ Reconcile(status, Dead) = status
  BY CalmFacts
<1>4. CASE u # t
  <2> SUFFICES ASSUME task[u].pc \in {"dropping", "leave_clear"}
               PROVE  mailbox'.manual = mailbox.manual /\ row' = row
    BY <1>1, <1>2, <1>4 DEF ClearedOK, Waits, Rows
  <2>1. task[u].pc \in HoldingPc /\ task[u].pc \in DestroyingPc
    BY DEF HoldingPc, DestroyingPc
  <2>2. /\ task[t].pc \notin HoldingPc /\ ~ At(t, "rollback") /\ ~ At(t, "publish")
        /\ status.destructive /\ ~ At(t, "writing")
    BY <1>4, <2>1, BesideHolder
  <2>3. row' = row
    BY <2>2, CalmRows
  <2>4. ~ AckRequest(t) /\ ~ ClearIngress(t) /\ ~ CommitScan(t)
    BY <2>2 DEF AckRequest, ClearIngress, CommitScan, At, HoldingPc, ResetPc, DestroyingPc
  <2>5. CommitRetry(t) => mailbox' = mailbox
    BY <1>3, <2>2 DEF CommitRetry
  <2>6. mailbox'.manual = mailbox.manual
    BY <1>3, <2>4, <2>5, RequestsKept
  <2> QED  BY <2>3, <2>6
<1>5. CASE u = t
  <2>1. CASE ClearIngress(t)
    <3>1. mailbox'.manual = <<>> /\ task'[t].pc = "dropping"
      BY <1>2, <2>1, CalmFacts, GotoLocals DEF ClearIngress, ClearMailbox, EmptyMailbox
    <3> QED  BY <1>5, <3>1 DEF ClearedOK
  <2>2. CASE DropStorages(t)
    <3>1. mailbox' = mailbox /\ row' = [d \in Doc |-> "none"] /\ task[t].pc = "dropping"
      BY <1>2, <2>2 DEF DropStorages, At
    <3>2. Waits' = {}
      BY <3>1 DEF Waits, Rows, Routable
    <3> QED  BY <1>1, <1>5, <3>1, <3>2 DEF ClearedOK
  <2>3. CASE ~ ClearIngress(t) /\ ~ DropStorages(t)
    <3>1. task'[t].pc \notin {"dropping", "leave_clear"}
      BY <2>3, CalmArrivals
    <3> QED  BY <1>5, <3>1 DEF ClearedOK
  <2> QED  BY <2>1, <2>2, <2>3
<1> QED  BY <1>4, <1>5

\* The new document is none of those there are.
LEMMA NewDocNew ==
  ASSUME row \in [Doc -> RowState], NewDoc \in Doc, NEW d \in Doc, row[d] # "none"
  PROVE  d # NewDoc
<1> DEFINE S == Rows(RowState \ {"none"})
<1>1. S \in SUBSET Doc /\ d \in S
  BY DEF Rows
<1>2. NewDoc = Newest(S) + 1
  BY DEF NewDoc
<1> HIDE DEF S
<1>3. d <= Newest(S) /\ Newest(S) \in 0 .. LastDoc
  BY <1>1, NewestOK
<1>4. d \in Int
  BY DEF Doc
<1> HIDE DEF NewDoc
<1> QED  BY <1>2, <1>3, <1>4

\* The steps of a batch.
LEMMA BatchActs ==
  ASSUME NEW t \in Worker, CalmStep(t), At(t, "batch")
  PROVE  FeedDocument(t) \/ EndBatch(t) \/ \E d \in Doc : StartDocument(t, d) \/ FinishDocument(t, d)
<1>1. Request(t) \/ Step(t)
  BY CalmFacts
<1>2. ~ Request(t) /\ ~ EnqueueStep(t)
  BY DEF Request, ReserveSlot, CommitRetry, ReserveScan, AcquireDestructive, AdmitEnqueue, InsertCustomChunks,
         EnqueueStep, StoreRow, ArmAfterFault, LeaveSerializeLock, Publish, ReleaseSlot, At
<1>3. ~ ScanStep(t) /\ ~ ChunksStep(t) /\ ~ DestructiveStep(t)
  BY DEF ScanStep, CommitScan, RefuseScan, RollBackJournals, AcquireForReset, BeginScanDrain,
         ConfirmScanDrain, ReleaseReset, Classify, EndScanClassification, LeaveScan, CheckDeferred,
         ChunksStep, PrepareOperation, ApplyOperation, LeaveSlot, TakeOver, DestructiveStep,
         EndDelete, LeaveDelete, ClearIngress, DropStorages, LeaveClear, DeleteDocument, At
<1>4. DriveStep(t) => FeedDocument(t) \/ EndBatch(t) \/ \E d \in Doc : StartDocument(t, d) \/ FinishDocument(t, d)
  BY DEF DriveStep, AcquireProcessing, PeekRequest, FirstPage, Decide, Top, Validate, Sweep, StartDrain,
         DrainMailbox, Fresh, WaitForEnqueues, ConfirmDrained, EnterExclusiveReset, ResetPage, AckRequest,
         EndManualDrain, Finalize, FinalizeReleased, At
<1> QED  BY <1>1, <1>2, <1>3, <1>4 DEF Step

\* What a step of a document does to its row and to the batch.
LEMMA CalmDocument ==
  ASSUME NEW t \in Worker, CalmStep(t), NEW d \in Doc, StartDocument(t, d) \/ FinishDocument(t, d)
  PROVE  /\ mailbox' = mailbox /\ status' = status /\ At(t, "batch")
         /\ task'[t].pc = "batch" /\ task'[t].routed = task[t].routed /\ task'[t].cursor = task[t].cursor
         /\ \E state \in {"active", "processed", "failed"} :
              /\ row' = [row EXCEPT ![d] = state]
              /\ state = "active" => d \in task[t].docs /\ task'[t].docs = task[t].docs
              /\ task'[t].docs = task[t].docs \/ task'[t].docs = task[t].docs \ {d}
<1>1. task \in [Worker -> TaskState] /\ row \in [Doc -> RowState]
  BY CalmFacts
<1>2. ~ Fault /\ status.cancel = "no"
  BY CalmFacts
<1>3. At(t, "batch") /\ d \in task[t].docs
  BY DEF StartDocument, FinishDocument
<1>4. Owns(status, t)
  BY <1>3, CalmHolder DEF At, HoldingPc, SweepPc
<1>5. /\ mailbox' = mailbox /\ status' = status
      /\ \/ row' = [row EXCEPT ![d] = "active"] /\ task' = task
         \/ \E state \in {"processed", "failed"} :
              row' = [row EXCEPT ![d] = state] /\ task' = [task EXCEPT ![t].docs = @ \ {d}]
  BY <1>2, <1>4 DEF StartDocument, FinishDocument, Finish, WriteRow
<1>6. CASE row' = [row EXCEPT ![d] = "active"] /\ task' = task
  BY <1>3, <1>5, <1>6 DEF At
<1>7. ASSUME NEW state \in {"processed", "failed"},
             row' = [row EXCEPT ![d] = state], task' = [task EXCEPT ![t].docs = @ \ {d}]
      PROVE  /\ task'[t].pc = "batch" /\ task'[t].routed = task[t].routed /\ task'[t].cursor = task[t].cursor
             /\ task'[t].docs = task[t].docs \ {d}
  BY <1>1, <1>3, <1>7 DEF At, TaskState
<1> QED  BY <1>3, <1>5, <1>6, <1>7

\* What a batch has in hand.
LEMMA CalmBatch ==
  ASSUME NEW t \in Worker, CalmStep(t), NEW u \in Worker
  PROVE  BatchOK(task[u])'
<1>1. BatchOK(task[u])
  BY DEF CalmStep, Calm
<1>2. ~ Fault /\ \A w \in Worker \ {t} : task'[w] = task[w]
  BY CalmFacts
<1>3. row \in [Doc -> RowState] /\ task \in [Worker -> TaskState]
  BY CalmFacts
<1>4. CASE u # t
  <2> SUFFICES ASSUME task[u].pc = "batch", NEW d \in task[u].routed PROVE row'[d] = row[d]
    BY <1>1, <1>2, <1>3, <1>4 DEF BatchOK, Waits, Rows
  <2>1. d \in Doc /\ row[d] # "none"
    BY <1>1, <1>3 DEF BatchOK, TaskState
  <2>2. task[t].pc \notin HoldingPc /\ ~ At(t, "rollback")
    BY <1>4, BesideHolder DEF HoldingPc, SweepPc
  <2>3. \/ row' = row
        \/ NewDoc \in Doc /\ row' = [row EXCEPT ![NewDoc] = "pending"]
    BY <2>2, CalmRows
  <2> QED  BY <1>3, <2>1, <2>3, NewDocNew
<1>5. CASE u = t
  <2>1. CASE Validate(t)
    <3> DEFINE docs == task[t].docs \ Unreadable
    <3>1. docs \subseteq Doc
      BY <1>3 DEF TaskState
    <3>2. task'[t].routed = docs /\ task'[t].docs = docs
      BY <1>2, <1>3, <2>1 DEF Validate, TaskState
    <3>3. \A d \in docs : row'[d] = "pending"
      BY <1>2, <2>1, <3>1 DEF Validate
    <3> QED  BY <1>5, <3>2, <3>3 DEF BatchOK
  <2>2. CASE FeedDocument(t)
    <3> DEFINE d == Head(mailbox.documents)
    <3>1. row' = row /\ task[t].pc = "batch"
      BY <2>2 DEF FeedDocument, At
    <3>2. \/ task'[t].routed = task[t].routed /\ task'[t].docs = task[t].docs
          \/ /\ task'[t].routed = task[t].routed \cup {d} /\ task'[t].docs = task[t].docs \cup {d}
             /\ row[d] = "pending"
      BY <1>3, <2>2 DEF FeedDocument, Route, TaskState
    <3> HIDE DEF d
    <3> QED  BY <1>1, <1>5, <3>1, <3>2 DEF BatchOK, Waits, Rows
  <2>3. ASSUME NEW d \in Doc, StartDocument(t, d) \/ FinishDocument(t, d)
        PROVE  BatchOK(task[u])'
    <3>1. /\ task'[t].routed = task[t].routed /\ task[t].pc = "batch"
          /\ \E state \in {"active", "processed", "failed"} :
              /\ row' = [row EXCEPT ![d] = state]
              /\ state = "active" => d \in task[t].docs /\ task'[t].docs = task[t].docs
              /\ task'[t].docs = task[t].docs \/ task'[t].docs = task[t].docs \ {d}
      BY <2>3, CalmDocument DEF At
    <3>2. ASSUME NEW e \in task[t].routed PROVE row'[e] # "none" /\ (e \in Waits' => e \in task'[t].docs)
      <4>1. e \in Doc /\ row[e] # "none" /\ (e \in Waits => e \in task[t].docs)
        BY <1>1, <1>3, <1>5, <3>1, <3>2 DEF BatchOK, TaskState
      <4> QED  BY <1>3, <3>1, <4>1 DEF Waits, Rows, Routable
    <3> QED  BY <1>5, <3>1, <3>2 DEF BatchOK
  <2>4. CASE task'[t].pc # "batch"
    BY <1>5, <2>4 DEF BatchOK
  <2> QED  BY <2>1, <2>2, <2>3, <2>4, CalmArrivals
<1> QED  BY <1>4, <1>5

\* What the holder of the slot does, outside a scan.
LEMMA HolderActs ==
  ASSUME NEW t \in Worker, CalmStep(t), task[t].pc \in HoldingPc
  PROVE  \/ DriveStep(t) \/ ChunksStep(t) \/ DestructiveStep(t)
         \/ BeginScanDrain(t) \/ ConfirmScanDrain(t) \/ ReleaseReset(t)
<1>1. Request(t) \/ Step(t)
  BY CalmFacts
<1>2. task[t].pc \notin {"new", "reserved", "enqueue"}
  BY DEF HoldingPc, DestroyingPc, ChunksPc, SweepPc, ResetPc
<1>3. ~ Request(t)
  BY <1>2 DEF Request, ReserveSlot, CommitRetry, ReserveScan, AcquireDestructive, AdmitEnqueue,
              InsertCustomChunks, At
<1>4. ~ EnqueueStep(t)
  BY DEF EnqueueStep, StoreRow, ArmAfterFault, LeaveSerializeLock, Publish, ReleaseSlot, AdmitEnqueue, At,
         HoldingPc, DestroyingPc, ChunksPc, SweepPc, ResetPc
<1>5. ScanStep(t) => BeginScanDrain(t) \/ ConfirmScanDrain(t) \/ ReleaseReset(t)
  BY DEF ScanStep, CommitScan, RefuseScan, RollBackJournals, AcquireForReset, Classify, EndScanClassification,
         LeaveScan, CheckDeferred, At, HoldingPc, DestroyingPc, ChunksPc, SweepPc, ResetPc
<1> QED  BY <1>1, <1>3, <1>4, <1>5 DEF Step

\* A row is taken up by a batch alone.
LEMMA CalmActive ==
  ASSUME NEW t \in Worker, CalmStep(t), NEW d \in Doc, row'[d] = "active", row[d] # "active"
  PROVE  task'[t].pc = "batch" /\ d \in task'[t].docs
<1>1. ~ Fault /\ row \in [Doc -> RowState] /\ status.cancel = "no"
  BY CalmFacts
<1>2. row' # row
  OBVIOUS
<1>3. CASE task[t].pc \notin HoldingPc
  BY <1>1, <1>2, <1>3, CalmRows
<1>4. CASE DriveStep(t)
  <2>1. \/ Validate(t) \/ ResetPage(t) \/ \E e \in Doc : StartDocument(t, e) \/ FinishDocument(t, e)
    BY <1>2, <1>4 DEF DriveStep, AcquireProcessing, PeekRequest, FirstPage, Decide, Top, FeedDocument, EndBatch,
                      Sweep, StartDrain, DrainMailbox, Fresh, WaitForEnqueues, ConfirmDrained,
                      EnterExclusiveReset, AckRequest, EndManualDrain, Finalize, FinalizeReleased
  <2>2. CASE Validate(t) \/ ResetPage(t)
    BY <1>1, <2>2 DEF Validate, ResetPage
  <2>3. ASSUME NEW e \in Doc, StartDocument(t, e) \/ FinishDocument(t, e)
        PROVE  task'[t].pc = "batch" /\ d \in task'[t].docs
    BY <1>1, <2>3, CalmDocument
  <2> QED  BY <2>1, <2>2, <2>3
<1>5. CASE ChunksStep(t) \/ DestructiveStep(t)
  BY <1>1, <1>2, <1>5 DEF ChunksStep, PrepareOperation, ApplyOperation, LeaveSlot, TakeOver, DestructiveStep,
                    EndDelete, LeaveDelete, ClearIngress, DropStorages, LeaveClear, DeleteDocument, Journaled
<1>6. CASE BeginScanDrain(t) \/ ConfirmScanDrain(t) \/ ReleaseReset(t)
  BY <1>2, <1>6 DEF BeginScanDrain, ConfirmScanDrain, ReleaseReset
<1> QED  BY <1>3, <1>4, <1>5, <1>6, HolderActs

\* What a batch has begun it keeps in hand until it is done.
LEMMA CalmBegun ==
  ASSUME NEW t \in Worker, CalmStep(t)
  PROVE  Begun'
<1>1. row \in [Doc -> RowState] /\ task \in [Worker -> TaskState] /\ ~ Fault
  BY CalmFacts
<1>2. \A w \in Worker \ {t} : task'[w] = task[w]
  BY CalmFacts
<1>3. ASSUME NEW d \in Doc \ Unreadable, row'[d] = "active"
      PROVE  \E u \in Worker : task'[u].pc = "batch" /\ d \in task'[u].docs
  <2>1. CASE row[d] # "active"
    BY <1>3, <2>1, CalmActive
  <2>2. CASE row[d] = "active"
    <3>1. PICK u \in Worker : task[u].pc = "batch" /\ d \in task[u].docs
      BY <2>2 DEF CalmStep, Calm, Begun, Waits, Rows, Routable, At
    <3>2. CASE u # t
      BY <1>2, <3>1, <3>2
    <3>3. CASE u = t
      <4>1. CASE FeedDocument(t)
        <5>1. \/ task'[t].pc = "batch" /\ task'[t].docs = task[t].docs
              \/ task'[t].pc = "batch" /\ task'[t].docs = task[t].docs \cup {Head(mailbox.documents)}
          BY <1>1, <3>1, <3>3, <4>1 DEF FeedDocument, Route, TaskState
        <5> QED  BY <3>1, <3>3, <5>1
      <4>2. CASE EndBatch(t)
        BY <1>1, <3>1, <3>3, <4>2 DEF EndBatch
      <4>3. ASSUME NEW e \in Doc, StartDocument(t, e) \/ FinishDocument(t, e)
            PROVE  task'[t].pc = "batch" /\ d \in task'[t].docs
        <5>1. /\ task'[t].pc = "batch"
              /\ \E state \in {"active", "processed", "failed"} :
                   /\ row' = [row EXCEPT ![e] = state]
                   /\ state = "active" => task'[t].docs = task[t].docs
                   /\ task'[t].docs = task[t].docs \/ task'[t].docs = task[t].docs \ {e}
          BY <4>3, CalmDocument
        <5> QED  BY <1>1, <1>3, <3>1, <3>3, <5>1
      <4> QED  BY <3>1, <3>3, <4>1, <4>2, <4>3, BatchActs DEF At
    <3> QED  BY <3>2, <3>3
  <2> QED  BY <2>1, <2>2
<1>4. \A d \in Waits' : d \in Doc \ Unreadable
  BY DEF Waits, Rows
<1> QED  BY <1>3, <1>4 DEF Begun, At

-----------------------------------------------------------------------------
(* 24. Who comes for the slot.                                              *)

\* Who is on its way stays on it, until it has got there or has told the holder.
LEMMA CalmComing ==
  ASSUME NEW t \in Worker, CalmStep(t), Coming(task[t]), ~ AcquireProcessing(t)
  PROVE  Coming(task'[t])
<1>1. Fit(t, task'[t].pc)
  BY CalmPlaces
<1>2. task \in [Worker -> TaskState] /\ (Request(t) \/ Step(t)) /\ ~ Fault
  BY CalmFacts
<1>3. TaskOK(status, t, task[t])
  BY CalmHolder
<1>4. CASE EndScanClassification(t)
  BY <1>2, <1>4 DEF EndScanClassification, Coming, TaskState
<1>5. CASE CheckDeferred(t)
  <2>1. InReset(t)
    BY <1>5 DEF CheckDeferred, At, Coming, InReset
  <2> QED  BY <1>2, <1>5, <2>1 DEF CheckDeferred, Coming, TaskState
<1>6. CASE ~ EndScanClassification(t) /\ ~ CheckDeferred(t)
  <2>1. task'[t].stage = task[t].stage
    BY <1>2, <1>6, StageKept
  <2>2. CASE task[t].stage = "reset"
    <3>1. task[t].pc # "check_deferred"
      <4>1. ASSUME At(t, "check_deferred") PROVE FALSE
        <5>1. ~ Request(t) /\ ~ EnqueueStep(t)
          BY <4>1 DEF Request, ReserveSlot, CommitRetry, ReserveScan, AcquireDestructive, AdmitEnqueue,
                 InsertCustomChunks, EnqueueStep, StoreRow, ArmAfterFault, LeaveSerializeLock, Publish,
                 ReleaseSlot, At
        <5>2. ~ ScanStep(t) /\ ~ ChunksStep(t) /\ ~ DestructiveStep(t)
          BY <1>6, <4>1
             DEF ScanStep, CommitScan, RefuseScan, RollBackJournals, AcquireForReset, BeginScanDrain,
                 ConfirmScanDrain, ReleaseReset, Classify, LeaveScan,
                 ChunksStep, PrepareOperation, ApplyOperation, LeaveSlot, TakeOver, DestructiveStep,
                 EndDelete, LeaveDelete, ClearIngress, DropStorages, LeaveClear, DeleteDocument, At
        <5>3. ~ DriveStep(t)
          BY <4>1
             DEF DriveStep, AcquireProcessing, PeekRequest, FirstPage, Decide, Top, Validate, FeedDocument,
                 EndBatch, StartDocument, FinishDocument, Sweep, StartDrain,
                 DrainMailbox, Fresh, WaitForEnqueues, ConfirmDrained, EnterExclusiveReset, ResetPage,
                 AckRequest, EndManualDrain, Finalize, FinalizeReleased, At
        <5> QED  BY <1>2, <5>1, <5>2, <5>3 DEF Step
      <4> QED  BY <4>1 DEF At
    <3>2. task'[t].pc \notin {"new", "refused", "dead", "done"}
      BY <1>1, <2>2, <3>1 DEF Fit, Coming
    <3> QED  BY <2>1, <2>2, <3>2 DEF Coming
  <2>3. CASE task[t].stage # "reset"
    <3>1. task[t].pc \in {"stored", "publishing", "acquire"}
      BY <2>3 DEF Coming
    <3>2. LeaveSerializeLock(t) \/ Publish(t)
      <4>1. ~ Request(t)
        BY <3>1 DEF Request, ReserveSlot, CommitRetry, ReserveScan, AcquireDestructive, AdmitEnqueue,
               InsertCustomChunks, At
      <4>2. ~ ScanStep(t) /\ ~ ChunksStep(t) /\ ~ DestructiveStep(t)
        BY <3>1
           DEF ScanStep, CommitScan, RefuseScan, RollBackJournals, AcquireForReset, BeginScanDrain,
               ConfirmScanDrain, ReleaseReset, Classify, EndScanClassification, LeaveScan, CheckDeferred,
               ChunksStep, PrepareOperation, ApplyOperation, LeaveSlot, TakeOver, DestructiveStep,
               EndDelete, LeaveDelete, ClearIngress, DropStorages, LeaveClear, DeleteDocument, At
      <4>3. ~ DriveStep(t)
        BY <3>1
           DEF DriveStep, PeekRequest, FirstPage, Decide, Top, Validate, FeedDocument,
               EndBatch, StartDocument, FinishDocument, Sweep, StartDrain,
               DrainMailbox, Fresh, WaitForEnqueues, ConfirmDrained, EnterExclusiveReset, ResetPage,
               AckRequest, EndManualDrain, Finalize, FinalizeReleased, At
      <4>4. EnqueueStep(t) => LeaveSerializeLock(t) \/ Publish(t)
        BY <3>1 DEF EnqueueStep, StoreRow, ArmAfterFault, ReleaseSlot, AdmitEnqueue, At
      <4> QED  BY <1>2, <4>1, <4>2, <4>3, <4>4 DEF Step
    <3>3. CASE LeaveSerializeLock(t)
      <4>1. At(t, "stored") /\ Goto(t, "publishing")
        BY <3>1, <3>3 DEF LeaveSerializeLock, At
      <4> QED  BY <1>2, <4>1, GotoLocals DEF Coming
    <3>4. CASE Publish(t)
      <4>1. t \notin Scans
        BY <1>3, <2>3, <3>4 DEF Publish, At, TaskOK, EntryOK
      <4>2. task'[t].pc = "acquire"
        BY <1>2, <3>4, <4>1 DEF Publish, TaskState
      <4> QED  BY <4>2 DEF Coming
    <3> QED  BY <3>2, <3>3, <3>4
  <2> QED  BY <2>2, <2>3
<1> QED  BY <1>4, <1>5, <1>6

\* A drive that asks for the slot takes it, or leaves the rest to whoever has it or will.
LEMMA CalmAcquire ==
  ASSUME NEW t \in Worker, CalmStep(t), AcquireProcessing(t)
  PROVE  RowsMet' /\ AskedMet'
<1>1. ~ Fenced(status) /\ Reconcile(status, Dead) = status /\ At(t, "acquire")
  BY CalmFacts DEF AcquireProcessing
<1>2. /\ task \in [Worker -> TaskState] /\ mailbox \in Channels
      /\ \A w \in Worker \ {t} : task'[w] = task[w]
  BY CalmFacts
<1>3. CASE status.exclusive
  <2>1. PICK u \in Worker : status.scanOwner = u /\ task[u].stage = "reset"
    BY <1>3 DEF CalmStep, Calm, FenceMet
  <2>2. TaskOK(status, u, task[u])
    BY CalmHolder
  <2>3. task[u].pc \notin {"new", "refused", "done", "dead"}
    BY <1>3, <2>1, <2>2 DEF TaskOK, EntryOK, Fencing, CalmStep, Calm
  <2>4. Coming(task'[u])
    <3>1. CASE u # t
      BY <1>2, <2>1, <2>3, <3>1 DEF Coming
    <3>2. CASE u = t
      <4>1. task'[t].pc \notin {"new", "refused", "done", "dead"}
        BY <1>1, <2>1, <3>2, CalmPlaces DEF Fit, At
      <4>2. ~ EndScanClassification(t) /\ ~ CheckDeferred(t)
        BY <1>1 DEF EndScanClassification, CheckDeferred, At
      <4>3. task'[t].stage = "reset"
        BY <1>2, <2>1, <3>2, <4>2, CalmFacts, StageKept
      <4> QED  BY <3>2, <4>1, <4>3 DEF Coming
    <3> QED  BY <3>1, <3>2
  <2> QED  BY <2>4 DEF RowsMet, AskedMet
<1>4. CASE ~ status.exclusive /\ status.busy
  <2>1. PICK w \in Worker : task[w].pc \in HoldingPc
    BY <1>4, CalmHolder
  <2>2. w # t
    BY <1>1, <2>1 DEF At, HoldingPc, DestroyingPc, ChunksPc, SweepPc, ResetPc
  <2>3. mailbox' = RequestAutoRescan(mailbox)
    BY <1>1, <1>4 DEF AcquireProcessing
  <2>4. mailbox'.auto
    BY <1>2, <2>3, ConsumeKeeps
  <2>5. task'[w].pc \in HoldingPc
    BY <1>2, <2>1, <2>2
  <2> QED  BY <2>4, <2>5 DEF RowsMet, AskedMet, Ahead, Announced
<1>5. CASE ~ status.exclusive /\ ~ status.busy
  <2>1. Goto(t, "peek")
    BY <1>1, <1>5 DEF AcquireProcessing
  <2>2. task'[t].pc = "peek"
    BY <1>2, <2>1, GotoLocals
  <2>3. "peek" \in HoldingPc /\ "peek" \in Rereads
    BY DEF HoldingPc, SweepPc, Rereads
  <2> QED  BY <2>2, <2>3 DEF RowsMet, AskedMet, Ahead
<1> QED  BY <1>3, <1>4, <1>5

\* A task that does not hold the slot takes nothing from those who come, and comes for what it adds.
LEMMA CalmOutside ==
  ASSUME NEW t \in Worker, CalmStep(t), task[t].pc \notin HoldingPc, ~ AcquireProcessing(t)
  PROVE  RowsMet' /\ AskedMet'
<1>1. Coming(task[t]) => Coming(task'[t])
  BY CalmComing
<1>2. \A u \in Worker \ {t} : task'[u] = task[u]
  BY CalmFacts
<1>3. status'.phase = status.phase
  BY CalmPhase
<1>4. \A d : Announced(mailbox, d) => Announced(mailbox', d)
  BY CalmTold
<1>5. row \in [Doc -> RowState] /\ task \in [Worker -> TaskState] /\ ~ Fault
  BY CalmFacts
<1>6. ASSUME NEW u \in Worker, NEW d, Coming(task[u]) \/ Ahead(task[u], d)
      PROVE  Coming(task'[u]) \/ Ahead(task[u], d)'
  <2>1. CASE u = t
    BY <1>1, <1>6, <2>1 DEF Ahead
  <2>2. CASE u # t
    <3>1. task'[u] = task[u]
      BY <1>2, <2>2
    <3> QED  BY <1>3, <1>4, <1>6, <3>1 DEF Ahead
  <2> QED  BY <2>1, <2>2
<1>7. ASSUME NEW d \in Waits'
      PROVE  \E u \in Worker : Coming(task'[u]) \/ Ahead(task[u], d)'
  <2>1. CASE d \in Waits
    BY <1>6, <2>1 DEF CalmStep, Calm, RowsMet
  <2>2. CASE d \notin Waits
    <3>1. d \in Doc /\ row'[d] \in Routable /\ row[d] \notin Routable
      BY <2>2, <1>7 DEF Waits, Rows
    <3>2. task'[t].pc = "stored"
      BY <1>5, <3>1, CalmRows DEF Routable
    <3> QED  BY <3>2 DEF Coming
  <2> QED  BY <2>1, <2>2
<1>8. ASSUME mailbox'.manual # <<>>
      PROVE  \E u \in Worker : Coming(task'[u]) \/ task'[u].pc \in HoldingPc
  <2>1. CASE mailbox.manual # <<>>
    <3>1. PICK u \in Worker : Coming(task[u]) \/ task[u].pc \in HoldingPc
      BY <2>1 DEF CalmStep, Calm, AskedMet
    <3> QED  BY <1>1, <1>2, <3>1
  <2>2. CASE mailbox.manual = <<>>
    <3>1. ~ AckRequest(t) /\ ~ ClearIngress(t)
      BY DEF AckRequest, ClearIngress, At, HoldingPc, ResetPc, DestroyingPc
    <3>2. CommitRetry(t) \/ CommitScan(t)
      BY <1>8, <2>2, <3>1, CalmFacts, RequestsKept
    <3>3. TaskOK(status, t, task[t])
      BY CalmHolder
    <3>4. t \in Retries \cup Scans /\ task[t].pc \in {"new", "publish"}
      BY <3>2, <3>3 DEF CommitRetry, CommitScan, At, TaskOK, EntryOK, ScanPc
    <3>5. PublishResult(mailbox, t) = "accepted"
      BY <3>4, RequestAccepted
    <3>6. CASE CommitRetry(t)
      <4>1. Goto(t, "acquire")
        BY <1>8, <2>2, <3>5, <3>6 DEF CommitRetry
      <4> QED  BY <1>5, <4>1, GotoLocals DEF Coming
    <3>7. CASE CommitScan(t)
      <4>1. Goto(t, "rollback") /\ task[t].stage = "reset"
        BY <1>5, <3>3, <3>5, <3>7 DEF CommitScan, At, TaskOK, EntryOK, ScanPc
      <4>2. task'[t].pc = "rollback" /\ task'[t].stage = task[t].stage
        BY <1>5, <4>1, GotoLocals
      <4> QED  BY <4>1, <4>2 DEF Coming
    <3> QED  BY <3>2, <3>6, <3>7
  <2> QED  BY <2>1, <2>2
<1> QED  BY <1>7, <1>8 DEF RowsMet, AskedMet

-----------------------------------------------------------------------------
(* 25. What the holder of the slot has read, and what it will.              *)

\* The holder of the slot, outside a scan, is the one all rows wait for.
Handed(t) == /\ CalmStep(t) /\ task[t].pc \in HoldingPc /\ task[t].stage # "reset"
             /\ \A d \in Waits : Ahead(task[t], d)

\* It goes on, comes back, or leaves nothing.
Passed(t) == \/ Coming(task'[t])
             \/ Waits' = {} /\ mailbox'.manual = <<>>
             \/ task'[t].pc \in HoldingPc /\ \A d \in Waits' : Ahead(task[t], d)'

\* What is known of the holder.
LEMMA HandedFacts ==
  ASSUME NEW t \in Worker, Handed(t)
  PROVE  /\ CalmStep(t) /\ TaskOK(status, t, task[t]) /\ StatusOK(status) /\ Owns(status, t)
         /\ task \in [Worker -> TaskState] /\ row \in [Doc -> RowState] /\ mailbox \in Channels
         /\ task[t] \in TaskState /\ ~ Fault /\ status.cancel = "no" /\ ~ Fenced(status')
         /\ Reconcile(status, Dead) = status /\ ~ Fenced(status) /\ status \in Status
         /\ status.phase = "drain" => status.busyOwner.kind = "processing"
<1>1. CalmStep(t) /\ task[t].pc \in HoldingPc
  BY DEF Handed
<1>2. TaskOK(status, t, task[t]) /\ StatusOK(status) /\ Owns(status, t)
  BY <1>1, CalmHolder
<1>3. status.phase = "drain" => status.busyOwner.kind = "processing"
  BY <1>2 DEF StatusOK, FlagsOK
<1>4. task \in [Worker -> TaskState] /\ row \in [Doc -> RowState] /\ mailbox \in Channels
  BY <1>1, CalmFacts
<1>5. ~ Fault /\ status.cancel = "no" /\ ~ Fenced(status') /\ Reconcile(status, Dead) = status
      /\ ~ Fenced(status) /\ status \in Status
  BY <1>1, CalmFacts
<1> QED  BY <1>1, <1>2, <1>3, <1>4, <1>5

\* Whoever reads all rows again has nothing to fear, nor has a drain.
LEMMA PassedOn ==
  ASSUME NEW t \in Worker,
         task'[t].pc \in Rereads \/ (task'[t].pc \in HoldingPc /\ status'.phase = "drain")
  PROVE  Passed(t)
<1>1. Rereads \subseteq HoldingPc
  BY DEF Rereads, HoldingPc, DestroyingPc, ChunksPc, SweepPc, ResetPc
<1> QED  BY <1>1 DEF Passed, Ahead

\* A page leaves no row behind its cursor.
LEMMA PageAhead ==
  ASSUME NEW c \in Nat, NEW d \in Waits, d > c
  PROVE  d \in SchedulingPage(c).docs \/ d > SchedulingPage(c).next
<1> DEFINE S == Newer(Rows(AutoStates), c)
<1>1. S \in SUBSET Doc /\ d \in S /\ d \in Rows(Routable) /\ d \in Int
  BY DEF Newer, Rows, Waits, AutoStates, Routable, Doc
<1>2. /\ SchedulingPage(c).docs = FirstOf(S) \cap Rows(Routable)
      /\ SchedulingPage(c).next = CursorAfter(FirstOf(S))
  BY DEF SchedulingPage, Page
<1> HIDE DEF S
<1>3. /\ CursorAfter(FirstOf(S)) \in Start .. End
      /\ d <= CursorAfter(FirstOf(S)) => d \in FirstOf(S)
  BY <1>1, CursorOK
<1>4. CursorAfter(FirstOf(S)) \in Int
  BY <1>3 DEF Start, End
<1> QED  BY <1>1, <1>2, <1>3, <1>4

\* A sweep goes on to its next page, or begins with the first.
LEMMA PassPage ==
  ASSUME NEW t \in Worker, Handed(t), FirstPage(t) \/ Fresh(t) \/ Sweep(t)
  PROVE  Passed(t)
<1>1. task \in [Worker -> TaskState] /\ ~ Fault
  BY HandedFacts
<1> DEFINE c == IF Sweep(t) THEN task[t].cursor ELSE Start
<1>2. PICK l \in {"entry", "top"} :
        /\ Take(t, SchedulingPage(c), l) /\ (l = "entry" => SchedulingPage(c).docs = {})
        /\ status' = status /\ mailbox' = mailbox /\ row' = row
        /\ task[t].pc \in {"first_page", "fresh", "sweep"} /\ (task[t].pc = "sweep" <=> Sweep(t))
  BY <1>1 DEF FirstPage, Fresh, Sweep, At
<1>3. c \in Nat
  BY <1>1 DEF TaskState, Start, End, DocAssumption
<1> HIDE DEF c
<1>4. task'[t].pc = l /\ task'[t].docs = SchedulingPage(c).docs /\ task'[t].cursor = SchedulingPage(c).next
  BY <1>1, <1>2, TakeLocals
<1>5. Waits' = Waits
  BY <1>2 DEF Waits, Rows
<1>6. l \in HoldingPc
  BY DEF HoldingPc, SweepPc
<1>7. ASSUME NEW d \in Waits PROVE Ahead(task[t], d)'
  <2>1. d \in Int /\ d > Start
    BY DEF Waits, Rows, Doc, Start
  <2>2. d > c \/ status.phase = "drain" \/ Announced(mailbox, d)
    <3>1. CASE Sweep(t)
      <4>1. Ahead(task[t], d) /\ task[t].pc = "sweep"
        BY <1>2, <3>1 DEF Handed
      <4> QED  BY <3>1, <4>1 DEF Ahead, Rereads, c
    <3>2. CASE ~ Sweep(t)
      BY <2>1, <3>2 DEF c
    <3> QED  BY <3>1, <3>2
  <2>3. d > c => d \in task'[t].docs \/ d > task'[t].cursor
    BY <1>3, <1>4, PageAhead
  <2> QED  BY <1>2, <1>4, <1>6, <2>2, <2>3 DEF Ahead
<1> QED  BY <1>4, <1>5, <1>6, <1>7 DEF Passed

\* The decision goes on while there is anything to read, and gives the slot up when there is nothing.
LEMMA PassDecide ==
  ASSUME NEW t \in Worker, Handed(t), Decide(t)
  PROVE  Passed(t)
<1>1. task \in [Worker -> TaskState] /\ status.cancel = "no" /\ mailbox \in Channels
  BY HandedFacts
<1>2. row' = row /\ task[t].pc \in {"entry", "decide"}
  BY DEF Decide, At
<1>3. Waits' = Waits
  BY <1>2 DEF Waits, Rows
<1>4. \A l : Goto(t, l) => task'[t].pc = l /\ task'[t].cursor = task[t].cursor
  BY <1>1, GotoLocals
<1>5. CASE status.phase = "drain"
  <2>1. status' = status /\ task'[t].pc \in {"sweep", "fresh", "drain_mailbox", "confirm", "wait"}
    BY <1>1, <1>4, <1>5 DEF Decide, DecideDraining, Continue, ContinueAuto, ContinueDocument, TaskState
  <2>2. task'[t].pc \in HoldingPc
    BY <2>1 DEF HoldingPc, SweepPc
  <2> QED  BY <1>5, <2>1, <2>2, PassedOn
<1>6. CASE status.phase # "drain"
  <2>1. DecideIdle(t)
    BY <1>1, <1>6 DEF Decide
  <2>2. \A d \in Waits : Announced(mailbox, d) \/ d > task[t].cursor
    BY <1>2, <1>6 DEF Handed, Ahead, Rereads
  <2>3. CASE Continue(t, "manual") \/ ContinueAuto(t) \/ ContinueDocument(t)
    <3>1. task'[t].pc \in {"manual", "fresh", "drain_mailbox"}
      BY <1>1, <1>4, <2>3 DEF Continue, ContinueAuto, ContinueDocument, TaskState
    <3>2. task'[t].pc \in Rereads
      BY <3>1 DEF Rereads
    <3> QED  BY <3>2, PassedOn
  <2>4. CASE Continue(t, "sweep")
    <3>1. task'[t].pc = "sweep" /\ task'[t].cursor = task[t].cursor /\ mailbox' = mailbox
      BY <1>4, <2>4 DEF Continue
    <3>2. "sweep" \in HoldingPc
      BY DEF HoldingPc, SweepPc
    <3> QED  BY <1>3, <2>2, <3>1, <3>2 DEF Passed, Ahead
  <2>5. CASE /\ mailbox.manual = <<>> /\ ~ mailbox.auto /\ mailbox.documents = <<>>
             /\ task[t].cursor = End /\ Released(t)
    <3>1. ASSUME NEW d \in Waits PROVE FALSE
      <4>1. ~ (d > End)
        BY DocAssumption DEF Waits, Rows, Doc, End
      <4>2. ~ Announced(mailbox, d)
        <5>1. DOMAIN mailbox.documents = {}
          BY <2>5
        <5> QED  BY <2>5, <5>1 DEF Announced, Occurs
      <4> QED  BY <2>2, <2>5, <4>1, <4>2
    <3>2. mailbox' = mailbox
      BY <2>5 DEF Released
    <3> QED  BY <1>3, <2>5, <3>1, <3>2 DEF Passed
  <2> QED  BY <2>1, <2>3, <2>4, <2>5 DEF DecideIdle, ManualWaiting
<1> QED  BY <1>5, <1>6

\* The top of the loop, and the wait for enqueues, keep what is in hand and beyond the cursor.
LEMMA PassTop ==
  ASSUME NEW t \in Worker, Handed(t), Top(t) \/ WaitForEnqueues(t)
  PROVE  Passed(t)
<1>1. task \in [Worker -> TaskState] /\ status.cancel = "no" /\ Reconcile(status, Dead) = status
  BY HandedFacts
<1>2. /\ status' = status /\ mailbox' = mailbox /\ row' = row
      /\ \/ At(t, "top") /\ task[t].docs = {} /\ Goto(t, "decide")
         \/ At(t, "top") /\ Goto(t, "validate")
         \/ At(t, "wait") /\ Goto(t, "top")
  BY <1>1 DEF Top, WaitForEnqueues
<1>3. Waits' = Waits
  BY <1>2 DEF Waits, Rows
<1>4. \A l : Goto(t, l) => task'[t].pc = l /\ task'[t].cursor = task[t].cursor /\ task'[t].docs = task[t].docs
  BY <1>1, GotoLocals
<1>5. task'[t].pc \in {"decide", "validate", "top"}
  BY <1>2, <1>4
<1>6. task'[t].pc \in HoldingPc
  BY <1>5 DEF HoldingPc, SweepPc
<1>7. ASSUME NEW d \in Waits PROVE Ahead(task[t], d)'
  <2>1. Ahead(task[t], d)
    BY DEF Handed
  <2>2. status.phase = "drain" \/ Announced(mailbox, d) \/ d > task[t].cursor
        \/ (task'[t].pc = "validate" /\ d \in task[t].docs)
    BY <1>2, <1>4, <2>1 DEF Ahead, At, Rereads
  <2> QED  BY <1>2, <1>4, <1>5, <1>6, <2>2 DEF Ahead
<1> QED  BY <1>3, <1>6, <1>7 DEF Passed

\* The validator takes all it finds into the batch.
LEMMA PassValidate ==
  ASSUME NEW t \in Worker, Handed(t), Validate(t)
  PROVE  Passed(t)
<1> DEFINE docs == task[t].docs \ Unreadable
<1>1. task \in [Worker -> TaskState] /\ ~ Fault
  BY HandedFacts
<1>2. /\ status' = status /\ mailbox' = mailbox /\ At(t, "validate")
      /\ \A d \in Doc \ task[t].docs : row'[d] = row[d]
      /\ task' = [task EXCEPT ![t].docs = docs, ![t].wake = "none", ![t].routed = docs,
                              ![t].pc = IF docs = {} THEN "decide" ELSE "batch"]
  BY <1>1 DEF Validate
<1>3. /\ task'[t].docs = docs /\ task'[t].cursor = task[t].cursor
      /\ task'[t].pc = IF docs = {} THEN "decide" ELSE "batch"
  <2> HIDE DEF docs
  <2> QED  BY <1>1, <1>2 DEF TaskState
<1>4. task'[t].pc \in HoldingPc
  BY <1>3 DEF HoldingPc, SweepPc
<1>5. ASSUME NEW d \in Waits' PROVE Ahead(task[t], d)'
  <2>1. d \in Doc \ Unreadable
    BY DEF Waits, Rows
  <2>2. CASE d \in task[t].docs
    <3>1. d \in task'[t].docs /\ task'[t].pc = "batch"
      BY <1>3, <2>1, <2>2
    <3> QED  BY <1>4, <3>1 DEF Ahead
  <2>3. CASE d \notin task[t].docs
    <3>1. d \in Waits
      BY <1>2, <1>5, <2>1, <2>3 DEF Waits, Rows
    <3>2. Ahead(task[t], d)
      BY <3>1 DEF Handed
    <3>3. status.phase = "drain" \/ Announced(mailbox, d) \/ d > task[t].cursor
      BY <1>2, <2>3, <3>2 DEF Ahead, Rereads, At
    <3>4. task'[t].pc \in {"decide", "batch"}
      BY <1>3
    <3> HIDE DEF docs
    <3> QED  BY <1>2, <1>3, <1>4, <3>3, <3>4 DEF Ahead
  <2> QED  BY <2>2, <2>3
<1> QED  BY <1>4, <1>5 DEF Passed

\* A document ends, or is taken up and stays in hand.
LEMMA PassDocument ==
  ASSUME NEW t \in Worker, Handed(t), NEW e \in Doc, StartDocument(t, e) \/ FinishDocument(t, e)
  PROVE  Passed(t)
<1>1. CalmStep(t) /\ row \in [Doc -> RowState]
  BY HandedFacts
<1>2. /\ mailbox' = mailbox /\ status' = status /\ task[t].pc = "batch"
      /\ task'[t].pc = "batch" /\ task'[t].cursor = task[t].cursor
  BY <1>1, CalmDocument DEF At
<1>3. PICK state \in {"active", "processed", "failed"} :
        /\ row' = [row EXCEPT ![e] = state]
        /\ state = "active" => e \in task[t].docs /\ task'[t].docs = task[t].docs
        /\ task'[t].docs = task[t].docs \/ task'[t].docs = task[t].docs \ {e}
  BY <1>1, CalmDocument
<1>4. task'[t].pc \in HoldingPc
  BY <1>2 DEF HoldingPc, SweepPc
<1>5. ASSUME NEW d \in Waits' PROVE Ahead(task[t], d)'
  <2>1. d \in Doc \ Unreadable /\ row'[d] \in Routable
    BY DEF Waits, Rows
  <2>2. CASE d = e
    <3>1. state = "active"
      BY <1>1, <1>3, <2>1, <2>2 DEF Routable
    <3>2. d \in task'[t].docs
      BY <1>3, <2>2, <3>1
    <3> QED  BY <1>2, <1>4, <3>2 DEF Ahead
  <2>3. CASE d # e
    <3>1. d \in Waits
      BY <1>1, <1>3, <2>1, <2>3 DEF Waits, Rows
    <3>2. Ahead(task[t], d)
      BY <3>1 DEF Handed
    <3>3. status.phase = "drain" \/ Announced(mailbox, d) \/ d > task[t].cursor \/ d \in task'[t].docs
      BY <1>2, <1>3, <2>3, <3>2 DEF Ahead, Rereads
    <3> QED  BY <1>2, <1>4, <3>3 DEF Ahead
  <2> QED  BY <2>2, <2>3
<1> QED  BY <1>4, <1>5 DEF Passed

\* The feeder takes off the mailbox what the batch has had, takes in, or cannot read.
LEMMA PassFeed ==
  ASSUME NEW t \in Worker, Handed(t), FeedDocument(t)
  PROVE  Passed(t)
<1> DEFINE h == Head(mailbox.documents)
           n == NextDocumentTaken(mailbox)
<1>1. task \in [Worker -> TaskState] /\ mailbox \in Channels /\ CalmStep(t)
  BY HandedFacts
<1>2. /\ status' = status /\ row' = row /\ task[t].pc = "batch" /\ mailbox.documents # <<>>
      /\ \/ mailbox' = n /\ task' = task /\ (h \in task[t].routed \/ row[h] # "pending")
         \/ mailbox' = n /\ Route(t, h)
         \/ /\ mailbox' = RequestAutoRescan(n)
            /\ task' = [task EXCEPT ![t].drained = Append(@, h)]
  BY DEF FeedDocument, At
<1>3. n \in Channels /\ n.auto = mailbox.auto /\ n.documents = Tail(mailbox.documents)
  BY <1>1, <1>2, ConsumeKeeps DEF NextDocumentTaken, Channels
<1>4. ASSUME NEW d, Announced(mailbox, d) PROVE d = h \/ Announced(n, d)
  <2>1. mailbox.documents \in Seq(Doc)
    BY <1>1 DEF Channels
  <2>2. ASSUME NEW i \in DOMAIN mailbox.documents, i # 1
        PROVE  i - 1 \in DOMAIN n.documents /\ n.documents[i - 1] = mailbox.documents[i]
    <3> DEFINE q == mailbox.documents
    <3>1. /\ Len(q) \in Nat /\ DOMAIN q = 1 .. Len(q)
          /\ Tail(q) \in Seq(Doc) /\ Len(Tail(q)) = Len(q) - 1 /\ DOMAIN Tail(q) = 1 .. Len(q) - 1
          /\ \A j \in 1 .. Len(q) - 1 : Tail(q)[j] = q[j + 1]
      BY <1>2, <2>1, HeadTailProperties
    <3>2. i \in 1 .. Len(q) /\ n.documents = Tail(q)
      BY <1>3, <2>2, <3>1
    <3>3. i - 1 \in 1 .. Len(q) - 1 /\ (i - 1) + 1 = i
      BY <2>2, <3>1, <3>2
    <3> HIDE DEF q, n
    <3> QED  BY <3>1, <3>2, <3>3 DEF q
  <2>3. mailbox.documents[1] = h
    BY <1>2, <2>1
  <2> HIDE DEF n, h
  <2> QED  BY <1>3, <1>4, <2>2, <2>3 DEF Announced, Occurs
<1>5. /\ task'[t].pc = "batch" /\ task'[t].cursor = task[t].cursor
      /\ \/ mailbox' = n /\ task'[t].docs = task[t].docs /\ (h \in task[t].routed \/ row[h] # "pending")
         \/ mailbox' = n /\ task'[t].docs = task[t].docs \cup {h}
         \/ mailbox' = RequestAutoRescan(n) /\ task'[t].docs = task[t].docs
  <2> HIDE DEF h, n
  <2> QED  BY <1>1, <1>2 DEF Route, TaskState
<1>6. task'[t].pc \in HoldingPc
  BY <1>5 DEF HoldingPc, SweepPc
<1>7. Waits' = Waits
  BY <1>2 DEF Waits, Rows
<1>8. ASSUME NEW d \in Waits, Announced(mailbox, d)
      PROVE  Announced(mailbox', d) \/ d \in task'[t].docs
  <2>1. CASE mailbox' = RequestAutoRescan(n)
    <3>1. mailbox'.auto
      BY <1>3, <2>1, ConsumeKeeps
    <3> QED  BY <3>1 DEF Announced
  <2>2. CASE mailbox' = n /\ task'[t].docs = task[t].docs \cup {h}
    BY <1>4, <1>8, <2>2
  <2>3. CASE mailbox' = n /\ task'[t].docs = task[t].docs /\ (h \in task[t].routed \/ row[h] # "pending")
    <3>1. CASE d # h
      BY <1>4, <1>8, <2>3, <3>1
    <3>2. CASE d = h /\ h \in task[t].routed
      BY <1>1, <1>2, <1>8, <2>3, <3>2 DEF CalmStep, Calm, BatchOK
    <3>3. CASE d = h /\ row[h] # "pending"
      <4>1. row[d] = "active"
        BY <1>8, <3>3 DEF Waits, Rows, Routable
      <4>2. PICK u \in Worker : task[u].pc = "batch" /\ d \in task[u].docs
        BY <1>1, <4>1, <1>8 DEF CalmStep, Calm, Begun, At
      <4>3. u = t
        BY <1>1, <1>2, <4>2, BesideHolder DEF HoldingPc, SweepPc
      <4> QED  BY <2>3, <4>2, <4>3
    <3> QED  BY <2>3, <3>1, <3>2, <3>3
  <2> QED  BY <1>5, <2>1, <2>2, <2>3
<1>9. ASSUME NEW d \in Waits PROVE Ahead(task[t], d)'
  <2>1. Ahead(task[t], d) /\ task[t].docs \subseteq task'[t].docs
    BY <1>5 DEF Handed
  <2>2. \/ status.phase = "drain" \/ d > task[t].cursor \/ d \in task'[t].docs
        \/ Announced(mailbox, d)
    BY <1>2, <2>1 DEF Ahead, Rereads
  <2>3. \/ status.phase = "drain" \/ d > task[t].cursor \/ d \in task'[t].docs
        \/ Announced(mailbox', d)
    BY <1>8, <2>2
  <2> QED  BY <1>2, <1>5, <1>6, <2>3 DEF Ahead
<1> QED  BY <1>6, <1>7, <1>9 DEF Passed

\* At the end of a batch nothing is in hand, and what was taken off the mailbox goes back.
LEMMA PassEndBatch ==
  ASSUME NEW t \in Worker, Handed(t), EndBatch(t)
  PROVE  Passed(t)
<1>1. task \in [Worker -> TaskState] /\ mailbox \in Channels /\ ~ Fault
  BY HandedFacts
<1>2. /\ status' = status /\ row' = row /\ task[t].pc = "batch" /\ task[t].docs = {}
      /\ mailbox' = PutDocuments(mailbox, task[t].drained)
      /\ task' = [task EXCEPT ![t].pc = "decide", ![t].drained = <<>>, ![t].routed = {}]
  BY <1>1 DEF EndBatch, At
<1>3. task'[t].pc = "decide" /\ task'[t].cursor = task[t].cursor
  BY <1>1, <1>2 DEF TaskState
<1>4. task[t].drained \in Seq(Doc)
  BY <1>1 DEF TaskState
<1>5. "decide" \in HoldingPc
  BY DEF HoldingPc, SweepPc
<1>6. Waits' = Waits
  BY <1>2 DEF Waits, Rows
<1>7. ASSUME NEW d \in Waits PROVE Ahead(task[t], d)'
  <2>1. Ahead(task[t], d)
    BY DEF Handed
  <2>2. status.phase = "drain" \/ d > task[t].cursor \/ Announced(mailbox, d)
    BY <1>2, <2>1 DEF Ahead, Rereads
  <2>3. Announced(mailbox, d) => Announced(mailbox', d)
    BY <1>1, <1>2, <1>4, PutAnnounces
  <2> QED  BY <1>2, <1>3, <1>5, <2>2, <2>3 DEF Ahead
<1> QED  BY <1>3, <1>5, <1>6, <1>7 DEF Passed

\* Elsewhere a drive is about to read all rows again.
LEMMA PassDrive ==
  ASSUME NEW t \in Worker, Handed(t), DriveStep(t)
  PROVE  Passed(t)
<1>0. task \in [Worker -> TaskState]
  BY HandedFacts
<1>1. ~ Fault /\ ~ Fenced(status') /\ status \in Status /\ ~ Fenced(status) /\ Owns(status, t)
  BY HandedFacts
<1>2. TaskOK(status, t, task[t]) /\ StatusOK(status)
  BY HandedFacts
<1>3. task[t].pc \in HoldingPc /\ ~ InReset(t) /\ task[t].pc \notin {"finalize", "released", "acquire"}
  BY DEF Handed, InReset, HoldingPc, DestroyingPc, ChunksPc, SweepPc, ResetPc
<1>4. \A l : Goto(t, l) => task'[t].pc = l
  BY <1>0, GotoLocals
<1>5. CASE PeekRequest(t) \/ StartDrain(t) \/ DrainMailbox(t)
  <2>1. task'[t].pc \in {"first_page", "fresh"}
    BY <1>0, <1>1, <1>4, <1>5 DEF PeekRequest, StartDrain, DrainMailbox, TaskState
  <2> QED  BY <2>1, PassedOn DEF Rereads
<1>6. CASE ConfirmDrained(t)
  <2>1. status.phase = "drain"
    BY <1>2, <1>6 DEF ConfirmDrained, At, TaskOK, PhaseOK
  <2>2. \A kind \in {"drain_stalled", "drain_blocked"} : status' # Fence(status, kind)
    BY <1>1 DEF Fence, Fenced, Status
  <2>3. status' = status /\ task'[t].pc \in {"top", "enter"}
    BY <1>0, <1>1, <1>4, <1>6, <2>2 DEF ConfirmDrained, TaskState
  <2>4. task'[t].pc \in HoldingPc
    BY <2>3 DEF HoldingPc, SweepPc, ResetPc
  <2> QED  BY <2>1, <2>3, <2>4, PassedOn
<1>7. CASE EnterExclusiveReset(t)
  <2>1. status.phase = "drain"
    BY <1>2, <1>7 DEF EnterExclusiveReset, At, TaskOK, PhaseOK
  <2>2. CASE WindDown(t) /\ status' = status
    <3>1. task'[t].pc = "top"
      BY <1>0, <2>2 DEF WindDown, TaskState
    <3>2. task'[t].pc \in HoldingPc
      BY <3>1 DEF HoldingPc, SweepPc
    <3> QED  BY <2>1, <2>2, <3>2, PassedOn
  <2>3. CASE ~ (WindDown(t) /\ status' = status)
    <3>1. task'[t].pc = "reset_page"
      BY <1>0, <1>1, <1>7, <2>3 DEF EnterExclusiveReset, TaskState
    <3> QED  BY <3>1, PassedOn DEF Rereads
  <2> QED  BY <2>2, <2>3
<1>8. CASE ResetPage(t) \/ AckRequest(t) \/ EndManualDrain(t)
  <2>1. task'[t].pc \in {"reset_page", "ack", "end_drain", "fresh"}
    BY <1>0, <1>1, <1>3, <1>4, <1>8 DEF ResetPage, AckRequest, EndManualDrain, TaskState
  <2> QED  BY <2>1, PassedOn DEF Rereads
<1>9. ~ AcquireProcessing(t) /\ ~ Finalize(t) /\ ~ FinalizeReleased(t)
  BY <1>3 DEF AcquireProcessing, Finalize, FinalizeReleased, At
<1> QED  BY <1>5, <1>6, <1>7, <1>8, <1>9, PassPage, PassDecide, PassTop, PassValidate, PassDocument, PassFeed,
            PassEndBatch DEF DriveStep

\* Custom chunks and deletes leave the rows that wait to whoever is announced to, and find out.
LEMMA PassDirect ==
  ASSUME NEW t \in Worker, Handed(t), ChunksStep(t) \/ DestructiveStep(t)
  PROVE  Passed(t)
<1>0. task \in [Worker -> TaskState] /\ row \in [Doc -> RowState]
  BY HandedFacts
<1>1. ~ Fault /\ ~ Fenced(status) /\ Owns(status, t) /\ Reconcile(status, Dead) = status
  BY HandedFacts
<1>2. TaskOK(status, t, task[t]) /\ StatusOK(status)
  BY HandedFacts
<1>3. task[t].pc \in ChunksPc \cup DestroyingPc
  BY DEF ChunksStep, PrepareOperation, ApplyOperation, LeaveSlot, TakeOver, DestructiveStep, EndDelete,
         LeaveDelete, ClearIngress, DropStorages, LeaveClear, DeleteDocument, At, ChunksPc, DestroyingPc
<1>4. status.phase # "drain"
  BY <1>1, <1>2, <1>3 DEF TaskOK, SlotOK, StatusOK, FlagsOK, OwnerOK, ChunksPc, DestroyingPc
<1>5. \A l : Goto(t, l) \/ Leave(t, l) => task'[t].pc = l
  BY <1>0, GotoLocals, LeaveLocals
<1>6. \A d \in Waits : task[t].pc \in Rereads \/ Announced(mailbox, d)
  BY <1>3, <1>4 DEF Handed, Ahead, ChunksPc, DestroyingPc
<1>7. ASSUME task[t].pc \notin Rereads, ~ HasWork(mailbox) PROVE Waits = {} /\ mailbox.manual = <<>>
  <2>1. \A d : ~ Announced(mailbox, d)
    BY <1>7 DEF HasWork, Announced, Occurs
  <2> QED  BY <1>6, <1>7, <2>1 DEF HasWork
<1>8. CASE PrepareOperation(t) \/ ApplyOperation(t) \/ EndDelete(t) \/ \E d \in Doc : DeleteDocument(t, d)
  <2>1. task[t].pc \in {"preparing", "applying", "deleting"}
    BY <1>8 DEF PrepareOperation, ApplyOperation, EndDelete, DeleteDocument, At
  <2>2. task'[t].pc \in {"applying", "leave_slot", "deleting", "leave_delete"}
    BY <1>0, <1>5, <1>8 DEF PrepareOperation, ApplyOperation, EndDelete, DeleteDocument, At, TaskState
  <2>3. task'[t].pc \in HoldingPc
    BY <2>2 DEF HoldingPc, ChunksPc, DestroyingPc
  <2>4. mailbox' = mailbox /\ \A d \in Doc : row'[d] \in Routable => row'[d] = row[d]
    BY <1>0, <1>1, <1>8 DEF PrepareOperation, ApplyOperation, EndDelete, DeleteDocument, Routable, Journaled
  <2>5. Waits' \subseteq Waits
    BY <2>4 DEF Waits, Rows
  <2>6. \A d \in Waits : Announced(mailbox, d)
    BY <1>6, <2>1 DEF Rereads
  <2> QED  BY <2>3, <2>4, <2>5, <2>6 DEF Passed, Ahead
<1>9. CASE LeaveSlot(t) \/ LeaveDelete(t)
  <2>1. task[t].pc \notin Rereads /\ row' = row /\ mailbox' = mailbox
    BY <1>9 DEF LeaveSlot, LeaveDelete, At, Rereads
  <2>2. Waits' = Waits
    BY <2>1 DEF Waits, Rows
  <2>3. HasWork(mailbox) => task'[t].pc \in {"handoff", "acquire"}
    BY <1>1, <1>5, <1>9 DEF LeaveSlot, HandsOff, LeaveDelete
  <2>4. CASE HasWork(mailbox)
    <3>1. task'[t].pc \in Rereads \/ Coming(task'[t])
      BY <2>3, <2>4 DEF Rereads, Coming
    <3> QED  BY <3>1, PassedOn DEF Passed
  <2>5. CASE ~ HasWork(mailbox)
    BY <1>7, <2>1, <2>2, <2>5 DEF Passed
  <2> QED  BY <2>4, <2>5
<1>10. CASE TakeOver(t) \/ ClearIngress(t)
  <2>1. task'[t].pc \in {"peek", "dropping"}
    BY <1>1, <1>5, <1>10 DEF TakeOver, ClearIngress
  <2> QED  BY <2>1, PassedOn DEF Rereads
<1>11. CASE DropStorages(t)
  <2>1. row' = [d \in Doc |-> "none"] /\ task'[t].pc = "leave_clear"
    BY <1>1, <1>5, <1>11 DEF DropStorages
  <2>2. Waits' = {}
    BY <2>1 DEF Waits, Rows, Routable
  <2>3. "leave_clear" \in HoldingPc
    BY DEF HoldingPc, DestroyingPc
  <2> QED  BY <2>1, <2>2, <2>3 DEF Passed
<1>12. CASE LeaveClear(t)
  <2>1. task[t].pc = "leave_clear" /\ row' = row /\ mailbox' = mailbox
    BY <1>12 DEF LeaveClear, At
  <2>2. Waits = {} /\ mailbox.manual = <<>>
    BY <2>1 DEF Handed, CalmStep, Calm, ClearedOK
  <2>3. Waits' = Waits
    BY <2>1 DEF Waits, Rows
  <2> QED  BY <2>1, <2>2, <2>3 DEF Passed
<1> QED  BY <1>8, <1>9, <1>10, <1>11, <1>12 DEF ChunksStep, DestructiveStep

\* Nothing waits in vain for the holder of the slot.
LEMMA CalmInside ==
  ASSUME NEW t \in Worker, CalmStep(t), task[t].pc \in HoldingPc
  PROVE  RowsMet' /\ AskedMet'
<1>1. \A w \in Worker \ {t} : task'[w] = task[w] /\ task[w].pc \notin HoldingPc
  BY CalmFacts, BesideHolder
<1>2. ~ AcquireProcessing(t)
  BY DEF AcquireProcessing, At, HoldingPc, DestroyingPc, ChunksPc, SweepPc, ResetPc
<1>3. CASE \E u \in Worker : Coming(task[u])
  <2>1. \E u \in Worker : Coming(task'[u])
    BY <1>1, <1>2, <1>3, CalmComing
  <2> QED  BY <2>1 DEF RowsMet, AskedMet
<1>4. CASE \A u \in Worker : ~ Coming(task[u])
  <2>1. task[t].stage # "reset"
    BY <1>4 DEF Coming, HoldingPc, DestroyingPc, ChunksPc, SweepPc, ResetPc
  <2>2. \A d \in Waits : Ahead(task[t], d)
    BY <1>1, <1>4 DEF CalmStep, Calm, RowsMet, Ahead
  <2>3. Handed(t)
    BY <2>1, <2>2 DEF Handed
  <2>4. ~ BeginScanDrain(t) /\ ~ ConfirmScanDrain(t) /\ ~ ReleaseReset(t)
    <3>1. TaskOK(status, t, task[t])
      BY CalmHolder
    <3> QED  BY <2>1, <3>1 DEF BeginScanDrain, ConfirmScanDrain, ReleaseReset, At, TaskOK, EntryOK, ScanPc
  <2>5. Passed(t)
    BY <2>3, <2>4, HolderActs, PassDrive, PassDirect
  <2> QED  BY <2>5 DEF Passed, RowsMet, AskedMet
<1> QED  BY <1>3, <1>4

-----------------------------------------------------------------------------
(* 26. What nobody disturbs leaves nothing behind.                          *)

LEMMA CalmInit == Init => CalmInv
<1> SUFFICES ASSUME Init, Undisturbed PROVE Calm
  BY DEF CalmInv
<1>1. /\ status = IdleStatus /\ mailbox = EmptyMailbox
      /\ \A t \in Worker : task[t].pc = "new"
      /\ \A d \in Doc : row[d] \in Routable => d \in PendingDocs \cup ActiveDocs
  BY DEF Init, IdleTask, Routable
<1>2. Waits = {}
  BY <1>1 DEF Undisturbed, Waits, Rows
<1>3. mailbox.manual = <<>> /\ mailbox.terminal = <<>> /\ DOMAIN <<>> = {}
  BY <1>1 DEF EmptyMailbox
<1>4. RequestsOK
  BY <1>1, <1>3 DEF RequestsOK, TerminalIds, IdleStatus
<1>5. FenceMet /\ status.cancel = "no"
  BY <1>1 DEF FenceMet, IdleStatus
<1>6. \A t \in Worker : BatchOK(task[t]) /\ ClearedOK(task[t]) /\ task[t].pc \notin {"finalize", "refused", "dead"}
  BY <1>1 DEF BatchOK, ClearedOK
<1>7. Begun /\ RowsMet /\ AskedMet
  BY <1>2, <1>3 DEF Begun, RowsMet, AskedMet
<1> QED  BY <1>4, <1>5, <1>6, <1>7 DEF Calm

LEMMA CalmNext == RowsInv /\ RowsInv' /\ CalmInv /\ [Next]_vars => CalmInv'
<1> SUFFICES ASSUME RowsInv, RowsInv', CalmInv, [Next]_vars, Undisturbed'
             PROVE  Calm'
  BY DEF CalmInv
<1>1. Undisturbed /\ Calm
  BY CalmBack DEF CalmInv
<1>2. CASE UNCHANGED vars
  BY <1>1, <1>2 DEF vars, Calm, BatchOK, ClearedOK, Begun, RowsMet, AskedMet, RequestsOK, FenceMet, Waits,
                    Rows, Coming, Ahead, Asked, At, TerminalIds
<1>3. ASSUME NEW t \in Worker, Request(t) \/ Step(t) PROVE Calm'
  <2>1. CalmStep(t)
    BY <1>1, <1>3 DEF CalmStep
  <2>2. status'.cancel = "no"
    <3>1. MadeFrom(status, t) /\ ~ Fault /\ status.cancel = "no" /\ status \in Status
      BY <2>1, CalmFacts
    <3>2. CASE status' \in PlainOps(status, t)
      BY <3>1, <3>2, PlainOpsSteady DEF Steady
    <3>3. CASE status' \notin PlainOps(status, t)
      BY <3>1, <3>3 DEF MadeFrom, TakeScanning, BeginDrain, EnterReset, Status
    <3> QED  BY <3>2, <3>3
  <2>3. ASSUME NEW u \in Worker PROVE task'[u].pc \notin {"finalize", "refused", "dead"}
    <3>1. Fit(t, task'[t].pc) /\ \A w \in Worker \ {t} : task'[w] = task[w]
      BY <2>1, CalmPlaces, CalmFacts
    <3> QED  BY <1>1, <3>1 DEF Fit, Calm
  <2>4. RowsMet' /\ AskedMet'
    BY <2>1, CalmAcquire, CalmOutside, CalmInside
  <2>5. Begun' /\ RequestsOK' /\ FenceMet'
    BY <2>1, CalmBegun, CalmRequests, CalmFence
  <2>6. \A u \in Worker : BatchOK(task[u])' /\ ClearedOK(task[u])'
    BY <2>1, CalmBatch, CalmCleared
  <2> QED  BY <2>2, <2>3, <2>4, <2>5, <2>6 DEF Calm
<1> QED  BY <1>2, <1>3, CalmBack

\* While nothing has gone wrong, whatever waits in a row or in the mailbox has a task that will come for
\* it: every refusal leaves a trace that the holder of the slot finds before it goes.
THEOREM CalmInvariance == Spec => []CalmInv
<1> QED  BY RowsInvariance, CalmInit, CalmNext, PTL DEF Spec

\* Once all tasks have ended by themselves, no document is left that a run would have taken, and no
\* manual retry that nobody will read.
THEOREM NothingStranded == Spec => []NoWorkStranded
<1>1. CalmInv => NoWorkStranded
  <2> SUFFICES ASSUME Undisturbed, Calm, \A t \in Worker : task[t].pc \in {"new", "done"}
               PROVE  Rows(Routable) \subseteq Unreadable /\ mailbox.manual = <<>>
    BY DEF CalmInv, NoWorkStranded
  <2>1. \A t \in Worker : ~ Coming(task[t]) /\ task[t].pc \notin HoldingPc
    BY DEF Coming, HoldingPc, DestroyingPc, ChunksPc, SweepPc, ResetPc
  <2> QED  BY <2>1 DEF Calm, RowsMet, AskedMet, Ahead, Waits
<1> QED  BY <1>1, CalmInvariance, PTL
=============================================================================

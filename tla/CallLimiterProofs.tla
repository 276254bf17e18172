-------------------------- MODULE CallLimiterProofs --------------------------
(***************************************************************************)
(* What holds of the call limiter for every number of processes, calls,    *)
(* leases and troubles.  SlotInv: the calls in flight never exceed the     *)
(* limit of the group, and a running process loses a slot only after it    *)
(* was warned.  CallInv: the counters are exact, nobody sleeps in vain and *)
(* no call is lost.  AccountInv: no slot is without hands.                 *)
(*                                                                         *)
(* Section 1 proves of each call to the gate what it leaves in the table   *)
(* and to whom; section 2 has one lemma per action that moves a lease, and *)
(* section 3 the theorems about slots; section 4 follows the calls through *)
(* queue, dispatch and workers; section 5 follows the slots through the    *)
(* hands they are in.                                                      *)
(***************************************************************************)
EXTENDS CallLimiter, SequenceFilterProofs, FiniteSetTheorems, SequenceTheorems, TLAPS

\* The constants, as the provers want them.
LEMMA Consts == /\ Limit \in Nat /\ Free \notin Slot /\ NoLease \notin Lease
                /\ \A w \in Worker : w[1] \in Proc
  BY LimitAssumption, FreeAssumption, CallAssumption DEF Worker

-----------------------------------------------------------------------------
(* 1. The gate.                                                            *)

GateType == /\ mode \in [Proc -> {"running", "dead", "ghost"}]
            /\ table \in [Lease -> Slot \cup {Free}]
            /\ warned \subseteq Lease /\ lapsed \subseteq Lease /\ lost \subseteq Lease

\* Whoever runs and owns a slot still owns it, except for the leases of L.
KeepsAllBut(L) ==
  \A q \in Proc, m \in Lease \ L : Up(q) /\ Owns(q, m) => Owns(q, m)'

\* A table with no other leases in use is no larger.
LEMMA NoMore ==
  ASSUME TableOK, NEW S, S \subseteq InUse(table)
  PROVE  IsFiniteSet(S) /\ Cardinality(S) <= Limit /\ Cardinality(S) \in Nat
<1>1. IsFiniteSet(InUse(table)) /\ Cardinality(InUse(table)) <= Limit
  BY DEF TableOK
<1>2. IsFiniteSet(S) /\ Cardinality(S) <= Cardinality(InUse(table))
  BY <1>1, FS_Subset
<1>3. Cardinality(S) \in Nat /\ Cardinality(InUse(table)) \in Nat
  BY <1>1, <1>2, FS_CardinalityType
<1> QED  BY <1>1, <1>2, <1>3, Consts

\* What a reap leaves of the table.
LEMMA ReapedTable ==
  ASSUME GateType, TableOK
  PROVE  /\ Reaped \in [Lease -> Slot \cup {Free}]
         /\ InUse(Reaped) \subseteq InUse(table)
         /\ \A l \in InUse(Reaped) : /\ ~ Reclaimed(l)
                                     /\ Reaped[l].owner = table[l].owner
                                     /\ Reaped[l].mark # "none" => l \in Warned
         /\ Warned \subseteq Lease /\ Lapsed \subseteq Lease /\ Lost \subseteq Lease
         /\ \A q \in Proc, m \in Lease : Up(q) /\ Owns(q, m) =>
              m \in Lapsed \/ (Reaped[m] # Free /\ Reaped[m].owner = q)
<1>1. Reaped \in [Lease -> Slot \cup {Free}]
  BY DEF GateType, Reaped, Remark, Slot
<1>2. InUse(Reaped) \subseteq InUse(table)
  BY DEF Reaped, InUse
<1>3. ASSUME NEW l \in InUse(Reaped)
      PROVE  ~ Reclaimed(l) /\ Reaped[l] = Remark(table[l]) /\ table[l] \in Slot
  BY <1>3 DEF GateType, Reaped, InUse
<1>4. ASSUME NEW l \in InUse(Reaped)
      PROVE  Reaped[l].owner = table[l].owner /\ (Reaped[l].mark # "none" => l \in Warned)
  <2>1. table[l].mark \in {"none", "suspect", "over"} /\ l \in InUse(table)
    BY <1>2, <1>3, <1>4 DEF Slot
  <2>2. Reaped[l].owner = table[l].owner
    BY <1>3, <1>4 DEF Remark, Slot
  <2>3. Reaped[l].mark # "none" => Reaped[l].mark = "suspect" \/ table[l].mark # "none"
    BY <1>3, <1>4, <2>1 DEF Remark, Slot
  <2>4. ASSUME Reaped[l].mark # "none" PROVE l \in Warned
    <3>1. CASE table[l].mark = "none"
      BY <1>4, <2>3, <2>4, <3>1 DEF Warned
    <3>2. CASE table[l].mark # "none"
      BY <2>1, <3>2 DEF TableOK, Warned
    <3> QED  BY <3>1, <3>2
  <2> QED  BY <2>2, <2>4
<1>5. Warned \subseteq Lease /\ Lapsed \subseteq Lease /\ Lost \subseteq Lease
  BY DEF GateType, Warned, Lapsed, Lost, InUse
<1>6. ASSUME NEW q \in Proc, NEW m \in Lease, Up(q), Owns(q, m), m \notin Lapsed
      PROVE  Reaped[m] # Free /\ Reaped[m].owner = q
  <2>1. table[m] # Free /\ table[m].owner = q /\ mode[q] = "running"
    BY <1>6 DEF Owns, Lapsed, Up
  <2>2. ~ Reclaimed(m)
    BY <1>6, <2>1 DEF Lapsed
  <2>3. table[m] \in Slot /\ Reaped[m] = Remark(table[m])
    BY <2>1, <2>2 DEF GateType, Reaped
  <2>4. Remark(table[m]) \in Slot /\ Remark(table[m]).owner = q
    BY <2>1, <2>3 DEF Remark, Slot
  <2> QED  BY <2>3, <2>4, Consts
<1> QED  BY <1>1, <1>2, <1>3, <1>4, <1>5, <1>6

\* A reap, after which nobody who runs has lost a slot unnoticed.
LEMMA ReapStep ==
  ASSUME GateType, TableOK, Reap, UNCHANGED mode
  PROVE  GateType' /\ TableOK' /\ KeepsAllBut({})
<1>1. table' = Reaped /\ warned' = Warned /\ lapsed' = Lapsed /\ lost' = Lost
  BY DEF Reap
<1>2. IsFiniteSet(InUse(Reaped)) /\ Cardinality(InUse(Reaped)) <= Limit
  BY ReapedTable, NoMore
<1>3. InUse(table)' = InUse(Reaped)
  BY <1>1 DEF InUse
<1> QED  BY <1>1, <1>2, <1>3, ReapedTable DEF GateType, TableOK, KeepsAllBut, Owns, Up

\* A grant, which puts one lease into a table that had room for it.
LEMMA GrantStep ==
  ASSUME GateType, TableOK, NEW p \in Proc, NEW l \in Lease, NEW told, Grant(p, l, told),
         UNCHANGED mode
  PROVE  GateType' /\ TableOK' /\ KeepsAllBut({l}) /\ Owns(p, l)'
<1>1. /\ table' = [Reaped EXCEPT ![l] = NewSlot(p)]
      /\ warned' = Warned \ {l} /\ lapsed' = Lapsed \ {l} /\ lost' \subseteq Lost \cup {l}
      /\ Cardinality(InUse(Reaped)) < Limit
  BY DEF Grant, HasRoom
<1>2. NewSlot(p) \in Slot /\ NewSlot(p).owner = p /\ NewSlot(p).mark = "none"
  BY DEF NewSlot, Slot
<1>3. GateType'
  BY <1>1, <1>2, ReapedTable DEF GateType
<1>4. IsFiniteSet(InUse(Reaped)) /\ Cardinality(InUse(Reaped)) \in Nat
  BY ReapedTable, NoMore
<1>5. /\ IsFiniteSet(InUse(Reaped) \cup {l})
      /\ Cardinality(InUse(Reaped) \cup {l}) <= Cardinality(InUse(Reaped)) + 1
      /\ Cardinality(InUse(Reaped) \cup {l}) \in Nat
  <2>1. /\ IsFiniteSet(InUse(Reaped) \cup {l})
        /\ Cardinality(InUse(Reaped) \cup {l}) =
             IF l \in InUse(Reaped) THEN Cardinality(InUse(Reaped))
                                    ELSE Cardinality(InUse(Reaped)) + 1
    BY <1>4, FS_AddElement
  <2> QED  BY <1>4, <2>1
<1>6. InUse(table)' \subseteq InUse(Reaped) \cup {l}
  BY <1>1, ReapedTable DEF InUse
<1>7. /\ IsFiniteSet(InUse(table)')
      /\ Cardinality(InUse(table)') <= Cardinality(InUse(Reaped) \cup {l})
      /\ Cardinality(InUse(table)') \in Nat
  BY <1>5, <1>6, FS_Subset, FS_CardinalityType
<1>8. Cardinality(InUse(table)') <= Limit
  BY <1>1, <1>4, <1>5, <1>7, Consts
<1>9. \A m \in InUse(table)' : table'[m].mark # "none" => m \in warned'
  BY <1>1, <1>2, <1>6, ReapedTable DEF InUse
<1>10. KeepsAllBut({l})
  BY <1>1, ReapedTable DEF KeepsAllBut, Owns, Up
<1>11. Owns(p, l)'
  BY <1>1, <1>2, ReapedTable, Consts DEF Owns
<1> QED  BY <1>3, <1>7, <1>8, <1>9, <1>10, <1>11 DEF TableOK

\* A release of the leases of L, whether they are in the table or not.
LEMMA ReleaseStep ==
  ASSUME GateType, TableOK, NEW L, ReleaseSlots(L), UNCHANGED mode
  PROVE  GateType' /\ TableOK' /\ KeepsAllBut(L)
<1>1. /\ table' = [m \in Lease |-> IF m \in L THEN Free ELSE table[m]]
      /\ warned' = warned \ L /\ lapsed' = lapsed \ L /\ lost' = lost
  BY DEF ReleaseSlots
<1>2. InUse(table)' \subseteq InUse(table) \ L
  BY <1>1 DEF InUse
<1>3. IsFiniteSet(InUse(table)') /\ Cardinality(InUse(table)') <= Limit
  BY <1>2, NoMore
<1> QED  BY <1>1, <1>2, <1>3 DEF GateType, TableOK, KeepsAllBut, Owns, Up, InUse

\* A renewal of leases of which p owns the slots.
LEMMA RenewStep ==
  ASSUME GateType, TableOK, NEW p \in Proc, NEW L, RenewSlots(p, L), UNCHANGED mode,
         \A m \in L : Owns(p, m),
         \A q \in Proc, m \in L : q # p => m \in lapsed \/ ~ Owns(q, m)
  PROVE  GateType' /\ TableOK' /\ KeepsAllBut({})
<1>1. /\ table' = [m \in Lease |-> IF m \in L /\ table[m] # Free THEN NewSlot(p) ELSE table[m]]
      /\ warned' = warned \ L /\ lapsed' = lapsed /\ lost' = lost
  BY DEF RenewSlots
<1>2. NewSlot(p) \in Slot /\ NewSlot(p).owner = p /\ NewSlot(p).mark = "none"
  BY DEF NewSlot, Slot
<1>3. InUse(table)' = InUse(table)
  BY <1>1, <1>2, Consts DEF InUse
<1>4. IsFiniteSet(InUse(table)') /\ Cardinality(InUse(table)') <= Limit
  BY <1>3, NoMore
<1>5. KeepsAllBut({})
  BY <1>1, <1>2, Consts DEF KeepsAllBut, Owns, Up
<1>6. GateType'
  BY <1>1, <1>2 DEF GateType
<1>7. \A m \in InUse(table)' : table'[m].mark # "none" => m \in warned'
  BY <1>1, <1>2, <1>3 DEF TableOK, InUse
<1> QED  BY <1>4, <1>5, <1>6, <1>7 DEF TableOK

\* The clock.
LEMMA TimeStep ==
  ASSUME GateType, TableOK, NEW l \in Lease, HeartbeatExpires(l) \/ GraceEnds(l), UNCHANGED mode
  PROVE  GateType' /\ TableOK' /\ KeepsAllBut({})
<1>1. table[l] \in Slot /\ warned' = warned /\ lapsed' = lapsed /\ lost' = lost
  BY DEF GateType, HeartbeatExpires, GraceEnds
<1>2. /\ table' = [table EXCEPT ![l] = table'[l]]
      /\ table'[l] \in Slot /\ table'[l].owner = table[l].owner
      /\ table'[l].mark # "none" => table[l].mark # "none"
  BY <1>1 DEF GateType, HeartbeatExpires, GraceEnds, Slot
<1>3. InUse(table)' = InUse(table)
  BY <1>1, <1>2, Consts DEF InUse, GateType
<1>4. IsFiniteSet(InUse(table)') /\ Cardinality(InUse(table)') <= Limit
  BY <1>3, NoMore
<1> QED  BY <1>1, <1>2, <1>3, <1>4, Consts DEF GateType, TableOK, KeepsAllBut, Owns, Up, InUse

\* _release_lease_safely: the slot of l is given back or not, and l may be parked.
LEMMA ReleaseSafelyStep ==
  ASSUME GateType, TableOK, NEW p \in Proc, NEW l \in Lease, ReleaseSafely(p, l), UNCHANGED mode,
         pendingRelease \in [Proc -> SUBSET Lease]
  PROVE  /\ GateType' /\ TableOK' /\ KeepsAllBut({l})
         /\ pendingRelease' \in [Proc -> SUBSET Lease]
         /\ \A q \in Proc, m \in Lease : m # l /\ m \notin pendingRelease[q] => m \notin pendingRelease'[q]
<1>1. ReleaseSlots({l}) \/ UNCHANGED gate
  BY DEF ReleaseSafely
<1>2. pendingRelease' \in {pendingRelease, [pendingRelease EXCEPT ![p] = @ \cup {l}]}
  BY DEF ReleaseSafely
<1>3. CASE ReleaseSlots({l})
  BY <1>2, <1>3, ReleaseStep
<1>4. CASE UNCHANGED gate
  BY <1>2, <1>4 DEF gate, GateType, TableOK, KeepsAllBut, Owns, Up, InUse
<1> QED  BY <1>1, <1>3, <1>4

-----------------------------------------------------------------------------
(* 2. The actions.                                                         *)

\* The dispatch queue, without its element type.
LEMMA OwnRange ==
  ASSUME NEW T, NEW t \in Seq(T)
  PROVE  IsSequence(t)
  BY DEF IsSequence

LEMMA AppendSequence ==
  ASSUME NEW s, IsSequence(s), NEW e
  PROVE  /\ IsSequence(Append(s, e)) /\ DOMAIN s = 1 .. Len(s) /\ Len(s) \in Nat
         /\ DOMAIN Append(s, e) = 1 .. Len(s) + 1
         /\ Append(s, e)[Len(s) + 1] = e
         /\ \A j \in 1 .. Len(s) : Append(s, e)[j] = s[j]
<1> DEFINE T == {s[j] : j \in DOMAIN s} \cup {e}
           t == Append(s, e)
<1>1. s \in Seq(T) /\ e \in T
  BY DEF IsSequence
<1>2. /\ DOMAIN s = 1 .. Len(s) /\ Len(s) \in Nat
      /\ t \in Seq(T) /\ Len(t) = Len(s) + 1 /\ DOMAIN t = 1 .. Len(s) + 1
      /\ t[Len(s) + 1] = e
      /\ \A j \in 1 .. Len(s) : t[j] = s[j]
  BY <1>1
<1> QED  BY <1>2, OwnRange

LEMMA TailSequence ==
  ASSUME NEW s, IsSequence(s), s # <<>>
  PROVE  /\ IsSequence(Tail(s)) /\ 1 \in DOMAIN s /\ Head(s) = s[1]
         /\ \A j \in DOMAIN Tail(s) : j \in Nat /\ j > 0 /\ j + 1 \in DOMAIN s /\ Tail(s)[j] = s[j + 1]
<1> DEFINE T == {s[j] : j \in DOMAIN s}
           t == Tail(s)
<1>1. s \in Seq(T)
  BY DEF IsSequence
<1>2. /\ DOMAIN s = 1 .. Len(s) /\ Len(s) \in Nat /\ Len(s) > 0
      /\ t \in Seq(T) /\ Len(t) = Len(s) - 1 /\ DOMAIN t = 1 .. Len(s) - 1
      /\ \A j \in DOMAIN t : t[j] = s[j + 1]
  BY <1>1
<1>3. Head(s) = s[1]
  OBVIOUS
<1>4. IsSequence(t)
  BY <1>2, OwnRange
<1> QED  BY <1>2, <1>3, <1>4

\* What the lemmas below start from.
LEMMA Parts ==
  ASSUME SlotInv
  PROVE  TypeOK /\ GateType /\ TableOK
  BY DEF SlotInv, TypeOK, GateType

\* A step of the gate alone.
LEMMA GateOnly ==
  ASSUME SlotInv, UNCHANGED <<mode, pump, worker, dispatch, held, pendingRelease>>,
         GateType', TableOK', KeepsAllBut({})
  PROVE  SlotInv'
<1>1. TypeOK'
  BY Parts DEF TypeOK, GateType
<1>2. \A p \in Proc : HeldOK(p)'
  BY Parts DEF SlotInv, TypeOK, HeldOK, KeepsAllBut, Up
<1>3. \A p \in Proc : PumpOK(p)'
  BY Parts DEF SlotInv, TypeOK, PumpOK, KeepsAllBut, Up
<1>4. (\A p \in Proc : DispatchOK(p)') /\ \A w \in Worker : WorkerOK(w)'
  BY DEF SlotInv, DispatchOK, WorkerOK, Dispatched
<1> QED  BY <1>1, <1>2, <1>3, <1>4 DEF SlotInv

\* A step that moves no lease.
LEMMA SlotsUntouched ==
  ASSUME SlotInv, UNCHANGED <<mode, gate, pump, worker, dispatch, held, pendingRelease>>
  PROVE  SlotInv'
<1>1. GateType' /\ TableOK' /\ KeepsAllBut({})
  BY Parts DEF gate, GateType, TableOK, KeepsAllBut, Owns, Up, InUse
<1> QED  BY <1>1, GateOnly

LEMMA AskStep ==
  ASSUME SlotInv, NEW p \in Proc, Ask(p)
  PROVE  SlotInv'
<1>1. /\ pump[p].at = "idle" /\ pump' = [pump EXCEPT ![p].at = "asking"]
      /\ UNCHANGED <<mode, gate, worker, dispatch, held, pendingRelease>>
  BY DEF Ask, leases
<1>2. TypeOK'
  BY <1>1 DEF SlotInv, TypeOK, gate
<1>3. \A q \in Proc : PumpOK(q)'
  BY <1>1 DEF SlotInv, TypeOK, PumpOK, gate, Up, Owns
<1> QED
  BY <1>1, <1>2, <1>3 DEF SlotInv, TableOK, HeldOK, DispatchOK, WorkerOK, gate, Owns, Up, InUse,
     Dispatched

\* What is not known is in nobody's hands.
LEMMA Unknown ==
  ASSUME NEW l, l \notin Known
  PROVE  /\ \A q \in Proc : l \notin held[q] /\ l \notin pendingRelease[q] /\ pump[q].lease # l
         /\ \A w \in Worker : worker[w].lease # l
  BY DEF Known

\* The gate grants a lease nobody knows.
LEMMA GrantedStep ==
  ASSUME SlotInv, NEW p \in Proc, Granted(p)
  PROVE  SlotInv'
<1> PICK l \in Lease \ Known :
       /\ Grant(p, l, TRUE)
       /\ pump' = [pump EXCEPT ![p] = [at |-> "granted", call |-> NoCall, lease |-> l]]
  BY DEF Granted
<1>1. Up(p) /\ UNCHANGED <<mode, worker, dispatch, held, pendingRelease>>
  BY DEF Granted, leases
<1>3. GateType' /\ TableOK' /\ KeepsAllBut({l}) /\ Owns(p, l)'
  BY <1>1, Parts, GrantStep
<1>4. /\ \A q \in Proc : l \notin held[q] /\ l \notin pendingRelease[q] /\ pump[q].lease # l
      /\ \A w \in Worker : worker[w].lease # l
  BY Unknown
<1>5. TypeOK'
  BY <1>1, <1>3, Parts DEF TypeOK, GateType
<1>6. \A q \in Proc : HeldOK(q)'
  BY <1>1, <1>3, <1>4, Parts DEF SlotInv, TypeOK, HeldOK, KeepsAllBut, Up
<1>7. \A q \in Proc : PumpOK(q)'
  BY <1>1, <1>3, <1>4, Parts, Consts DEF SlotInv, TypeOK, PumpOK, KeepsAllBut, Up
<1>8. (\A q \in Proc : DispatchOK(q)') /\ \A w \in Worker : WorkerOK(w)'
  BY <1>1 DEF SlotInv, DispatchOK, WorkerOK, Dispatched
<1> QED  BY <1>3, <1>5, <1>6, <1>7, <1>8 DEF SlotInv

\* The gate answers without a lease that the pump would know of.
LEMMA NoAnswer ==
  ASSUME SlotInv, NEW p \in Proc, pump[p].at = "asking", pump' = [pump EXCEPT ![p] = Idle],
         UNCHANGED <<mode, worker, dispatch, held, pendingRelease>>,
         NEW L, L \cap Known = {}, GateType', TableOK', KeepsAllBut(L)
  PROVE  SlotInv'
<1>1. \A q \in Proc : L \cap held[q] = {} /\ pump[q].lease \notin L
  BY Unknown
<1>2. pump' = [pump EXCEPT ![p] = [at |-> "idle", call |-> NoCall, lease |-> NoLease]]
  BY DEF Idle
<1>3. TypeOK'
  BY <1>2, Parts DEF TypeOK, GateType
<1>4. \A q \in Proc : HeldOK(q)'
  BY <1>1, Parts DEF SlotInv, TypeOK, HeldOK, KeepsAllBut, Up
<1>5. \A q \in Proc : PumpOK(q)'
  BY <1>1, <1>2, Parts, Consts DEF SlotInv, TypeOK, PumpOK, KeepsAllBut, Up
<1>6. (\A q \in Proc : DispatchOK(q)') /\ \A w \in Worker : WorkerOK(w)'
  BY DEF SlotInv, DispatchOK, WorkerOK, Dispatched
<1> QED  BY <1>3, <1>4, <1>5, <1>6 DEF SlotInv

LEMMA RefusedStep ==
  ASSUME SlotInv, NEW p \in Proc, Refused(p)
  PROVE  SlotInv'
<1>1. GateType' /\ TableOK' /\ KeepsAllBut({})
  BY Parts, ReapStep DEF Refused
<1> QED  BY <1>1, NoAnswer DEF Refused, leases

LEMMA AskFailsStep ==
  ASSUME SlotInv, NEW p \in Proc, AskFails(p)
  PROVE  SlotInv'
<1>1. CASE UNCHANGED gate
  <2>1. GateType' /\ TableOK' /\ KeepsAllBut({})
    BY <1>1, Parts DEF AskFails, gate, GateType, TableOK, KeepsAllBut, Owns, Up, InUse
  <2> QED  BY <2>1, NoAnswer DEF AskFails, leases
<1>2. CASE \E l \in Lease \ Known : Grant(p, l, FALSE)
  <2> PICK l \in Lease \ Known : Grant(p, l, FALSE)
    BY <1>2
  <2>1. GateType' /\ TableOK' /\ KeepsAllBut({l})
    BY Parts, GrantStep DEF AskFails
  <2> QED  BY <2>1, NoAnswer DEF AskFails, leases
<1> QED  BY <1>1, <1>2 DEF AskFails

\* The gate as it was.
LEMMA GateSame ==
  ASSUME SlotInv, UNCHANGED <<mode, gate>>
  PROVE  /\ GateType' /\ TableOK'
         /\ \A q \in Proc, m \in Lease : Owns(q, m) => Owns(q, m)'
  BY Parts DEF gate, GateType, TableOK, Owns, InUse

\* The lease goes from the pump to the dispatch queue, or stays to be released.
LEMMA ClaimStep ==
  ASSUME SlotInv, NEW p \in Proc, Claim(p)
  PROVE  SlotInv'
<1> DEFINE l == pump[p].lease
<1>1. /\ Up(p) /\ pump[p].at = "granted"
      /\ UNCHANGED <<mode, gate, worker, pendingRelease>>
  BY DEF Claim
<1>2. /\ l # NoLease /\ l \in Lease /\ Owns(p, l)
      /\ \A q \in Proc : /\ l \notin held[q] \cup pendingRelease[q]
                         /\ q # p => pump[q].lease # l
      /\ \A w \in Worker : worker[w].lease # l
  BY <1>1, Parts DEF SlotInv, PumpOK, TypeOK
<1>3. GateType' /\ TableOK' /\ \A q \in Proc, m \in Lease : Owns(q, m) => Owns(q, m)'
  BY <1>1, GateSame
<1>4. CASE /\ pump' = [pump EXCEPT ![p].at = "releasing"]
           /\ UNCHANGED <<dispatch, held>>
  <2>1. TypeOK'
    BY <1>1, <1>3, <1>4, Parts DEF TypeOK, GateType
  <2>2. \A q \in Proc : HeldOK(q)'
    BY <1>1, <1>3, <1>4, Parts DEF SlotInv, TypeOK, HeldOK, Up
  <2>3. \A q \in Proc : PumpOK(q)'
    BY <1>1, <1>2, <1>3, <1>4, Parts, Consts DEF SlotInv, TypeOK, PumpOK, Up
  <2>4. (\A q \in Proc : DispatchOK(q)') /\ \A w \in Worker : WorkerOK(w)'
    BY <1>1, <1>4 DEF SlotInv, DispatchOK, WorkerOK, Dispatched
  <2> QED  BY <1>3, <2>1, <2>2, <2>3, <2>4 DEF SlotInv
<1>5. ASSUME NEW c,
             dispatch' = [dispatch EXCEPT ![p] = Append(@, [call |-> c, lease |-> l])],
             held' = [held EXCEPT ![p] = @ \cup {l}],
             pump' = [pump EXCEPT ![p] = Idle]
      PROVE  SlotInv'
  <2> DEFINE e == [call |-> c, lease |-> l]
             s == dispatch[p]
  <2>1. /\ IsSequence(Append(s, e)) /\ DOMAIN s = 1 .. Len(s) /\ Len(s) \in Nat
        /\ DOMAIN Append(s, e) = 1 .. Len(s) + 1
        /\ Append(s, e)[Len(s) + 1] = e
        /\ \A j \in 1 .. Len(s) : Append(s, e)[j] = s[j]
    BY Parts, AppendSequence DEF TypeOK
  <2>2. dispatch'[p] = Append(s, e) /\ \A q \in Proc : q # p => dispatch'[q] = dispatch[q]
    BY <1>5, Parts DEF TypeOK
  <2>3. dispatch' = [q \in Proc |-> dispatch'[q]]
    BY <1>5, Parts DEF TypeOK
  <2>4. pump' = [pump EXCEPT ![p] = [at |-> "idle", call |-> NoCall, lease |-> NoLease]]
    BY <1>5 DEF Idle
  <2>5. \A q \in Proc : IsSequence(dispatch'[q])
    BY <2>1, <2>2, Parts DEF TypeOK
  <2>6. held' \in [Proc -> SUBSET Lease]
    BY <1>2, <1>5, Parts DEF TypeOK
  <2>7. TypeOK'
    BY <1>1, <1>3, <2>3, <2>4, <2>5, <2>6, Parts DEF TypeOK, GateType
  <2>8. \A q \in Proc : HeldOK(q)'
    BY <1>1, <1>2, <1>3, <1>5, Parts DEF SlotInv, TypeOK, HeldOK, Up
  <2>9. \A q \in Proc : PumpOK(q)'
    BY <1>1, <1>2, <1>3, <1>5, <2>4, Parts, Consts DEF SlotInv, TypeOK, PumpOK, Up
  <2>10. DispatchOK(p)'
    <3>1. e.lease = l /\ l \notin held[p] /\ held'[p] = held[p] \cup {l}
      BY <1>2, <1>5, Parts DEF TypeOK
    <3>2. \A j \in 1 .. Len(s) : s[j].lease \in held[p]
      BY <2>1 DEF SlotInv, DispatchOK
    <3>3. \A j, k \in 1 .. Len(s) : j # k => s[j].lease # s[k].lease
      BY <2>1 DEF SlotInv, DispatchOK
    <3>4. \A j \in 1 .. Len(s) + 1 : j \in 1 .. Len(s) \/ j = Len(s) + 1
      BY <2>1
    <3>5. \A j \in 1 .. Len(s) + 1 : Append(s, e)[j].lease \in held'[p]
      BY <2>1, <3>1, <3>2, <3>4
    <3>6. \A j, k \in 1 .. Len(s) + 1 : j # k => Append(s, e)[j].lease # Append(s, e)[k].lease
      BY <2>1, <3>1, <3>2, <3>3, <3>4
    <3> QED  BY <2>1, <2>2, <3>5, <3>6 DEF DispatchOK
  <2>11. \A q \in Proc : DispatchOK(q)'
    BY <1>5, <2>2, <2>10, Parts DEF SlotInv, TypeOK, DispatchOK
  <2>12. \A q \in Proc : Dispatched(q)' \subseteq Dispatched(q) \cup {l}
    BY <2>1, <2>2 DEF Dispatched
  <2>13. ASSUME NEW w \in Worker PROVE WorkerOK(w)'
    <3>1. WorkerOK(w) /\ worker[w].lease # l /\ w[1] \in Proc
      BY <1>2, Consts DEF SlotInv
    <3>2. \A q \in Proc : held[q] \subseteq held'[q] /\ held'[q] \subseteq held[q] \cup {l}
      BY <1>5, Parts DEF TypeOK
    <3> QED  BY <1>1, <2>12, <3>1, <3>2 DEF WorkerOK
  <2> QED  BY <1>3, <2>7, <2>8, <2>9, <2>11, <2>13 DEF SlotInv
<1>6. \/ /\ pump' = [pump EXCEPT ![p].at = "releasing"]
         /\ UNCHANGED <<dispatch, held>>
      \/ \E c : /\ dispatch' = [dispatch EXCEPT ![p] = Append(@, [call |-> c, lease |-> l])]
                /\ held' = [held EXCEPT ![p] = @ \cup {l}]
                /\ pump' = [pump EXCEPT ![p] = Idle]
  BY DEF Claim
<1> QED  BY <1>4, <1>5, <1>6

LEMMA PumpReleasesStep ==
  ASSUME SlotInv, NEW p \in Proc, PumpReleases(p)
  PROVE  SlotInv'
<1> DEFINE l == pump[p].lease
<1>1. /\ pump[p].at = "releasing" /\ ReleaseSafely(p, l)
      /\ pump' = [pump EXCEPT ![p] = [at |-> "idle", call |-> NoCall, lease |-> NoLease]]
      /\ UNCHANGED <<mode, worker, dispatch, held>>
  BY DEF PumpReleases, Idle
<1>2. /\ l # NoLease /\ l \in Lease
      /\ \A q \in Proc : /\ l \notin held[q] \cup pendingRelease[q]
                         /\ q # p => pump[q].lease # l
      /\ \A w \in Worker : worker[w].lease # l
  BY <1>1, Parts DEF SlotInv, PumpOK, TypeOK
<1>3. /\ GateType' /\ TableOK' /\ KeepsAllBut({l})
      /\ pendingRelease' \in [Proc -> SUBSET Lease]
      /\ \A q \in Proc, m \in Lease : m # l /\ m \notin pendingRelease[q] => m \notin pendingRelease'[q]
  BY <1>1, <1>2, Parts, ReleaseSafelyStep DEF TypeOK
<1>4. TypeOK'
  BY <1>1, <1>3, Parts DEF TypeOK, GateType
<1>5. \A q \in Proc : HeldOK(q)'
  BY <1>1, <1>2, <1>3, Parts DEF SlotInv, TypeOK, HeldOK, KeepsAllBut, Up
<1>6. \A q \in Proc : PumpOK(q)'
  BY <1>1, <1>2, <1>3, Parts, Consts DEF SlotInv, TypeOK, PumpOK, KeepsAllBut, Up
<1>7. \A q \in Proc : DispatchOK(q)'
  BY <1>1 DEF SlotInv, DispatchOK
<1>8. ASSUME NEW w \in Worker PROVE WorkerOK(w)'
  <2>1. WorkerOK(w) /\ worker[w].lease # l
    BY <1>2 DEF SlotInv
  <2>2. (Dispatched(w[1]))' = Dispatched(w[1])
    BY <1>1 DEF Dispatched
  <2> QED  BY <1>1, <1>3, <2>1, <2>2 DEF WorkerOK
<1> QED  BY <1>3, <1>4, <1>5, <1>6, <1>7, <1>8 DEF SlotInv

\* The lease at the head of a dispatch queue is held, in no other hands, and not
\* dispatched twice.
LEMMA FirstDispatched ==
  ASSUME SlotInv, NEW p \in Proc, dispatch[p] # <<>>
  PROVE  LET l == Head(dispatch[p]).lease IN
         /\ l \in held[p] /\ l \in Lease /\ l # NoLease /\ Up(p) /\ Owns(p, l)
         /\ \A q \in Proc : /\ l \notin pendingRelease[q] /\ pump[q].lease # l
                            /\ q # p => l \notin held[q]
         /\ \A w \in Worker : worker[w].lease # l
<1> DEFINE l == Head(dispatch[p]).lease
<1>1. l = dispatch[p][1].lease /\ 1 \in DOMAIN dispatch[p]
  BY Parts, TailSequence DEF TypeOK
<1>2. l \in held[p] /\ l \in Dispatched(p)
  BY <1>1 DEF SlotInv, DispatchOK, Dispatched
<1>3. /\ l \in Lease /\ l # NoLease /\ Up(p) /\ Owns(p, l)
      /\ \A q \in Proc : l \notin pendingRelease[q] /\ (q # p => l \notin held[q])
  BY <1>2, Parts, Consts DEF SlotInv, TypeOK, HeldOK
<1>4. \A q \in Proc : pump[q].lease # l
  BY <1>2, <1>3, Parts DEF SlotInv, PumpOK
<1>5. ASSUME NEW w \in Worker PROVE worker[w].lease # l
  <2>1. WorkerOK(w) /\ w[1] \in Proc /\ worker[w].at \in {"idle", "running", "releasing", "gone"}
    BY Parts, Consts DEF SlotInv, TypeOK
  <2>2. CASE worker[w].at = "running"
    BY <1>2, <1>3, <2>1, <2>2 DEF WorkerOK
  <2>3. CASE worker[w].at = "releasing"
    BY <1>2, <2>1, <2>3 DEF WorkerOK
  <2>4. CASE worker[w].at \in {"idle", "gone"}
    BY <1>3, <2>1, <2>4 DEF WorkerOK
  <2> QED  BY <2>1, <2>2, <2>3, <2>4
<1> QED  BY <1>2, <1>3, <1>4, <1>5

\* What the rest of the queue keeps.
LEMMA RestDispatched ==
  ASSUME SlotInv, NEW p \in Proc, dispatch[p] # <<>>,
         dispatch' = [dispatch EXCEPT ![p] = Tail(@)]
  PROVE  LET l == Head(dispatch[p]).lease IN
         /\ dispatch' = [q \in Proc |-> dispatch'[q]]
         /\ \A q \in Proc : IsSequence(dispatch'[q]) /\ Dispatched(q)' \subseteq Dispatched(q)
         /\ l \notin Dispatched(p)'
         /\ \A q \in Proc : \A j, k \in DOMAIN dispatch'[q] :
              j # k => dispatch'[q][j].lease # dispatch'[q][k].lease
<1> DEFINE s == dispatch[p]
           t == Tail(s)
<1>1. /\ IsSequence(t) /\ 1 \in DOMAIN s /\ Head(s) = s[1]
      /\ \A j \in DOMAIN t : j \in Nat /\ j > 0 /\ j + 1 \in DOMAIN s /\ t[j] = s[j + 1]
  BY Parts, TailSequence DEF TypeOK
<1>2. /\ dispatch'[p] = t /\ \A q \in Proc : q # p => dispatch'[q] = dispatch[q]
      /\ dispatch' = [q \in Proc |-> dispatch'[q]]
  BY Parts DEF TypeOK
<1>3. \A j, k \in DOMAIN s : j # k => s[j].lease # s[k].lease
  BY DEF SlotInv, DispatchOK
<1>4. \A j, k \in DOMAIN t : j # k => t[j].lease # t[k].lease
  BY <1>1, <1>3
<1>5. \A j \in DOMAIN t : t[j].lease # s[1].lease
  BY <1>1, <1>3
<1>6. \A q \in Proc : IsSequence(dispatch'[q]) /\ Dispatched(q)' \subseteq Dispatched(q)
  BY <1>1, <1>2, Parts DEF TypeOK, Dispatched
<1>7. Head(s).lease \notin Dispatched(p)'
  <2>1. Dispatched(p)' = {t[j].lease : j \in DOMAIN t}
    BY <1>2 DEF Dispatched
  <2>2. Head(s).lease = s[1].lease
    BY <1>1
  <2>3. s[1].lease \notin {t[j].lease : j \in DOMAIN t}
    BY <1>5
  <2> QED  BY <2>1, <2>2, <2>3
<1>8. \A q \in Proc : \A j, k \in DOMAIN dispatch'[q] :
        j # k => dispatch'[q][j].lease # dispatch'[q][k].lease
  BY <1>2, <1>4 DEF SlotInv, DispatchOK
<1> QED  BY <1>2, <1>6, <1>7, <1>8

\* A worker takes the lease over, and either keeps it with the call or is about to
\* release it.
LEMMA PickUpStep ==
  ASSUME SlotInv, NEW w \in Worker, PickUp(w)
  PROVE  SlotInv'
<1> DEFINE p == w[1]
           l == Head(dispatch[p]).lease
<1>1. p \in Proc /\ dispatch[p] # <<>> /\ worker[w].at = "idle"
  BY Consts DEF PickUp
<1>2. PICK a \in {"running", "releasing"}, c \in {NoCall, Head(dispatch[p]).call} :
        /\ worker' = [worker EXCEPT ![w] = [at |-> a, call |-> c, lease |-> l]]
        /\ held' = IF a = "running" THEN held ELSE [held EXCEPT ![p] = @ \ {l}]
  BY DEF PickUp, Finally
<1>3. UNCHANGED <<mode, gate, pump, pendingRelease>> /\ dispatch' = [dispatch EXCEPT ![p] = Tail(@)]
  BY DEF PickUp
<1>4. /\ l \in held[p] /\ l \in Lease /\ l # NoLease /\ Up(p) /\ Owns(p, l)
      /\ \A q \in Proc : /\ l \notin pendingRelease[q] /\ pump[q].lease # l
                         /\ q # p => l \notin held[q]
      /\ \A v \in Worker : worker[v].lease # l
  BY <1>1, FirstDispatched
<1>5. /\ dispatch' = [q \in Proc |-> dispatch'[q]]
      /\ \A q \in Proc : IsSequence(dispatch'[q]) /\ Dispatched(q)' \subseteq Dispatched(q)
      /\ l \notin Dispatched(p)'
      /\ \A q \in Proc : \A j, k \in DOMAIN dispatch'[q] :
           j # k => dispatch'[q][j].lease # dispatch'[q][k].lease
  BY <1>1, <1>3, RestDispatched
<1>6. GateType' /\ TableOK' /\ \A q \in Proc, m \in Lease : Owns(q, m) => Owns(q, m)'
  BY <1>3, GateSame
<1>7. /\ held' \in [Proc -> SUBSET Lease]
      /\ \A q \in Proc : held'[q] \subseteq held[q] /\ held[q] \ {l} \subseteq held'[q]
      /\ a = "running" => held' = held
      /\ a = "releasing" => \A q \in Proc : l \notin held'[q]
  BY <1>1, <1>2, <1>4, Parts DEF TypeOK
<1>8. /\ worker' = [v \in Worker |-> [at |-> worker'[v].at, call |-> worker'[v].call,
                                      lease |-> worker'[v].lease]]
      /\ \A v \in Worker : worker'[v].at \in {"idle", "running", "releasing", "gone"}
      /\ worker'[w].at = a /\ worker'[w].lease = l
      /\ \A v \in Worker : v # w => worker'[v] = worker[v]
  BY <1>2, Parts DEF TypeOK
<1>9. TypeOK'
  BY <1>3, <1>5, <1>6, <1>7, <1>8, Parts DEF TypeOK, GateType
<1>10. \A q \in Proc : HeldOK(q)'
  BY <1>3, <1>6, <1>7, Parts DEF SlotInv, TypeOK, HeldOK, Up
<1>11. ASSUME NEW q \in Proc PROVE PumpOK(q)'
  <2>1. PumpOK(q)
    BY DEF SlotInv
  <2>2. \A v \in Worker : worker'[v].lease \in {l, worker[v].lease}
    BY <1>8
  <2>3. pump[q].at = "granted" => pump[q].lease \in Lease
    BY <2>1, Parts DEF TypeOK, PumpOK
  <2> QED  BY <1>3, <1>4, <1>6, <1>7, <2>1, <2>2, <2>3 DEF PumpOK, Up
<1>12. ASSUME NEW q \in Proc PROVE DispatchOK(q)'
  <2>1. \A j \in DOMAIN dispatch'[q] : dispatch'[q][j].lease \in Dispatched(q)'
    BY DEF Dispatched
  <2>2. \A m \in Dispatched(q) : m \in held[q]
    BY DEF SlotInv, DispatchOK, Dispatched
  <2>3. \A m \in Dispatched(q)' : m \in held'[q]
    <3>1. CASE q = p
      BY <1>5, <1>7, <2>2, <3>1
    <3>2. CASE q # p
      BY <1>4, <1>5, <1>7, <2>2, <3>2
    <3> QED  BY <3>1, <3>2
  <2> QED  BY <1>5, <2>1, <2>3 DEF DispatchOK
<1>13. ASSUME NEW v \in Worker PROVE WorkerOK(v)'
  <2>1. WorkerOK(v) /\ v[1] \in Proc
    <3>1. \A u \in Worker : WorkerOK(u)
      BY DEF SlotInv
    <3> QED  BY <3>1, Consts
  <2>2. CASE v = w
    <3>1. worker'[v].at = a /\ worker'[v].lease = l /\ v[1] = p
      BY <1>8, <2>2
    <3>2. a = "running" => l \in held'[p] \ Dispatched(p)'
      BY <1>4, <1>5, <1>7
    <3>3. a = "releasing" => \A q \in Proc : l \notin held'[q] \cup pendingRelease'[q]
      BY <1>3, <1>4, <1>7
    <3>4. \A u \in Worker : u # v => worker'[u].lease # l
      BY <1>4, <1>8, <2>2
    <3> HIDE DEF p, l
    <3> QED  BY <1>2, <1>4, <3>1, <3>2, <3>3, <3>4 DEF WorkerOK
  <2>3. CASE v # w
    <3>1. worker'[v] = worker[v] /\ worker[v].lease # l
      BY <1>4, <1>8, <2>3
    <3> QED  BY <1>3, <1>4, <1>5, <1>7, <1>8, <2>1, <3>1 DEF WorkerOK
  <2> QED  BY <2>2, <2>3
<1> QED  BY <1>6, <1>9, <1>10, <1>11, <1>12, <1>13 DEF SlotInv

\* A worker, or the cancelled worker, is through with its call: the lease leaves
\* held_leases and is about to be released.
LEMMA FinishStep ==
  ASSUME SlotInv, NEW w \in Worker, Finish(w)
  PROVE  SlotInv'
<1> DEFINE p == w[1]
           l == worker[w].lease
<1>1. p \in Proc /\ worker[w].at = "running"
  BY Consts DEF Finish
<1>2. /\ worker' = [worker EXCEPT ![w] = [at |-> "releasing", call |-> NoCall, lease |-> l]]
      /\ held' = [held EXCEPT ![p] = @ \ {l}]
      /\ UNCHANGED <<mode, gate, pump, dispatch, pendingRelease>>
  BY DEF Finish, Finally
<1>3. l \in held[p] /\ l \notin Dispatched(p) /\ l \in Lease /\ l # NoLease
  BY <1>1, Parts, Consts DEF SlotInv, TypeOK, WorkerOK
<1>4. /\ \A q \in Proc : l \notin pendingRelease[q] /\ (q # p => l \notin held[q])
      /\ \A v \in Worker : v # w => worker[v].lease # l
  BY <1>1, <1>3 DEF SlotInv, HeldOK, WorkerOK
<1>5. GateType' /\ TableOK' /\ \A q \in Proc, m \in Lease : Owns(q, m) => Owns(q, m)'
  BY <1>2, GateSame
<1>6. /\ held' \in [Proc -> SUBSET Lease]
      /\ \A q \in Proc : held'[q] \subseteq held[q] /\ held[q] \ {l} \subseteq held'[q]
      /\ \A q \in Proc : l \notin held'[q]
  BY <1>1, <1>2, <1>4, Parts DEF TypeOK
<1>7. /\ worker' = [v \in Worker |-> [at |-> worker'[v].at, call |-> worker'[v].call,
                                      lease |-> worker'[v].lease]]
      /\ \A v \in Worker : worker'[v].at \in {"idle", "running", "releasing", "gone"}
      /\ worker'[w].at = "releasing" /\ worker'[w].lease = l
      /\ \A v \in Worker : v # w => worker'[v] = worker[v]
  BY <1>2, Parts DEF TypeOK
<1>8. TypeOK'
  BY <1>2, <1>5, <1>6, <1>7, Parts DEF TypeOK, GateType
<1>9. \A q \in Proc : HeldOK(q)'
  BY <1>2, <1>5, <1>6, Parts DEF SlotInv, TypeOK, HeldOK, Up
<1>10. ASSUME NEW q \in Proc PROVE PumpOK(q)'
  <2>1. PumpOK(q)
    BY DEF SlotInv
  <2>2. \A v \in Worker : worker'[v].lease = worker[v].lease
    BY <1>7
  <2>3. pump[q].at = "granted" => pump[q].lease \in Lease
    BY <2>1, Parts DEF TypeOK, PumpOK
  <2> QED  BY <1>2, <1>5, <1>6, <2>1, <2>2, <2>3 DEF PumpOK, Up
<1>11. ASSUME NEW q \in Proc PROVE DispatchOK(q)'
  <2>1. DispatchOK(q)
    BY DEF SlotInv
  <2>2. \A j \in DOMAIN dispatch[q] : dispatch[q][j].lease # l
    <3>1. CASE q = p
      BY <1>3, <3>1 DEF Dispatched
    <3>2. CASE q # p
      BY <1>4, <2>1, <3>2 DEF DispatchOK
    <3> QED  BY <3>1, <3>2
  <2> QED  BY <1>2, <1>6, <2>1, <2>2 DEF DispatchOK
<1>12. ASSUME NEW v \in Worker PROVE WorkerOK(v)'
  <2>1. WorkerOK(v) /\ v[1] \in Proc /\ (Dispatched(v[1]))' = Dispatched(v[1])
    BY <1>2, Consts DEF SlotInv, Dispatched
  <2>2. \A u \in Worker : worker'[u].lease = worker[u].lease
    BY <1>7
  <2>3. CASE v = w
    BY <1>2, <1>3, <1>4, <1>6, <1>7, <2>2, <2>3 DEF WorkerOK
  <2>4. CASE v # w
    BY <1>2, <1>4, <1>6, <1>7, <2>1, <2>2, <2>4 DEF WorkerOK
  <2> QED  BY <2>3, <2>4
<1> QED  BY <1>5, <1>8, <1>9, <1>10, <1>11, <1>12 DEF SlotInv

LEMMA WorkerReleasesStep ==
  ASSUME SlotInv, NEW w \in Worker, WorkerReleases(w)
  PROVE  SlotInv'
<1> DEFINE p == w[1]
           l == worker[w].lease
<1>1. /\ p \in Proc /\ worker[w].at = "releasing" /\ ReleaseSafely(p, l)
      /\ UNCHANGED <<mode, pump, dispatch, held>>
  BY Consts DEF WorkerReleases
<1>2. PICK a \in {"idle", "gone"} :
        worker' = [worker EXCEPT ![w] = [at |-> a, call |-> NoCall, lease |-> NoLease]]
  BY DEF WorkerReleases, Idle, Gone
<1>3. /\ l \in Lease /\ l # NoLease
      /\ \A q \in Proc : l \notin held[q] \cup pendingRelease[q]
      /\ \A v \in Worker : v # w => worker[v].lease # l
  BY <1>1, Consts DEF SlotInv, WorkerOK
<1>4. /\ GateType' /\ TableOK' /\ KeepsAllBut({l})
      /\ pendingRelease' \in [Proc -> SUBSET Lease]
      /\ \A q \in Proc, m \in Lease : m # l /\ m \notin pendingRelease[q] => m \notin pendingRelease'[q]
  BY <1>1, <1>3, Parts, ReleaseSafelyStep DEF TypeOK
<1>5. /\ worker' = [v \in Worker |-> [at |-> worker'[v].at, call |-> worker'[v].call,
                                      lease |-> worker'[v].lease]]
      /\ \A v \in Worker : worker'[v].at \in {"idle", "running", "releasing", "gone"}
      /\ worker'[w].at = a /\ worker'[w].lease = NoLease
      /\ \A v \in Worker : v # w => worker'[v] = worker[v]
  BY <1>2, Parts DEF TypeOK
<1>6. TypeOK'
  BY <1>1, <1>4, <1>5, Parts DEF TypeOK, GateType
<1>7. \A q \in Proc : HeldOK(q)'
  BY <1>1, <1>3, <1>4, Parts DEF SlotInv, TypeOK, HeldOK, KeepsAllBut, Up
<1>8. ASSUME NEW q \in Proc PROVE PumpOK(q)'
  <2>1. PumpOK(q)
    BY DEF SlotInv
  <2>2. pump[q].at \in {"granted", "releasing"} => pump[q].lease \in Lease /\ pump[q].lease # l
    BY <2>1, Parts DEF TypeOK, PumpOK
  <2>3. \A v \in Worker : worker'[v].lease \in {NoLease, worker[v].lease}
    BY <1>5
  <2> QED  BY <1>1, <1>4, <2>1, <2>2, <2>3 DEF PumpOK, KeepsAllBut, Up
<1>9. \A q \in Proc : DispatchOK(q)'
  BY <1>1 DEF SlotInv, DispatchOK
<1>10. ASSUME NEW v \in Worker PROVE WorkerOK(v)'
  <2>1. WorkerOK(v) /\ (Dispatched(v[1]))' = Dispatched(v[1])
    BY <1>1 DEF SlotInv, Dispatched
  <2>2. CASE v = w
    BY <1>2, <1>5, <2>2 DEF WorkerOK
  <2>3. CASE v # w
    BY <1>1, <1>3, <1>4, <1>5, <2>1, <2>3 DEF WorkerOK
  <2> QED  BY <2>2, <2>3
<1> QED  BY <1>4, <1>6, <1>7, <1>8, <1>9, <1>10 DEF SlotInv

\* The health check renews the slots of the leases held,
LEMMA RenewHeldStep ==
  ASSUME SlotInv, NEW p \in Proc, Renew(p)
  PROVE  SlotInv'
<1>1. /\ RenewSlots(p, held[p])
      /\ UNCHANGED <<mode, pump, worker, dispatch, held, pendingRelease>>
  BY DEF Renew, loops, leases
<1>2. \A m \in held[p] : /\ Owns(p, m)
                         /\ \A q \in Proc : q # p => m \in lapsed \/ ~ Owns(q, m)
  BY DEF SlotInv, HeldOK, Owns
<1>3. GateType' /\ TableOK' /\ KeepsAllBut({})
  BY <1>1, <1>2, Parts, RenewStep
<1> QED  BY <1>1, <1>3, GateOnly

\* releases again what a failed release left,
LEMMA RetryReleaseStep ==
  ASSUME SlotInv, NEW p \in Proc, RetryRelease(p)
  PROVE  SlotInv'
<1> PICK l \in pendingRelease[p] :
       /\ ReleaseSlots({l})
       /\ pendingRelease' = [pendingRelease EXCEPT ![p] = @ \ {l}]
  BY DEF RetryRelease
<1>1. UNCHANGED <<mode, pump, worker, dispatch, held>>
  BY DEF RetryRelease, loops
<1>2. GateType' /\ TableOK' /\ KeepsAllBut({l})
  BY <1>1, Parts, ReleaseStep
<1>3. /\ pendingRelease' \in [Proc -> SUBSET Lease]
      /\ \A q \in Proc : pendingRelease'[q] \subseteq pendingRelease[q]
  BY Parts DEF TypeOK
<1>4. TypeOK'
  BY <1>1, <1>2, <1>3, Parts DEF TypeOK, GateType
<1>5. \A q \in Proc : HeldOK(q)'
  BY <1>1, <1>2, <1>3, Parts DEF SlotInv, TypeOK, HeldOK, KeepsAllBut, Up
<1>6. ASSUME NEW q \in Proc PROVE PumpOK(q)'
  <2>1. PumpOK(q)
    BY DEF SlotInv
  <2>2. pump[q].at = "granted" => pump[q].lease \in Lease /\ pump[q].lease # l
    BY <2>1, Parts DEF TypeOK, PumpOK
  <2> QED  BY <1>1, <1>2, <1>3, <2>1, <2>2 DEF PumpOK, KeepsAllBut, Up
<1>7. \A q \in Proc : DispatchOK(q)'
  BY <1>1 DEF SlotInv, DispatchOK
<1>8. \A w \in Worker : WorkerOK(w)'
  BY <1>1, <1>3 DEF SlotInv, WorkerOK, Dispatched
<1> QED  BY <1>2, <1>4, <1>5, <1>6, <1>7, <1>8 DEF SlotInv

\* and reconciles the table.
LEMMA ReconcileStep ==
  ASSUME SlotInv, NEW p \in Proc, Reconcile(p)
  PROVE  SlotInv'
<1>1. GateType' /\ TableOK' /\ KeepsAllBut({})
  BY Parts, ReapStep DEF Reconcile
<1> QED  BY <1>1, GateOnly DEF Reconcile, loops, leases

\* The pump is cancelled.
LEMMA StopPumpStep ==
  ASSUME SlotInv, NEW p \in Proc, StopPump(p), UNCHANGED <<mode, gate, worker, dispatch, held>>
  PROVE  SlotInv'
<1> DEFINE l == pump[p].lease
<1>1. /\ pump' = [pump EXCEPT ![p] = [at |-> "gone", call |-> NoCall, lease |-> NoLease]]
      /\ pendingRelease' = [pendingRelease EXCEPT ![p] =
                              IF pump[p].at = "releasing" THEN @ \cup {l} ELSE @]
  BY DEF StopPump, Gone
<1>2. GateType' /\ TableOK' /\ \A q \in Proc, m \in Lease : Owns(q, m) => Owns(q, m)'
  BY GateSame
<1>3. pump[p].at = "releasing" =>
        /\ l \in Lease
        /\ \A q \in Proc : l \notin held[q] /\ (q # p => pump[q].lease # l)
        /\ \A w \in Worker : worker[w].lease # l
  BY Parts DEF SlotInv, TypeOK, PumpOK
<1>4. /\ pendingRelease' \in [Proc -> SUBSET Lease]
      /\ \A q \in Proc : pendingRelease'[q] \subseteq
           pendingRelease[q] \cup (IF pump[p].at = "releasing" THEN {l} ELSE {})
  BY <1>1, <1>3, Parts DEF TypeOK
<1>5. TypeOK'
  BY <1>1, <1>2, <1>4, Parts DEF TypeOK, GateType
<1>6. \A q \in Proc : HeldOK(q)'
  BY <1>2, <1>3, <1>4, Parts DEF SlotInv, TypeOK, HeldOK, Up
<1>7. ASSUME NEW q \in Proc PROVE PumpOK(q)'
  <2>1. CASE q = p
    BY <1>1, <2>1, Parts DEF TypeOK, PumpOK
  <2>2. CASE q # p
    <3>1. PumpOK(q) /\ pump'[q] = pump[q]
      BY <1>1, <2>2, Parts DEF SlotInv, TypeOK
    <3>2. \A r \in Proc : pump'[r].lease \in {NoLease, pump[r].lease}
      BY <1>1, Parts DEF TypeOK
    <3>3. pump[q].at = "granted" => pump[q].lease \in Lease
      BY <3>1, Parts DEF TypeOK, PumpOK
    <3> QED  BY <1>2, <1>3, <1>4, <2>2, <3>1, <3>2, <3>3 DEF PumpOK, Up
  <2> QED  BY <2>1, <2>2
<1>8. \A q \in Proc : DispatchOK(q)'
  BY DEF SlotInv, DispatchOK
<1>9. ASSUME NEW w \in Worker PROVE WorkerOK(w)'
  <2>1. WorkerOK(w) /\ (Dispatched(w[1]))' = Dispatched(w[1])
    BY DEF SlotInv, Dispatched
  <2> QED  BY <1>3, <1>4, <2>1 DEF WorkerOK
<1> QED  BY <1>2, <1>5, <1>6, <1>7, <1>8, <1>9 DEF SlotInv

\* The workers are cancelled; the running ones are like the one of FinishStep.
LEMMA CancelWorkersStep ==
  ASSUME SlotInv, NEW p \in Proc, CancelWorkers(p)
  PROVE  SlotInv'
<1> DEFINE ended == {worker[w].lease : w \in Executing(p)}
           parked == {worker[w].lease : w \in {v \in WorkersOf(p) : worker[v].at = "releasing"}}
<1>1. /\ held' = [held EXCEPT ![p] = @ \ ended]
      /\ pendingRelease' = [pendingRelease EXCEPT ![p] = @ \cup parked]
      /\ worker' = [w \in Worker |->
                      IF w \in Executing(p)
                      THEN [at |-> "releasing", call |-> NoCall, lease |-> worker[w].lease]
                      ELSE IF w[1] = p THEN [at |-> "gone", call |-> NoCall, lease |-> NoLease]
                      ELSE worker[w]]
      /\ UNCHANGED <<mode, gate, dispatch, pump>>
  BY DEF CancelWorkers, Gone
<1>2. GateType' /\ TableOK' /\ \A q \in Proc, m \in Lease : Owns(q, m) => Owns(q, m)'
  BY <1>1, GateSame
<1>3. /\ Executing(p) = {w \in Worker : w[1] = p /\ worker[w].at = "running"}
      /\ \A w \in Worker : w[1] = p /\ worker[w].at = "running" => worker[w].lease \in ended
      /\ \A w \in Worker : w[1] = p /\ worker[w].at = "releasing" => worker[w].lease \in parked
      /\ \A m \in ended : \E w \in Worker :
           w[1] = p /\ worker[w].at = "running" /\ m = worker[w].lease
      /\ \A m \in parked : \E w \in Worker :
           w[1] = p /\ worker[w].at = "releasing" /\ m = worker[w].lease
  BY DEF Executing, WorkersOf
<1>4. ASSUME NEW m \in ended
      PROVE  /\ m \in Lease /\ m \in held[p] /\ m \notin Dispatched(p)
             /\ \A q \in Proc : m \notin pendingRelease[q] /\ (q # p => m \notin held[q])
  <2> PICK w \in Worker : w[1] = p /\ worker[w].at = "running" /\ m = worker[w].lease
    BY <1>3
  <2>1. m \in held[p] /\ m \notin Dispatched(p)
    BY DEF SlotInv, WorkerOK
  <2> QED  BY <2>1, Parts DEF SlotInv, TypeOK, HeldOK
<1>5. ASSUME NEW m \in parked
      PROVE  m \in Lease /\ \A q \in Proc : m \notin held[q]
  <2> PICK w \in Worker : w[1] = p /\ worker[w].at = "releasing" /\ m = worker[w].lease
    BY <1>3
  <2> QED  BY DEF SlotInv, WorkerOK
<1>6. /\ held' \in [Proc -> SUBSET Lease]
      /\ \A q \in Proc : held'[q] \subseteq held[q] /\ (q # p => held'[q] = held[q])
      /\ held'[p] = held[p] \ ended
  BY <1>1, Parts DEF TypeOK
<1>7. /\ pendingRelease' \in [Proc -> SUBSET Lease]
      /\ \A q \in Proc : pendingRelease'[q] \subseteq pendingRelease[q] \cup parked
  BY <1>1, <1>5, Parts DEF TypeOK
<1>8. ASSUME NEW w \in Worker
      PROVE  /\ worker'[w] = [at |-> worker'[w].at, call |-> worker'[w].call,
                              lease |-> worker'[w].lease]
             /\ worker'[w].at \in {"idle", "running", "releasing", "gone"}
             /\ worker'[w].lease \in {NoLease, worker[w].lease}
             /\ w[1] # p => worker'[w] = worker[w]
             /\ w[1] = p => \/ worker'[w].at = "gone" /\ worker'[w].lease = NoLease
                            \/ /\ worker[w].at = "running" /\ worker'[w].at = "releasing"
                               /\ worker'[w].lease = worker[w].lease
  BY <1>1, <1>3, Parts DEF TypeOK
<1>9. worker' = [w \in Worker |-> [at |-> worker'[w].at, call |-> worker'[w].call,
                                   lease |-> worker'[w].lease]]
  <2>1. worker' = [w \in Worker |-> worker'[w]]
    BY <1>1
  <2> QED  BY <1>8, <2>1
<1>10. TypeOK'
  BY <1>1, <1>2, <1>6, <1>7, <1>8, <1>9, Parts DEF TypeOK, GateType
<1>11. \A q \in Proc : HeldOK(q)'
  BY <1>1, <1>2, <1>5, <1>6, <1>7, Parts DEF SlotInv, TypeOK, HeldOK, Up
<1>12. ASSUME NEW q \in Proc PROVE PumpOK(q)'
  <2>1. PumpOK(q) /\ (pump[q].at = "granted" => pump[q].lease \in Lease)
    BY Parts DEF SlotInv, TypeOK, PumpOK
  <2>2. pump[q].at \in {"granted", "releasing"} => pump[q].lease \notin parked
    BY <1>3, <2>1 DEF PumpOK
  <2> QED  BY <1>1, <1>2, <1>6, <1>7, <1>8, <2>1, <2>2 DEF PumpOK, Up
<1>13. ASSUME NEW q \in Proc PROVE DispatchOK(q)'
  <2>1. DispatchOK(q)
    BY DEF SlotInv
  <2>2. q = p => \A j \in DOMAIN dispatch[q] : dispatch[q][j].lease \notin ended
    BY <1>4 DEF Dispatched
  <2> QED  BY <1>1, <1>6, <2>1, <2>2 DEF DispatchOK
<1>14. ASSUME NEW w \in Worker PROVE WorkerOK(w)'
  <2>1. WorkerOK(w) /\ (Dispatched(w[1]))' = Dispatched(w[1]) /\ w[1] \in Proc
    BY <1>1, Consts DEF SlotInv, Dispatched
  <2>2. \A v \in Worker : v # w => worker'[w].lease = NoLease \/ worker'[v].lease # worker'[w].lease
    BY <1>8, <2>1 DEF WorkerOK
  <2>3. CASE w[1] = p
    <3>1. CASE worker[w].at = "running" /\ worker'[w].at = "releasing"
               /\ worker'[w].lease = worker[w].lease
      <4>1. worker[w].lease \in ended /\ worker[w].lease \notin parked
        BY <1>3, <1>4, <1>5, <2>3, <3>1
      <4> QED  BY <1>4, <1>6, <1>7, <2>2, <3>1, <4>1 DEF WorkerOK
    <3>2. CASE worker'[w].at = "gone" /\ worker'[w].lease = NoLease
      BY <2>2, <3>2 DEF WorkerOK
    <3> QED  BY <1>8, <2>3, <3>1, <3>2
  <2>4. CASE w[1] # p
    <3>1. worker[w].at = "releasing" => worker[w].lease \notin parked
      <4>1. \A v \in Worker : v[1] = p => v # w
        BY <2>4
      <4>2. worker[w].at = "releasing" => worker[w].lease \in Lease
        BY <2>1 DEF WorkerOK
      <4> QED  BY <1>3, <2>1, <4>1, <4>2, Consts DEF WorkerOK
    <3> QED  BY <1>1, <1>6, <1>7, <1>8, <2>1, <2>2, <2>4, <3>1 DEF WorkerOK
  <2> QED  BY <2>3, <2>4
<1> QED  BY <1>2, <1>10, <1>11, <1>12, <1>13, <1>14 DEF SlotInv

\* What was dispatched and not picked up is released.
LEMMA DrainDispatchStep ==
  ASSUME SlotInv, NEW p \in Proc, DrainDispatch(p)
  PROVE  SlotInv'
<1> DEFINE l == Head(dispatch[p]).lease
<1>1. /\ dispatch[p] # <<>> /\ dispatch' = [dispatch EXCEPT ![p] = Tail(@)]
      /\ held' = [held EXCEPT ![p] = @ \ {l}]
      /\ ReleaseSafely(p, l)
      /\ UNCHANGED <<mode, pump, worker>>
  BY DEF DrainDispatch
<1>2. /\ l \in held[p] /\ l \in Lease
      /\ \A q \in Proc : /\ l \notin pendingRelease[q] /\ pump[q].lease # l
                         /\ q # p => l \notin held[q]
      /\ \A v \in Worker : worker[v].lease # l
  BY <1>1, FirstDispatched
<1>3. /\ dispatch' = [q \in Proc |-> dispatch'[q]]
      /\ \A q \in Proc : IsSequence(dispatch'[q]) /\ Dispatched(q)' \subseteq Dispatched(q)
      /\ l \notin Dispatched(p)'
      /\ \A q \in Proc : \A j, k \in DOMAIN dispatch'[q] :
           j # k => dispatch'[q][j].lease # dispatch'[q][k].lease
  BY <1>1, RestDispatched
<1>4. /\ GateType' /\ TableOK' /\ KeepsAllBut({l})
      /\ pendingRelease' \in [Proc -> SUBSET Lease]
      /\ \A q \in Proc, m \in Lease : m # l /\ m \notin pendingRelease[q] => m \notin pendingRelease'[q]
  BY <1>1, <1>2, Parts, ReleaseSafelyStep DEF TypeOK
<1>5. /\ held' \in [Proc -> SUBSET Lease]
      /\ \A q \in Proc : held'[q] \subseteq held[q] /\ held[q] \ {l} \subseteq held'[q]
      /\ \A q \in Proc : l \notin held'[q]
  BY <1>1, <1>2, Parts DEF TypeOK
<1>6. TypeOK'
  BY <1>1, <1>3, <1>4, <1>5, Parts DEF TypeOK, GateType
<1>7. \A q \in Proc : HeldOK(q)'
  BY <1>1, <1>4, <1>5, Parts DEF SlotInv, TypeOK, HeldOK, KeepsAllBut, Up
<1>8. ASSUME NEW q \in Proc PROVE PumpOK(q)'
  <2>1. PumpOK(q)
    BY DEF SlotInv
  <2>2. pump[q].at \in {"granted", "releasing"} => pump[q].lease \in Lease
    BY <2>1, Parts DEF TypeOK, PumpOK
  <2> QED  BY <1>1, <1>2, <1>4, <1>5, <2>1, <2>2 DEF PumpOK, KeepsAllBut, Up
<1>9. ASSUME NEW q \in Proc PROVE DispatchOK(q)'
  <2>1. \A j \in DOMAIN dispatch'[q] : dispatch'[q][j].lease \in Dispatched(q)'
    BY DEF Dispatched
  <2>2. \A m \in Dispatched(q) : m \in held[q]
    BY DEF SlotInv, DispatchOK, Dispatched
  <2>3. \A m \in Dispatched(q)' : m \in held'[q]
    <3>1. CASE q = p
      BY <1>3, <1>5, <2>2, <3>1
    <3>2. CASE q # p
      BY <1>2, <1>3, <1>5, <2>2, <3>2
    <3> QED  BY <3>1, <3>2
  <2> QED  BY <1>3, <2>1, <2>3 DEF DispatchOK
<1>10. ASSUME NEW w \in Worker PROVE WorkerOK(w)'
  <2>1. WorkerOK(w) /\ w[1] \in Proc /\ worker[w].lease # l
    BY <1>2, Consts DEF SlotInv
  <2> QED  BY <1>1, <1>3, <1>4, <1>5, <2>1 DEF WorkerOK
<1> QED  BY <1>4, <1>6, <1>7, <1>8, <1>9, <1>10 DEF SlotInv

\* A stopped process has no lease left in its hands.
LEMMA NothingDispatched ==
  ASSUME SlotInv, NEW p \in Proc, dispatch'[p] = <<>>
  PROVE  DispatchOK(p)' /\ IsSequence(dispatch'[p])
<1>1. <<>> \in Seq({}) /\ DOMAIN <<>> = {}
  OBVIOUS
<1> QED  BY <1>1, OwnRange DEF DispatchOK

LEMMA CloseStep ==
  ASSUME SlotInv, NEW p \in Proc, Close(p)
  PROVE  SlotInv'
<1> DEFINE left == held[p] \cup pendingRelease[p]
<1>1. /\ held' = [held EXCEPT ![p] = {}]
      /\ pendingRelease' = [pendingRelease EXCEPT ![p] = {}]
      /\ Gathered(p) /\ UNCHANGED <<mode, pump, worker, dispatch>>
  BY DEF Close, loops
<1>2. PICK L \in SUBSET left : ReleaseSlots(L)
  BY DEF Close
<1>3. GateType' /\ TableOK' /\ KeepsAllBut(L)
  BY <1>1, <1>2, Parts, ReleaseStep
<1>4. /\ held' \in [Proc -> SUBSET Lease] /\ pendingRelease' \in [Proc -> SUBSET Lease]
      /\ held'[p] = {}
      /\ \A q \in Proc : /\ held'[q] \subseteq held[q] /\ (q # p => held'[q] = held[q])
                         /\ pendingRelease'[q] \subseteq pendingRelease[q]
  BY <1>1, Parts DEF TypeOK
<1>5. \A q \in Proc, m \in Lease : q # p /\ m \in held[q] => m \notin L
  BY DEF SlotInv, HeldOK
<1>6. TypeOK'
  BY <1>1, <1>3, <1>4, Parts DEF TypeOK, GateType
<1>7. \A q \in Proc : HeldOK(q)'
  BY <1>1, <1>3, <1>4, <1>5, Parts DEF SlotInv, TypeOK, HeldOK, KeepsAllBut, Up
<1>8. ASSUME NEW q \in Proc PROVE PumpOK(q)'
  <2>1. PumpOK(q) /\ (pump[q].at = "granted" => pump[q].lease \in Lease \ L)
    BY Parts DEF SlotInv, TypeOK, PumpOK
  <2> QED  BY <1>1, <1>3, <1>4, <2>1 DEF PumpOK, KeepsAllBut, Up
<1>9. ASSUME NEW w \in Worker PROVE w[1] = p => worker[w].at = "gone"
  BY <1>1 DEF Gathered, WorkersOf
<1>10. dispatch[p] = <<>>
  BY DEF Close
<1>11. ASSUME NEW q \in Proc PROVE DispatchOK(q)'
  <2>1. CASE q = p
    BY <1>1, <1>10, <2>1, NothingDispatched
  <2>2. CASE q # p
    BY <1>1, <1>4, <2>2 DEF SlotInv, DispatchOK
  <2> QED  BY <2>1, <2>2
<1>12. ASSUME NEW w \in Worker PROVE WorkerOK(w)'
  <2>1. WorkerOK(w) /\ (Dispatched(w[1]))' = Dispatched(w[1]) /\ w[1] \in Proc
    BY <1>1, Consts DEF SlotInv, Dispatched
  <2> QED  BY <1>1, <1>4, <1>9, <2>1 DEF WorkerOK
<1> QED  BY <1>3, <1>6, <1>7, <1>8, <1>11, <1>12 DEF SlotInv

\* A process is killed; its slots stay in the table.
LEMMA KillStep ==
  ASSUME SlotInv, NEW p \in Proc, Kill(p)
  PROVE  SlotInv'
<1>1. /\ pump' = [pump EXCEPT ![p] = [at |-> "gone", call |-> NoCall, lease |-> NoLease]]
      /\ worker' = [w \in Worker |->
                      IF w[1] = p THEN [at |-> "gone", call |-> NoCall, lease |-> NoLease]
                                  ELSE worker[w]]
      /\ dispatch' = [dispatch EXCEPT ![p] = <<>>]
      /\ held' = [held EXCEPT ![p] = {}] /\ pendingRelease' = [pendingRelease EXCEPT ![p] = {}]
      /\ UNCHANGED gate
  BY DEF Kill, Gone
<1>2. /\ mode' \in [Proc -> {"running", "dead", "ghost"}]
      /\ \A q \in Proc : q # p => mode'[q] = mode[q]
  BY Parts DEF Kill, TypeOK
<1>3. GateType' /\ TableOK' /\ \A q \in Proc, m \in Lease : Owns(q, m) => Owns(q, m)'
  BY <1>1, <1>2, Parts DEF gate, GateType, TableOK, Owns, InUse
<1>4. /\ held' \in [Proc -> SUBSET Lease] /\ pendingRelease' \in [Proc -> SUBSET Lease]
      /\ held'[p] = {}
      /\ \A q \in Proc : /\ held'[q] \subseteq held[q] /\ (q # p => held'[q] = held[q])
                         /\ pendingRelease'[q] \subseteq pendingRelease[q]
  BY <1>1, Parts DEF TypeOK
<1>5. /\ dispatch' = [q \in Proc |-> dispatch'[q]] /\ dispatch'[p] = <<>>
      /\ \A q \in Proc : q # p => dispatch'[q] = dispatch[q]
  BY <1>1, Parts DEF TypeOK
<1>6. ASSUME NEW w \in Worker
      PROVE  /\ worker'[w] = [at |-> worker'[w].at, call |-> worker'[w].call,
                              lease |-> worker'[w].lease]
             /\ worker'[w].at \in {"idle", "running", "releasing", "gone"}
             /\ worker'[w].lease \in {NoLease, worker[w].lease}
             /\ w[1] # p => worker'[w] = worker[w]
             /\ w[1] = p => worker'[w].at = "gone" /\ worker'[w].lease = NoLease
  BY <1>1, Parts DEF TypeOK
<1>7. worker' = [w \in Worker |-> [at |-> worker'[w].at, call |-> worker'[w].call,
                                   lease |-> worker'[w].lease]]
  <2>1. worker' = [w \in Worker |-> worker'[w]]
    BY <1>1
  <2> QED  BY <1>6, <2>1
<1>8. \A q \in Proc : IsSequence(dispatch'[q])
  BY <1>5, NothingDispatched, Parts DEF TypeOK
<1>9. pump' \in [Proc -> [at : {"idle", "asking", "granted", "releasing", "gone"},
                          call : {NoCall}, lease : Lease \cup {NoLease}]]
  BY <1>1, Parts DEF TypeOK
<1>10. TypeOK'
  BY <1>2, <1>3, <1>4, <1>5, <1>6, <1>7, <1>8, <1>9 DEF TypeOK, GateType
<1>11. \A q \in Proc : HeldOK(q)'
  BY <1>2, <1>3, <1>4, Parts DEF SlotInv, TypeOK, HeldOK, Up
<1>12. ASSUME NEW q \in Proc PROVE PumpOK(q)'
  <2>1. CASE q = p
    BY <1>1, <2>1, Parts DEF TypeOK, PumpOK
  <2>2. CASE q # p
    <3>1. PumpOK(q) /\ pump'[q] = pump[q]
      BY <1>1, <2>2, Parts DEF SlotInv, TypeOK
    <3>2. \A r \in Proc : pump'[r].lease \in {NoLease, pump[r].lease}
      BY <1>1, Parts DEF TypeOK
    <3>3. pump[q].at = "granted" => pump[q].lease \in Lease
      BY <3>1, Parts DEF TypeOK, PumpOK
    <3>4. \A w \in Worker : worker'[w].lease \in {NoLease, worker[w].lease}
      BY <1>6
    <3>5. mode'[q] = mode[q] /\ (pump[q].at = "granted" /\ Owns(q, pump[q].lease) =>
                                    Owns(q, pump[q].lease)')
      BY <1>2, <1>3, <2>2, <3>1, <3>3
    <3>6. \A r \in Proc : held'[r] \subseteq held[r] /\ pendingRelease'[r] \subseteq pendingRelease[r]
      BY <1>4
    <3> QED  BY <3>1, <3>2, <3>4, <3>5, <3>6 DEF PumpOK, Up
  <2> QED  BY <2>1, <2>2
<1>13. \A q \in Proc : DispatchOK(q)'
  BY <1>4, <1>5, NothingDispatched DEF SlotInv, DispatchOK
<1>14. ASSUME NEW w \in Worker PROVE WorkerOK(w)'
  <2>1. WorkerOK(w) /\ w[1] \in Proc
    BY Consts DEF SlotInv
  <2>2. \A v \in Worker : v # w => worker'[w].lease = NoLease \/ worker'[v].lease # worker'[w].lease
    BY <1>6, <2>1 DEF WorkerOK
  <2>3. CASE w[1] = p
    BY <1>6, <2>2, <2>3 DEF WorkerOK
  <2>4. CASE w[1] # p
    <3>1. (Dispatched(w[1]))' = Dispatched(w[1])
      BY <1>5, <2>1, <2>4 DEF Dispatched
    <3> QED  BY <1>4, <1>6, <2>1, <2>2, <2>4, <3>1 DEF WorkerOK
  <2> QED  BY <2>3, <2>4
<1> QED  BY <1>3, <1>10, <1>11, <1>12, <1>13, <1>14 DEF SlotInv

\* The clock ticks.
LEMMA ClockStep ==
  ASSUME SlotInv, NEW l \in Lease, Time(l)
  PROVE  SlotInv'
<1>1. /\ HeartbeatExpires(l) \/ GraceEnds(l)
      /\ UNCHANGED <<mode, pump, worker, dispatch, held, pendingRelease>>
  BY DEF Time, loops, leases
<1>2. GateType' /\ TableOK' /\ KeepsAllBut({})
  BY <1>1, Parts, TimeStep
<1> QED  BY <1>1, <1>2, GateOnly

\* The actions that move no lease.
LEMMA CallsStep ==
  ASSUME SlotInv,
         \/ \E c \in Call : CallStep(c) \/ Stuck(c)
         \/ \E p \in Proc : Compact(p) \/ StartShutdown(p)
  PROVE  SlotInv'
<1>1. UNCHANGED <<mode, gate, loops, leases>>
  BY DEF CallStep, Submit, GiveUpAdmission, Return, UserTimeout, CleanupEnds, Leave, Stuck,
     Compact, StartShutdown
<1> QED  BY <1>1, SlotsUntouched DEF loops, leases

-----------------------------------------------------------------------------
(* 3. The theorems.                                                        *)

LEMMA SlotInit == Init => SlotInv
<1> SUFFICES ASSUME Init PROVE SlotInv
  OBVIOUS
<1>1. /\ pump = [p \in Proc |-> [at |-> "idle", call |-> NoCall, lease |-> NoLease]]
      /\ worker = [w \in Worker |-> [at |-> "idle", call |-> NoCall, lease |-> NoLease]]
  BY DEF Init, Idle
<1>2. \A p \in Proc : dispatch[p] = <<>> /\ IsSequence(dispatch[p]) /\ DOMAIN dispatch[p] = {}
  <2>1. <<>> \in Seq({}) /\ DOMAIN <<>> = {}
    OBVIOUS
  <2> QED  BY <2>1, OwnRange DEF Init
<1>3. TypeOK
  BY <1>1, <1>2 DEF Init, TypeOK
<1>4. InUse(table) = {}
  BY DEF Init, InUse
<1>5. TableOK
  BY <1>4, FS_EmptySet, Consts DEF TableOK
<1>6. \A p \in Proc : HeldOK(p) /\ PumpOK(p) /\ DispatchOK(p)
  BY <1>1, <1>2 DEF Init, HeldOK, PumpOK, DispatchOK
<1>7. \A w \in Worker : WorkerOK(w)
  BY <1>1 DEF WorkerOK
<1> QED  BY <1>3, <1>5, <1>6, <1>7 DEF SlotInv

LEMMA SlotStep ==
  ASSUME SlotInv, [Next]_vars
  PROVE  SlotInv'
<1>1. CASE \/ \E c \in Call : CallStep(c) \/ Stuck(c)
           \/ \E p \in Proc : Compact(p) \/ StartShutdown(p)
  BY <1>1, CallsStep
<1>2. ASSUME NEW p \in Proc, PumpStep(p)
      PROVE  SlotInv'
  BY <1>2, AskStep, GrantedStep, RefusedStep, AskFailsStep, ClaimStep, PumpReleasesStep
     DEF PumpStep
<1>3. ASSUME NEW p \in Proc, Renew(p) \/ RetryRelease(p) \/ Reconcile(p)
      PROVE  SlotInv'
  BY <1>3, RenewHeldStep, RetryReleaseStep, ReconcileStep
<1>4. ASSUME NEW p \in Proc, StopStep(p)
      PROVE  SlotInv'
  <2>1. CASE Drain(p) \/ ForceExit(p)
    BY <2>1, StopPumpStep DEF Drain, ForceExit
  <2> QED  BY <1>4, <2>1, CancelWorkersStep, DrainDispatchStep, CloseStep DEF StopStep
<1>5. ASSUME NEW p \in Proc, Kill(p)
      PROVE  SlotInv'
  BY <1>5, KillStep
<1>6. ASSUME NEW w \in Worker, WorkerStep(w)
      PROVE  SlotInv'
  BY <1>6, PickUpStep, FinishStep, WorkerReleasesStep DEF WorkerStep
<1>7. ASSUME NEW l \in Lease, Time(l)
      PROVE  SlotInv'
  BY <1>7, ClockStep
<1>8. CASE UNCHANGED vars
  BY <1>8, SlotsUntouched DEF vars, loops, leases
<1> QED  BY <1>1, <1>2, <1>3, <1>4, <1>5, <1>6, <1>7, <1>8 DEF Next, HealthStep

\* Each lease is in at most one pair of hands, and each one held still has its slot
\* or was lapsed: an invariant of every step of pump, workers, health check,
\* shutdown, reaper, clock and crashes.
THEOREM SlotInvariance == Spec => []SlotInv
<1>1. SlotInv /\ [Next]_vars => SlotInv'
  BY SlotStep
<1> QED  BY SlotInit, <1>1, PTL DEF Spec

\* Neither the table of the group nor the calls in flight of all its processes,
\* apart from the lapsed, ever exceed the limit.
THEOREM LimitHolds == Spec => []WithinLimit
<1>1. ASSUME SlotInv PROVE WithinLimit
  <2> DEFINE S == {w \in Running : worker[w].lease \notin lapsed}
             T == InUse(table)
             f == [w \in S |-> worker[w].lease]
  <2>1. IsFiniteSet(T) /\ Cardinality(T) <= Limit /\ Cardinality(T) \in Nat
    BY <1>1, Parts, NoMore
  <2>2. ASSUME NEW w \in S
        PROVE  worker[w].lease \in T /\ worker[w].lease # NoLease
    <3>1. w \in Worker /\ worker[w].at = "running" /\ w[1] \in Proc
      BY Consts DEF Running
    <3>2. worker[w].lease \in held[w[1]] /\ worker[w].lease \in Lease
      BY <1>1, <3>1, Parts DEF SlotInv, TypeOK, WorkerOK
    <3>3. Owns(w[1], worker[w].lease)
      BY <1>1, <3>1, <3>2 DEF SlotInv, HeldOK
    <3> QED  BY <3>2, <3>3, Consts DEF Owns, InUse
  <2>3. ASSUME NEW w \in S, NEW v \in S, worker[w].lease = worker[v].lease
        PROVE  w = v
    BY <1>1, <2>2, <2>3 DEF SlotInv, WorkerOK, Running
  <2>4. f \in Injection(S, T)
    BY <2>2, <2>3 DEF Injection, IsInjective
  <2>5. IsFiniteSet(S) /\ Cardinality(S) <= Cardinality(T)
    BY <2>1, <2>4, FS_Injection
  <2>6. Cardinality(S) \in Nat
    BY <2>5, FS_CardinalityType
  <2> QED  BY <2>1, <2>5, <2>6, Consts DEF WithinLimit
<1> QED  BY SlotInvariance, <1>1, PTL

\* A running process loses a slot only after a reaper marked its lease suspect and
\* the owner did not renew it since.
THEOREM WarnedBeforeLapse == Spec => WarnedFirst
<1>1. ASSUME SlotInv, [Next]_vars
      PROVE  lapsed' \subseteq lapsed \/ lapsed' \subseteq Lapsed
  <2>1. ASSUME NEW p \in Proc, PumpStep(p)
        PROVE  lapsed' \subseteq lapsed \/ lapsed' \subseteq Lapsed
    BY <2>1 DEF PumpStep, Ask, Granted, Refused, AskFails, Claim, PumpReleases, ReleaseSafely,
       ReleaseSlots, Reap, Grant, gate
  <2>2. ASSUME NEW p \in Proc, HealthStep(p) \/ StopStep(p) \/ StartShutdown(p) \/ Kill(p)
        PROVE  lapsed' \subseteq lapsed \/ lapsed' \subseteq Lapsed
    BY <2>2 DEF HealthStep, StopStep, Renew, RetryRelease, Reconcile, Compact, StartShutdown, Drain,
       ForceExit, CancelWorkers, DrainDispatch, Close, Kill, ReleaseSafely, ReleaseSlots, RenewSlots,
       Reap, gate
  <2>3. ASSUME NEW w \in Worker, WorkerStep(w)
        PROVE  lapsed' \subseteq lapsed \/ lapsed' \subseteq Lapsed
    BY <2>3 DEF WorkerStep, PickUp, Finish, WorkerReleases, ReleaseSafely, ReleaseSlots, gate
  <2>4. ASSUME NEW l \in Lease, Time(l)
        PROVE  lapsed' \subseteq lapsed \/ lapsed' \subseteq Lapsed
    BY <2>4 DEF Time, HeartbeatExpires, GraceEnds
  <2>5. ASSUME NEW c \in Call, CallStep(c) \/ Stuck(c)
        PROVE  lapsed' \subseteq lapsed \/ lapsed' \subseteq Lapsed
    BY <2>5 DEF CallStep, Submit, GiveUpAdmission, Return, UserTimeout, CleanupEnds, Leave, Stuck,
       gate
  <2> QED  BY <1>1, <2>1, <2>2, <2>3, <2>4, <2>5 DEF Next, vars, gate
<1>2. ASSUME SlotInv PROVE Lapsed \ lapsed \subseteq warned
  <2>1. ASSUME NEW l \in Lease, Reclaimed(l), mode[table[l].owner] = "running"
        PROVE  l \in warned
    BY <1>2, <2>1, Parts DEF Reclaimed, TableOK, InUse
  <2> QED  BY <2>1 DEF Lapsed
<1>3. SlotInv /\ [Next]_vars => [lapsed' \ lapsed \subseteq warned]_vars
  BY <1>1, <1>2
<1> QED  BY SlotInvariance, <1>3, PTL DEF Spec, WarnedFirst

-----------------------------------------------------------------------------
(* 4. The queue and its counters.                                          *)

Unadmitted == {"new", "waiting", "woken"}
Serving == {"open", "draining"}

\* x is an element of the sequence s; no element of s is there twice.
In(x, s) == \E j \in DOMAIN s : s[j] = x
NoRepeat(s) == \A i, j \in DOMAIN s : s[i] = s[j] => i = j

Queued(p) == {c \in CallsOf(p) : task[c] = "queued"}
Has(p, c) == c \in CallsOf(p) /\ caller[c] \notin Unadmitted

CallTypes ==
    /\ phase \in [Proc -> {"open", "draining", "stopping", "gathering", "stopped"}]
    /\ caller \in [Call -> Unadmitted \cup {"awaiting", "cleanup", "returned"}]
    /\ task \in [Call -> {"none", "queued", "started"}]
    /\ future \in [Call -> {"pending", "resolved"}]
    /\ queue \in [Proc -> Seq(Call)]
    /\ liveQueued \in [Proc -> Int] /\ unfinished \in [Proc -> Int]
    /\ budget \in 0 .. MaxTroubles

\* What is queued, dispatched or run is an admitted call of the process; each is queued
\* once, and none that a worker has been promised is in the queue.
QueueOK(p) ==
    /\ NoRepeat(queue[p])
    /\ \A j \in DOMAIN queue[p] : Has(p, queue[p][j]) /\ task[queue[p][j]] # "started"
    /\ phase[p] \notin Serving => queue[p] = <<>>
DispatchCallsOK(p) == \A j \in DOMAIN dispatch[p] :
    Has(p, dispatch[p][j].call) /\ task[dispatch[p][j].call] # "queued"
WorkerCallsOK(p) == \A w \in Executing(p) :
    Has(p, worker[w].call) /\ task[worker[w].call] # "queued"

\* The two counters.
LiveOK(p) == phase[p] \in Serving =>
    IsFiniteSet(Queued(p)) /\ liveQueued[p] = Cardinality(Queued(p))
UnfinishedOK(p) ==
    unfinished[p] = Len(queue[p]) + Len(dispatch[p]) + Cardinality(Executing(p))

\* A call not admitted has no task; a reservation is for a call in the queue; who
\* sleeps has reason to; and a call whose caller waits has a task and a place.
Pending(c) == caller[c] = "awaiting" /\ future[c] = "pending"
Placed(p, c) ==
    \/ In(c, queue[p])
    \/ \E j \in DOMAIN dispatch[p] : dispatch[p][j].call = c
    \/ \E w \in Executing(p) : worker[w].call = c
CallOK(p, c) ==
    /\ caller[c] \in Unadmitted => task[c] = "none"
    /\ task[c] = "queued" => In(c, queue[p])
    /\ caller[c] = "waiting" => Accepting(p) /\ Full(p)
    /\ Up(p) /\ Pending(c) => task[c] # "none" /\ phase[p] # "stopped" /\ Placed(p, c)

ProcOK(p) ==
    /\ QueueOK(p) /\ DispatchCallsOK(p) /\ WorkerCallsOK(p)
    /\ LiveOK(p) /\ UnfinishedOK(p)
    /\ \A c \in CallsOf(p) : CallOK(p, c)

\* The inductive invariant behind CountersMatch, NoLostWakeup and NoCallLost.
CallInv == CallTypes /\ \A p \in Proc : ProcOK(p)

LEMMA QueueConsts == /\ MaxQueue \in Nat /\ MaxTroubles \in Nat /\ CompactBatch \in Nat /\ DrainLimit \in Nat
                     /\ MaxSize \in Nat /\ \A c \in Call : Home[c] \in Proc
                     /\ DrainLimit > 0
  BY BoundAssumption, SizeAssumption, CallAssumption

LEMMA ExecutingFinite ==
  ASSUME NEW p \in Proc
  PROVE  IsFiniteSet(Executing(p)) /\ Cardinality(Executing(p)) \in Nat
<1> DEFINE f == [i \in 1 .. MaxSize |-> <<p, i>>]
<1>1. f \in Surjection(1 .. MaxSize, WorkersOf(p))
  <2>1. f \in [1 .. MaxSize -> WorkersOf(p)]
    BY DEF WorkersOf, Worker
  <2>2. \A w \in WorkersOf(p) : \E i \in 1 .. MaxSize : f[i] = w
    BY DEF WorkersOf, Worker
  <2> QED  BY <2>1, <2>2 DEF Surjection
<1>2. IsFiniteSet(1 .. MaxSize)
  BY QueueConsts, FS_Interval
<1>3. IsFiniteSet(WorkersOf(p))
  BY <1>1, <1>2, FS_Surjection
<1>4. Executing(p) \subseteq WorkersOf(p)
  BY DEF Executing
<1> QED  BY <1>3, <1>4, FS_Subset, FS_CardinalityType

\* Sequences without repetition: an insertion, and what is left after the first k.
LEMMA InsertOnce ==
  ASSUME NEW S, NEW s \in Seq(S), NEW e \in S, NEW k \in 1 .. Len(s) + 1,
         NoRepeat(s), ~ In(e, s)
  PROVE  /\ InsertAt(s, k, e) \in Seq(S) /\ Len(InsertAt(s, k, e)) = Len(s) + 1
         /\ NoRepeat(InsertAt(s, k, e))
         /\ \A x : In(x, InsertAt(s, k, e)) <=> x = e \/ In(x, s)
<1> DEFINE n == Len(s)
           a == SubSeq(s, 1, k - 1)
           b == SubSeq(s, k, n)
           t == InsertAt(s, k, e)
<1>1. n \in Nat /\ k \in Nat /\ 1 <= k /\ k <= n + 1 /\ DOMAIN s = 1 .. n
  BY LenProperties
<1>2. \A i \in 1 .. n : s[i] \in S
  BY ElementOfSeq
<1>3. a \in Seq(S) /\ Len(a) = k - 1 /\ \A i \in 1 .. k - 1 : a[i] = s[i]
  <2> HIDE DEF n
  <2>1. \A i \in 1 .. k - 1 : s[i] \in S
    BY <1>1, <1>2
  <2>2. /\ SubSeq(s, 1, k - 1) \in Seq(S)
        /\ Len(SubSeq(s, 1, k - 1)) = IF 1 <= k - 1 THEN (k - 1) - 1 + 1 ELSE 0
        /\ \A i \in 1 .. (k - 1) - 1 + 1 : SubSeq(s, 1, k - 1)[i] = s[1 + i - 1]
    BY <1>1, <2>1, SubSeqProperties
  <2> QED  BY <1>1, <2>2
<1>4. b \in Seq(S) /\ Len(b) = n - k + 1 /\ \A i \in 1 .. n - k + 1 : b[i] = s[k + i - 1]
  <2> HIDE DEF n
  <2>1. \A i \in k .. n : s[i] \in S
    BY <1>1, <1>2
  <2>2. /\ SubSeq(s, k, n) \in Seq(S)
        /\ Len(SubSeq(s, k, n)) = IF k <= n THEN n - k + 1 ELSE 0
        /\ \A i \in 1 .. n - k + 1 : SubSeq(s, k, n)[i] = s[k + i - 1]
    BY <1>1, <2>1, SubSeqProperties
  <2> QED  BY <1>1, <2>2
<1>5. t = (a \o <<e>>) \o b
  BY DEF InsertAt
<1>6. <<e>> \in Seq(S) /\ Len(<<e>>) = 1 /\ <<e>>[1] = e
  OBVIOUS
<1> HIDE DEF n, a, b, t
<1>7. /\ a \o <<e>> \in Seq(S) /\ Len(a \o <<e>>) = k
      /\ \A i \in 1 .. k : (a \o <<e>>)[i] = IF i <= k - 1 THEN s[i] ELSE e
  <2>1. /\ a \o <<e>> \in Seq(S) /\ Len(a \o <<e>>) = Len(a) + Len(<<e>>)
        /\ \A i \in 1 .. Len(a) + Len(<<e>>) :
             (a \o <<e>>)[i] = IF i <= Len(a) THEN a[i] ELSE <<e>>[i - Len(a)]
    BY <1>3, <1>6, ConcatProperties
  <2>2. Len(a) + Len(<<e>>) = k
    BY <1>1, <1>3, <1>6
  <2>3. ASSUME NEW i \in 1 .. k PROVE (a \o <<e>>)[i] = IF i <= k - 1 THEN s[i] ELSE e
    BY <1>1, <1>3, <1>6, <2>1, <2>2
  <2> QED  BY <2>1, <2>2, <2>3
<1>8. /\ t \in Seq(S) /\ Len(t) = n + 1
      /\ \A i \in 1 .. n + 1 : t[i] = IF i < k THEN s[i] ELSE IF i = k THEN e ELSE s[i - 1]
  <2> DEFINE u == a \o <<e>>
  <2>1. u \in Seq(S) /\ Len(u) = k /\ \A i \in 1 .. k : u[i] = IF i <= k - 1 THEN s[i] ELSE e
    BY <1>7
  <2>2. t = u \o b
    BY <1>5
  <2> HIDE DEF u
  <2>3. /\ t \in Seq(S) /\ Len(t) = Len(u) + Len(b)
        /\ \A i \in 1 .. Len(u) + Len(b) : t[i] = IF i <= Len(u) THEN u[i] ELSE b[i - Len(u)]
    BY <1>4, <2>1, <2>2, ConcatProperties
  <2>4. Len(u) + Len(b) = n + 1
    BY <1>1, <1>4, <2>1
  <2>5. ASSUME NEW i \in 1 .. n + 1
        PROVE  t[i] = IF i < k THEN s[i] ELSE IF i = k THEN e ELSE s[i - 1]
    <3>1. CASE i <= k
      BY <1>1, <2>1, <2>3, <2>4, <3>1
    <3>2. CASE i > k
      <4>1. i - k \in 1 .. n - k + 1 /\ k + (i - k) - 1 = i - 1
        BY <1>1, <3>2
      <4> QED  BY <1>1, <1>4, <2>1, <2>3, <2>4, <3>2, <4>1
    <3> QED  BY <1>1, <3>1, <3>2
  <2> QED  BY <2>3, <2>4, <2>5
<1>9. DOMAIN t = 1 .. n + 1
  BY <1>8, LenProperties
<1>10. \A i \in 1 .. n : s[i] # e
  BY <1>1 DEF In
<1>11. NoRepeat(t)
  <2> SUFFICES ASSUME NEW i \in 1 .. n + 1, NEW j \in 1 .. n + 1, t[i] = t[j]
               PROVE  i = j
    BY <1>9 DEF NoRepeat
  <2>1. \A m, r \in 1 .. n : s[m] = s[r] => m = r
    BY <1>1 DEF NoRepeat
  <2>2. /\ i < k => i \in 1 .. n /\ t[i] = s[i]
        /\ i = k => t[i] = e
        /\ i > k => i - 1 \in 1 .. n /\ t[i] = s[i - 1]
    BY <1>1, <1>8
  <2>3. /\ j < k => j \in 1 .. n /\ t[j] = s[j]
        /\ j = k => t[j] = e
        /\ j > k => j - 1 \in 1 .. n /\ t[j] = s[j - 1]
    BY <1>1, <1>8
  <2> QED  BY <1>1, <1>10, <2>1, <2>2, <2>3
<1>12. ASSUME NEW x PROVE In(x, t) <=> x = e \/ In(x, s)
  <2>1. ASSUME NEW i \in 1 .. n + 1, t[i] = x PROVE x = e \/ In(x, s)
    <3>1. i < k \/ i = k \/ i > k
      BY <1>1
    <3>2. i < k => i \in 1 .. n /\ t[i] = s[i]
      BY <1>1, <1>8
    <3>3. i > k => i - 1 \in 1 .. n /\ t[i] = s[i - 1]
      BY <1>1, <1>8
    <3>4. i = k => t[i] = e
      BY <1>8
    <3> QED  BY <1>1, <2>1, <3>1, <3>2, <3>3, <3>4 DEF In
  <2>2. k \in 1 .. n + 1 /\ t[k] = e
    BY <1>1, <1>8
  <2>3. ASSUME NEW i \in 1 .. n, s[i] = x PROVE \E j \in 1 .. n + 1 : t[j] = x
    <3>1. CASE i < k
      <4>1. i \in 1 .. n + 1 /\ t[i] = s[i]
        BY <1>1, <1>8, <3>1
      <4> QED  BY <2>3, <4>1
    <3>2. CASE i >= k
      <4>1. i + 1 \in 1 .. n + 1 /\ i + 1 > k /\ (i + 1) - 1 = i
        BY <1>1, <3>2
      <4>2. t[i + 1] = s[i]
        BY <1>1, <1>8, <4>1
      <4> QED  BY <2>3, <4>1, <4>2
    <3> QED  BY <1>1, <3>1, <3>2
  <2> QED  BY <1>1, <1>9, <2>1, <2>2, <2>3 DEF In
<1> QED  BY <1>8, <1>11, <1>12 DEF n, t

LEMMA DropFirst ==
  ASSUME NEW S, NEW s \in Seq(S), NEW k \in 0 .. Len(s), NoRepeat(s)
  PROVE  /\ SubSeq(s, k + 1, Len(s)) \in Seq(S)
         /\ Len(SubSeq(s, k + 1, Len(s))) = Len(s) - k
         /\ NoRepeat(SubSeq(s, k + 1, Len(s)))
         /\ \A x : In(x, SubSeq(s, k + 1, Len(s))) <=> In(x, s) /\ ~ \E i \in 1 .. k : s[i] = x
<1> DEFINE n == Len(s)
           t == SubSeq(s, k + 1, n)
<1>1. n \in Nat /\ k \in Nat /\ k <= n /\ DOMAIN s = 1 .. n
  BY LenProperties
<1>2. \A i \in 1 .. n : s[i] \in S
  BY ElementOfSeq
<1> HIDE DEF n
<1>3. /\ t \in Seq(S) /\ Len(t) = n - k
      /\ \A i \in 1 .. n - k : t[i] = s[k + i]
  <2>1. \A i \in k + 1 .. n : s[i] \in S
    BY <1>1, <1>2
  <2>2. /\ SubSeq(s, k + 1, n) \in Seq(S)
        /\ Len(SubSeq(s, k + 1, n)) = IF k + 1 <= n THEN n - (k + 1) + 1 ELSE 0
        /\ \A i \in 1 .. n - (k + 1) + 1 : SubSeq(s, k + 1, n)[i] = s[(k + 1) + i - 1]
    BY <1>1, <2>1, SubSeqProperties
  <2>3. ASSUME NEW i \in 1 .. n - k PROVE t[i] = s[k + i]
    <3>1. i \in 1 .. n - (k + 1) + 1 /\ (k + 1) + i - 1 = k + i
      BY <1>1
    <3> QED  BY <2>2, <3>1
  <2> QED  BY <1>1, <2>2, <2>3
<1> HIDE DEF t
<1>4. DOMAIN t = 1 .. n - k
  BY <1>3, LenProperties
<1>5. NoRepeat(t)
  <2> SUFFICES ASSUME NEW i \in 1 .. n - k, NEW j \in 1 .. n - k, t[i] = t[j]
               PROVE  i = j
    BY <1>4 DEF NoRepeat
  <2>1. k + i \in 1 .. n /\ k + j \in 1 .. n /\ s[k + i] = s[k + j]
    BY <1>1, <1>3
  <2>2. k + i = k + j
    BY <1>1, <2>1 DEF NoRepeat
  <2> QED  BY <1>1, <2>2
<1>6. ASSUME NEW x PROVE In(x, t) <=> In(x, s) /\ ~ \E i \in 1 .. k : s[i] = x
  <2>1. ASSUME NEW i \in 1 .. n - k, t[i] = x PROVE \E j \in k + 1 .. n : s[j] = x
    <3>1. k + i \in k + 1 .. n
      BY <1>1
    <3> QED  BY <1>3, <2>1, <3>1
  <2>2. ASSUME NEW j \in k + 1 .. n, s[j] = x PROVE \E i \in 1 .. n - k : t[i] = x
    <3>1. j - k \in 1 .. n - k /\ k + (j - k) = j
      BY <1>1
    <3> QED  BY <1>3, <2>2, <3>1
  <2>3. In(x, s) <=> (\E i \in 1 .. k : s[i] = x) \/ \E i \in k + 1 .. n : s[i] = x
    <3>1. \A i : i \in 1 .. n <=> i \in 1 .. k \/ i \in k + 1 .. n
      BY <1>1
    <3> QED  BY <1>1, <3>1 DEF In
  <2>4. ASSUME NEW i \in 1 .. k, NEW j \in k + 1 .. n, s[i] = x, s[j] = x PROVE FALSE
    <3>1. i \in 1 .. n /\ j \in 1 .. n /\ i # j
      BY <1>1
    <3> QED  BY <1>1, <2>4, <3>1 DEF NoRepeat
  <2> QED  BY <1>4, <2>1, <2>2, <2>3, <2>4 DEF In
<1> QED  BY <1>3, <1>5, <1>6 DEF n, t

\* There are zombies to drain, as many as Drained says.
LEMMA DrainedZombies ==
  ASSUME NEW p \in Proc, queue[p] \in Seq(Call)
  PROVE  /\ Drained(p) \in 0 .. Len(queue[p]) /\ Drained(p) <= DrainLimit
         /\ \A j \in 1 .. Drained(p) : Zombie(queue[p][j])
         /\ \/ Drained(p) = DrainLimit \/ Drained(p) = Len(queue[p])
            \/ ~ Zombie(queue[p][Drained(p) + 1])
<1> DEFINE n == Len(queue[p])
           Z(j) == Zombie(queue[p][j])
           OK(k) == /\ k <= DrainLimit
                    /\ \A j \in 1 .. k : Z(j)
                    /\ k = DrainLimit \/ k = n \/ ~ Z(k + 1)
<1>1. n \in Nat /\ DrainLimit \in Nat
  BY LenProperties, QueueConsts
<1>2. Drained(p) = CHOOSE k \in 0 .. n : OK(k)
  BY DEF Drained
<1>3. \E k \in 0 .. n : OK(k)
  <2> HIDE DEF n, Z
  <2>1. PICK m \in Nat : m <= n /\ m <= DrainLimit /\ (m = n \/ m = DrainLimit)
    <3>1. CASE n <= DrainLimit
      BY <1>1, <3>1
    <3>2. CASE DrainLimit <= n
      BY <1>1, <3>2
    <3> QED  BY <1>1, <3>1, <3>2
  <2>2. CASE \A j \in 1 .. m : Z(j)
    BY <1>1, <2>1, <2>2
  <2>3. CASE ~ \A j \in 1 .. m : Z(j)
    <3> DEFINE D == {j \in 1 .. m : ~ Z(j)}
    <3>1. D \subseteq 1 .. m /\ D # {}
      BY <2>3
    <3>2. IsFiniteSet(D) /\ Cardinality(D) \in Nat /\ Cardinality(D) # 0
      <4>1. IsFiniteSet(1 .. m)
        BY FS_Interval
      <4>2. IsFiniteSet(D)
        BY <3>1, <4>1, FS_Subset
      <4> QED  BY <3>1, <4>2, FS_CardinalityType, FS_EmptySet
    <3> HIDE DEF D
    <3>3. /\ \A i \in D : Rank(D, i) \in 1 .. Cardinality(D)
          /\ \A i, j \in D : i < j => Rank(D, i) < Rank(D, j)
          /\ \A j \in 1 .. Cardinality(D) : \E i \in D : Rank(D, i) = j
      BY <3>1, RankProperties
    <3>4. PICK b \in D : Rank(D, b) = 1
      <4>1. 1 \in 1 .. Cardinality(D)
        BY <3>2
      <4> QED  BY <3>3, <4>1
    <3>5. b \in 1 .. m /\ ~ Z(b)
      BY DEF D
    <3>6. ASSUME NEW j \in D PROVE ~ (j < b)
      <4>1. Rank(D, j) \in 1 .. Cardinality(D) /\ (j < b => Rank(D, j) < Rank(D, b))
        BY <3>3
      <4> QED  BY <3>2, <3>4, <4>1
    <3>7. ASSUME NEW j \in 1 .. b - 1 PROVE Z(j)
      <4>1. j \in 1 .. m /\ j < b
        BY <2>1, <3>5
      <4>2. j \notin D
        BY <3>6, <4>1
      <4> QED  BY <4>1, <4>2 DEF D
    <3>8. b - 1 \in 0 .. n /\ b - 1 <= DrainLimit /\ (b - 1) + 1 = b
      BY <1>1, <2>1, <3>5
    <3> QED  BY <3>5, <3>7, <3>8
  <2> QED  BY <2>2, <2>3
<1> HIDE DEF OK, n
<1>4. Drained(p) \in 0 .. n /\ OK(Drained(p))
  BY <1>2, <1>3
<1> QED  BY <1>4 DEF OK, n

\* A step in which only the process p takes part.
OnlyOf(p) ==
    /\ \A q \in Proc : q # p =>
         /\ mode'[q] = mode[q] /\ phase'[q] = phase[q] /\ queue'[q] = queue[q]
         /\ liveQueued'[q] = liveQueued[q] /\ unfinished'[q] = unfinished[q]
         /\ dispatch'[q] = dispatch[q]
    /\ \A w \in Worker : w[1] # p => worker'[w] = worker[w]
    /\ \A c \in Call : Home[c] # p =>
         caller'[c] = caller[c] /\ task'[c] = task[c] /\ future'[c] = future[c]

LEMMA OthersSame ==
  ASSUME CallInv, NEW p \in Proc, OnlyOf(p), CallTypes', ProcOK(p)'
  PROVE  CallInv'
<1> SUFFICES ASSUME NEW q \in Proc, q # p PROVE ProcOK(q)'
  BY DEF CallInv
<1>1. /\ mode'[q] = mode[q] /\ phase'[q] = phase[q] /\ queue'[q] = queue[q]
      /\ liveQueued'[q] = liveQueued[q] /\ unfinished'[q] = unfinished[q]
      /\ dispatch'[q] = dispatch[q]
  BY DEF OnlyOf
<1>2. \A c \in CallsOf(q) : caller'[c] = caller[c] /\ task'[c] = task[c] /\ future'[c] = future[c]
  BY DEF OnlyOf, CallsOf
<1>3. \A w \in WorkersOf(q) : worker'[w] = worker[w]
  BY DEF OnlyOf, WorkersOf
<1>4. Executing(q)' = Executing(q) /\ \A w \in Executing(q) : worker'[w] = worker[w]
  BY <1>3 DEF Executing
<1>5. Queued(q)' = Queued(q)
  BY <1>2 DEF Queued
<1>6. \A c : Has(q, c)' <=> Has(q, c)
  BY <1>2 DEF Has
<1>7. ProcOK(q)
  BY DEF CallInv
<1>8. QueueOK(q)' /\ DispatchCallsOK(q)' /\ WorkerCallsOK(q)'
  <2>1. QueueOK(q)'
    BY <1>1, <1>2, <1>6, <1>7 DEF ProcOK, QueueOK, Has
  <2>2. DispatchCallsOK(q)'
    BY <1>1, <1>2, <1>6, <1>7 DEF ProcOK, DispatchCallsOK, Has
  <2>3. WorkerCallsOK(q)'
    BY <1>2, <1>4, <1>6, <1>7 DEF ProcOK, WorkerCallsOK, Has
  <2> QED  BY <2>1, <2>2, <2>3
<1>9. LiveOK(q)' /\ UnfinishedOK(q)'
  BY <1>1, <1>4, <1>5, <1>7 DEF ProcOK, LiveOK, UnfinishedOK
<1>10. ASSUME NEW c \in CallsOf(q) PROVE CallOK(q, c)'
  <2>1. Placed(q, c)' <=> Placed(q, c)
    BY <1>1, <1>4 DEF Placed
  <2>2. CallOK(q, c)
    BY <1>7 DEF ProcOK
  <2> QED  BY <1>1, <1>2, <2>1, <2>2 DEF CallOK, Pending, Accepting, Full, Up
<1> QED  BY <1>8, <1>9, <1>10 DEF ProcOK, CallsOf

\* A step that touches no call and no queue.
LEMMA CallsUntouched ==
  ASSUME CallInv, UNCHANGED <<mode, phase, calls, queues, dispatch, worker>>,
         budget' \in 0 .. MaxTroubles
  PROVE  CallInv'
<1>1. UNCHANGED <<mode, phase, caller, task, future, queue, liveQueued, unfinished, dispatch, worker>>
  BY DEF calls, queues
<1>2. CallTypes'
  BY <1>1 DEF CallInv, CallTypes
<1>3. ASSUME NEW q \in Proc PROVE ProcOK(q)'
  <2>1. ProcOK(q)
    BY DEF CallInv
  <2>2. Executing(q)' = Executing(q) /\ Queued(q)' = Queued(q)
    BY <1>1 DEF Executing, Queued
  <2>3. \A c : (Has(q, c)' <=> Has(q, c)) /\ (Placed(q, c)' <=> Placed(q, c))
    BY <1>1, <2>2 DEF Has, Placed
  <2>4. QueueOK(q)' /\ DispatchCallsOK(q)' /\ WorkerCallsOK(q)' /\ LiveOK(q)' /\ UnfinishedOK(q)'
    BY <1>1, <2>1, <2>2, <2>3 DEF ProcOK, QueueOK, DispatchCallsOK, WorkerCallsOK, LiveOK, UnfinishedOK
  <2>5. \A c \in CallsOf(q) : CallOK(q, c)'
    BY <1>1, <2>1, <2>3 DEF ProcOK, CallOK, Pending, Accepting, Full, Up
  <2> QED  BY <2>4, <2>5 DEF ProcOK, CallsOf
<1> QED  BY <1>2, <1>3 DEF CallInv

\* Trouble costs a part of the budget.
LEMMA TroubleStep ==
  ASSUME CallInv, Trouble
  PROVE  budget' \in 0 .. MaxTroubles /\ budget' # MaxTroubles
<1>1. budget \in Nat /\ budget <= MaxTroubles /\ budget > 0 /\ budget' = budget - 1
  BY QueueConsts DEF CallInv, CallTypes, Trouble
<1> QED  BY <1>1, QueueConsts

\* A step of the calls alone: nobody moves in queue, dispatch or workers.
LEMMA CallerStep ==
  ASSUME CallInv, NEW p \in Proc, NEW c \in CallsOf(p),
         UNCHANGED <<mode, phase, queue, unfinished, dispatch, worker, budget>>,
         CallTypes', OnlyOf(p),
         Has(p, c) => Has(p, c)',
         task'[c] = task[c] \/ task'[c] = "none",
         \A d \in CallsOf(p) : d # c =>
             /\ task'[d] = task[d] /\ future'[d] = future[d]
             /\ caller'[d] = caller[d] \/ (caller'[d] = "woken" /\ caller[d] = "waiting"),
         CallOK(p, c)', LiveOK(p)',
         liveQueued'[p] # liveQueued[p] => \A d \in CallsOf(p) : caller'[d] # "waiting"
  PROVE  CallInv'
<1>1. ProcOK(p) /\ CallTypes
  BY DEF CallInv
<1>2. Executing(p)' = Executing(p)
  BY DEF Executing
<1>3. \A d \in CallsOf(p) : Has(p, d) => Has(p, d)'
  BY DEF Has, Unadmitted, CallsOf
<1>4. \A d \in CallsOf(p) : task'[d] = task[d] \/ task'[d] = "none"
  OBVIOUS
<1>5. QueueOK(p)'
  BY <1>1, <1>3, <1>4 DEF ProcOK, QueueOK, Has
<1>6. DispatchCallsOK(p)'
  BY <1>1, <1>3, <1>4 DEF ProcOK, DispatchCallsOK, Has
<1>7. WorkerCallsOK(p)'
  BY <1>1, <1>2, <1>3, <1>4 DEF ProcOK, WorkerCallsOK, Has
<1>8. UnfinishedOK(p)'
  BY <1>1, <1>2 DEF ProcOK, UnfinishedOK
<1>9. ASSUME NEW d \in CallsOf(p), d # c PROVE CallOK(p, d)'
  <2>1. CallOK(p, d)
    BY <1>1 DEF ProcOK
  <2>2. Placed(p, d)' <=> Placed(p, d)
    BY <1>2 DEF Placed
  <2>3. /\ task'[d] = task[d] /\ future'[d] = future[d]
        /\ caller'[d] = caller[d] \/ (caller'[d] = "woken" /\ caller[d] = "waiting")
    BY <1>9
  <2>4. caller'[d] = "waiting" => liveQueued'[p] = liveQueued[p] /\ caller[d] = "waiting"
    BY <2>3
  <2>5. Pending(d)' <=> Pending(d)
    BY <2>3 DEF Pending
  <2> QED  BY <2>1, <2>2, <2>3, <2>4, <2>5 DEF CallOK, Accepting, Full, Up, Unadmitted
<1>10. \A d \in CallsOf(p)' : CallOK(p, d)'
  BY <1>9 DEF CallsOf
<1>11. ProcOK(p)'
  BY <1>5, <1>6, <1>7, <1>8, <1>10 DEF ProcOK
<1> QED  BY <1>11, OthersSame

\* What Woken does to the calls of p and of others.
LEMMA WokenCalls ==
  ASSUME NEW p \in Proc, NEW f \in [Call -> Unadmitted \cup {"awaiting", "cleanup", "returned"}]
  PROVE  /\ Woken(p, f) \in [Call -> Unadmitted \cup {"awaiting", "cleanup", "returned"}]
         /\ \A d \in CallsOf(p) :
              /\ Woken(p, f)[d] # "waiting"
              /\ Woken(p, f)[d] = f[d] \/ (Woken(p, f)[d] = "woken" /\ f[d] = "waiting")
         /\ \A d \in Call : Home[d] # p => Woken(p, f)[d] = f[d]
  BY DEF Woken, CallsOf, Unadmitted

\* _limited_wait returns: at most its own reservation goes.
LEMMA LeaveStep ==
  ASSUME CallInv, NEW p \in Proc, NEW c \in CallsOf(p), Leave(c),
         future' \in {future, [future EXCEPT ![c] = "resolved"]}, caller[c] \notin Unadmitted
  PROVE  CallInv'
<1> DEFINE left == [caller EXCEPT ![c] = "returned"]
<1>1. /\ UNCHANGED <<mode, phase, queue, unfinished, dispatch, worker, budget>>
      /\ task' = [task EXCEPT ![c] = "none"]
      /\ Home[c] = p /\ c \in Call
  BY DEF Leave, loops, CallsOf
<1>2. /\ left \in [Call -> Unadmitted \cup {"awaiting", "cleanup", "returned"}]
      /\ left[c] = "returned" /\ \A d \in Call : d # c => left[d] = caller[d]
  BY <1>1 DEF CallInv, CallTypes
<1>3. \/ /\ task[c] = "queued"
         /\ liveQueued' = [liveQueued EXCEPT ![p] = @ - 1] /\ caller' = Woken(p, left)
      \/ /\ task[c] # "queued"
         /\ liveQueued' = liveQueued /\ caller' = left
  BY <1>1 DEF Leave
<1> HIDE DEF left
<1>4. /\ caller' \in [Call -> Unadmitted \cup {"awaiting", "cleanup", "returned"}]
      /\ caller'[c] = "returned"
      /\ \A d \in CallsOf(p) : d # c =>
            caller'[d] = caller[d] \/ (caller'[d] = "woken" /\ caller[d] = "waiting")
      /\ \A d \in Call : Home[d] # p => caller'[d] = caller[d]
      /\ liveQueued'[p] # liveQueued[p] => \A d \in CallsOf(p) : caller'[d] # "waiting"
  <2>1. CASE caller' = left /\ liveQueued' = liveQueued
    BY <1>1, <1>2, <2>1 DEF CallsOf
  <2>2. CASE caller' = Woken(p, left)
    BY <1>1, <1>2, <2>2, WokenCalls DEF CallsOf
  <2> QED  BY <1>3, <2>1, <2>2
<1>5. CallTypes /\ ProcOK(p)
  BY DEF CallInv
<1>6. CallTypes'
  <2>1. liveQueued' \in [Proc -> Int]
    BY <1>3, <1>5 DEF CallTypes
  <2>2. task' \in [Call -> {"none", "queued", "started"}] /\ future' \in [Call -> {"pending", "resolved"}]
    BY <1>1, <1>5 DEF CallTypes
  <2> QED  BY <1>1, <1>4, <1>5, <2>1, <2>2 DEF CallTypes
<1>7. /\ \A q \in Proc : q # p => liveQueued'[q] = liveQueued[q]
      /\ \A d \in Call : d # c => task'[d] = task[d] /\ future'[d] = future[d]
      /\ task'[c] = "none"
  BY <1>1, <1>3, <1>5 DEF CallTypes
<1>8. OnlyOf(p)
  BY <1>1, <1>4, <1>7 DEF OnlyOf
<1>9. Has(p, c)'
  BY <1>1, <1>4 DEF Has, CallsOf, Unadmitted
<1>10. CallOK(p, c)'
  BY <1>4, <1>7 DEF CallOK, Pending, Unadmitted
<1>11. LiveOK(p)'
  <2> SUFFICES ASSUME phase[p] \in Serving
               PROVE  IsFiniteSet(Queued(p)') /\ liveQueued'[p] = Cardinality(Queued(p)')
    BY <1>1 DEF LiveOK
  <2>1. Queued(p)' = Queued(p) \ {c}
    BY <1>1, <1>7 DEF Queued, CallsOf
  <2>2. IsFiniteSet(Queued(p)) /\ liveQueued[p] = Cardinality(Queued(p))
    BY <1>5 DEF ProcOK, LiveOK
  <2>3. /\ IsFiniteSet(Queued(p) \ {c})
        /\ Cardinality(Queued(p) \ {c}) =
             IF c \in Queued(p) THEN Cardinality(Queued(p)) - 1 ELSE Cardinality(Queued(p))
    BY <2>2, FS_RemoveElement
  <2>4. c \in Queued(p) <=> task[c] = "queued"
    BY DEF Queued
  <2> QED  BY <1>3, <1>5, <2>1, <2>2, <2>3, <2>4 DEF CallTypes
<1>12. ASSUME NEW d \in CallsOf(p), d # c
       PROVE  /\ task'[d] = task[d] /\ future'[d] = future[d]
              /\ caller'[d] = caller[d] \/ (caller'[d] = "woken" /\ caller[d] = "waiting")
  <2>1. d \in Call
    BY DEF CallsOf
  <2>2. task'[d] = task[d] /\ future'[d] = future[d]
    BY <1>7, <1>12, <2>1
  <2>3. caller'[d] = caller[d] \/ (caller'[d] = "woken" /\ caller[d] = "waiting")
    BY <1>4, <1>12
  <2> QED  BY <2>2, <2>3
<1>13. UNCHANGED <<mode, phase, queue, unfinished, dispatch, worker, budget>>
  BY <1>1
<1>14. liveQueued'[p] # liveQueued[p] => \A d \in CallsOf(p) : caller'[d] # "waiting"
  BY <1>4
<1>15. (Has(p, c) => Has(p, c)') /\ (task'[c] = task[c] \/ task'[c] = "none")
  BY <1>7, <1>9
<1> QED  BY <1>6, <1>8, <1>10, <1>11, <1>12, <1>13, <1>14, <1>15, CallerStep

\* The reservations of p do not change if the tasks of its calls do not, or lose what
\* was no reservation.
LEMMA LiveSame ==
  ASSUME NEW p \in Proc, LiveOK(p), phase'[p] \in Serving => phase[p] \in Serving,
         liveQueued'[p] = liveQueued[p],
         \A d \in CallsOf(p) : task'[d] = "queued" <=> task[d] = "queued"
  PROVE  LiveOK(p)'
<1>1. Queued(p)' = Queued(p)
  BY DEF Queued, CallsOf
<1> QED  BY <1>1 DEF LiveOK

LEMMA WaitStep ==
  ASSUME CallInv, NEW p \in Proc, NEW c \in CallsOf(p),
         \/ Submit(c) /\ ~ Admit(c)
         \/ GiveUpAdmission(c) \/ UserTimeout(c) \/ Stuck(c)
  PROVE  CallInv'
<1>1. /\ UNCHANGED <<mode, phase, queue, liveQueued, unfinished, dispatch, worker, budget>>
      /\ Home[c] = p /\ c \in Call
  BY DEF Submit, Turned, GiveUpAdmission, UserTimeout, Stuck, loops, queues, CallsOf
<1>2. CallTypes /\ ProcOK(p) /\ CallOK(p, c)
  BY DEF CallInv, ProcOK
<1>3. \/ /\ caller' = [caller EXCEPT ![c] = "returned"] /\ caller[c] \in Unadmitted
         /\ task' = task /\ future' = future
      \/ /\ caller' = [caller EXCEPT ![c] = "waiting"] /\ caller[c] \in Unadmitted
         /\ Accepting(p) /\ Full(p)
         /\ task' = task /\ future' = future
      \/ /\ caller' = [caller EXCEPT ![c] = "cleanup"] /\ caller[c] = "awaiting"
         /\ task' = task /\ future' = [future EXCEPT ![c] = "resolved"]
      \/ /\ caller' = caller /\ task[c] = "started"
         /\ task' = [task EXCEPT ![c] = "none"] /\ future' = [future EXCEPT ![c] = "resolved"]
  BY <1>1 DEF Submit, Turned, GiveUpAdmission, UserTimeout, Stuck, Unadmitted, queues
<1>4. CallTypes'
  <2>1. caller' \in [Call -> Unadmitted \cup {"awaiting", "cleanup", "returned"}]
    BY <1>2, <1>3 DEF CallTypes, Unadmitted
  <2>2. task' \in [Call -> {"none", "queued", "started"}] /\ future' \in [Call -> {"pending", "resolved"}]
    BY <1>2, <1>3 DEF CallTypes
  <2> QED  BY <1>1, <1>2, <2>1, <2>2 DEF CallTypes
<1>5. \A d \in Call : d # c => task'[d] = task[d] /\ future'[d] = future[d] /\ caller'[d] = caller[d]
  BY <1>2, <1>3 DEF CallTypes
<1>6. OnlyOf(p)
  BY <1>1, <1>5 DEF OnlyOf
<1>7. task'[c] = task[c] \/ (task[c] = "started" /\ task'[c] = "none")
  BY <1>1, <1>2, <1>3 DEF CallTypes
<1>8. LiveOK(p)'
  <2>1. \A d \in CallsOf(p) : task'[d] = "queued" <=> task[d] = "queued"
    BY <1>5, <1>7 DEF CallsOf
  <2> QED  BY <1>1, <1>2, <2>1, LiveSame DEF ProcOK
<1>9. /\ caller'[c] \in Unadmitted => caller[c] \in Unadmitted /\ task'[c] = task[c]
      /\ caller'[c] = "waiting" => (caller[c] = "waiting" \/ (Accepting(p) /\ Full(p)))
      /\ ~ Pending(c)'
      /\ Has(p, c) => Has(p, c)'
  <2>1. caller[c] \in Unadmitted => task[c] # "started"
    BY <1>2 DEF CallOK
  <2>2. \/ /\ caller'[c] = "returned" /\ caller[c] \in Unadmitted /\ task' = task
        \/ /\ caller'[c] = "waiting" /\ caller[c] \in Unadmitted /\ task' = task
           /\ Accepting(p) /\ Full(p)
        \/ caller'[c] = "cleanup" /\ future'[c] = "resolved"
        \/ caller'[c] = caller[c] /\ task[c] = "started" /\ future'[c] = "resolved"
    BY <1>1, <1>2, <1>3 DEF CallTypes
  <2> QED  BY <1>1, <2>1, <2>2 DEF Unadmitted, Has, Pending, CallsOf
<1>10. CallOK(p, c)'
  <2>1. Accepting(p)' = Accepting(p) /\ Full(p)' = Full(p)
    BY <1>1 DEF Accepting, Full
  <2> QED  BY <1>1, <1>2, <1>7, <1>9, <2>1 DEF CallOK
<1>11. \A d \in CallsOf(p) : d # c =>
         /\ task'[d] = task[d] /\ future'[d] = future[d]
         /\ caller'[d] = caller[d] \/ (caller'[d] = "woken" /\ caller[d] = "waiting")
  BY <1>5 DEF CallsOf
<1>12. UNCHANGED <<mode, phase, queue, unfinished, dispatch, worker, budget>>
  BY <1>1
<1>13. /\ Has(p, c) => Has(p, c)'
       /\ task'[c] = task[c] \/ task'[c] = "none"
       /\ liveQueued'[p] = liveQueued[p]
  BY <1>1, <1>7, <1>9
<1> QED  BY <1>4, <1>6, <1>8, <1>10, <1>11, <1>12, <1>13, CallerStep

\* Admission, with room in the queue: the reservation and the queue grow by one.
LEMMA AdmitStep ==
  ASSUME CallInv, SlotInv, NEW p \in Proc, NEW c \in CallsOf(p), Submit(c), Admit(c), ~ Full(p)
  PROVE  CallInv'
<1>1. /\ UNCHANGED <<mode, phase, future, dispatch, worker, budget>>
      /\ Home[c] = p /\ c \in Call /\ caller[c] \in Unadmitted
      /\ caller' = [caller EXCEPT ![c] = "awaiting"]
      /\ task' = [task EXCEPT ![c] = "queued"]
      /\ liveQueued' = [liveQueued EXCEPT ![p] = @ + 1]
      /\ unfinished' = [unfinished EXCEPT ![p] = @ + 1]
      /\ \E k \in 1 .. Len(queue[p]) + 1 : queue' = [queue EXCEPT ![p] = InsertAt(@, k, c)]
  BY DEF Submit, Admit, loops, CallsOf, Unadmitted
<1>2. CallTypes /\ ProcOK(p)
  BY DEF CallInv
<1>3. /\ phase[p] = "open" /\ Accepting(p)
  <2>1. Up(p) /\ (~ Accepting(p) => caller'[c] \in {"waiting", "returned"})
    BY <1>1, <1>2 DEF Submit, Turned, CallTypes
  <2>2. caller'[c] = "awaiting"
    BY <1>1, <1>2 DEF CallTypes
  <2> QED  BY <1>1, <2>1, <2>2 DEF Submit, Turned, Accepting
<1>4. ~ In(c, queue[p]) /\ task[c] = "none"
  <2>1. ~ Has(p, c)
    BY <1>1 DEF Has
  <2> QED  BY <1>1, <1>2, <2>1 DEF ProcOK, QueueOK, In, CallOK
<1>5. PICK t : /\ queue' = [queue EXCEPT ![p] = t]
               /\ t \in Seq(Call) /\ Len(t) = Len(queue[p]) + 1 /\ NoRepeat(t)
               /\ \A x : In(x, t) <=> x = c \/ In(x, queue[p])
  <2>1. queue[p] \in Seq(Call) /\ NoRepeat(queue[p])
    BY <1>2 DEF CallTypes, ProcOK, QueueOK
  <2>2. PICK k \in 1 .. Len(queue[p]) + 1 : queue' = [queue EXCEPT ![p] = InsertAt(@, k, c)]
    BY <1>1
  <2>3. /\ InsertAt(queue[p], k, c) \in Seq(Call)
        /\ Len(InsertAt(queue[p], k, c)) = Len(queue[p]) + 1
        /\ NoRepeat(InsertAt(queue[p], k, c))
        /\ \A x : In(x, InsertAt(queue[p], k, c)) <=> x = c \/ In(x, queue[p])
    BY <1>1, <1>4, <2>1, InsertOnce
  <2>4. queue' = [queue EXCEPT ![p] = InsertAt(queue[p], k, c)]
    BY <2>2
  <2> QED  BY <2>3, <2>4
<1>6. /\ queue'[p] = t /\ liveQueued'[p] = liveQueued[p] + 1 /\ unfinished'[p] = unfinished[p] + 1
      /\ \A q \in Proc : q # p => /\ queue'[q] = queue[q] /\ liveQueued'[q] = liveQueued[q]
                                  /\ unfinished'[q] = unfinished[q]
      /\ task'[c] = "queued" /\ caller'[c] = "awaiting"
      /\ \A d \in Call : d # c => task'[d] = task[d] /\ caller'[d] = caller[d]
      /\ liveQueued[p] \in Int /\ unfinished[p] \in Int
  BY <1>1, <1>2, <1>5 DEF CallTypes
<1>7. CallTypes'
  <2>1. /\ caller' \in [Call -> Unadmitted \cup {"awaiting", "cleanup", "returned"}]
        /\ task' \in [Call -> {"none", "queued", "started"}]
    BY <1>1, <1>2 DEF CallTypes
  <2>2. liveQueued' \in [Proc -> Int] /\ unfinished' \in [Proc -> Int]
    BY <1>1, <1>2 DEF CallTypes
  <2>3. queue' \in [Proc -> Seq(Call)]
    BY <1>2, <1>5 DEF CallTypes
  <2> QED  BY <1>1, <1>2, <2>1, <2>2, <2>3 DEF CallTypes
<1>8. OnlyOf(p)
  BY <1>1, <1>6 DEF OnlyOf
<1>9. /\ Executing(p)' = Executing(p)
      /\ \A d \in CallsOf(p) : (Has(p, d) => Has(p, d)') /\ (d # c => (Has(p, d)' <=> Has(p, d)))
      /\ Has(p, c)' /\ ~ Has(p, c)
  BY <1>1, <1>6 DEF Executing, Has, CallsOf, Unadmitted
<1>10. QueueOK(p)'
  <2>1. ASSUME NEW x, In(x, queue[p]) PROVE Has(p, x) /\ task[x] # "started" /\ x # c /\ x \in Call
    BY <1>2, <1>4, <2>1 DEF ProcOK, QueueOK, In, Has, CallsOf
  <2>2. ASSUME NEW x, In(x, t) PROVE Has(p, x)' /\ task'[x] # "started"
    <3>1. CASE x = c
      BY <1>6, <1>9, <3>1
    <3>2. CASE In(x, queue[p])
      <4>1. Has(p, x) /\ task[x] # "started" /\ x # c /\ x \in Call /\ x \in CallsOf(p)
        BY <2>1, <3>2 DEF Has
      <4> QED  BY <1>6, <1>9, <4>1
    <3> QED  BY <1>5, <2>2, <3>1, <3>2
  <2>3. \A j \in DOMAIN t : In(t[j], t)
    BY DEF In
  <2> QED  BY <1>1, <1>3, <1>5, <1>6, <2>2, <2>3 DEF QueueOK, Serving, Has
<1>11. DispatchCallsOK(p)'
  <2> SUFFICES ASSUME NEW j \in DOMAIN dispatch[p]
               PROVE  Has(p, dispatch[p][j].call)' /\ task'[dispatch[p][j].call] # "queued"
    BY <1>1 DEF DispatchCallsOK, Has
  <2>1. Has(p, dispatch[p][j].call) /\ task[dispatch[p][j].call] # "queued"
    BY <1>2 DEF ProcOK, DispatchCallsOK
  <2>2. dispatch[p][j].call # c /\ dispatch[p][j].call \in CallsOf(p) /\ dispatch[p][j].call \in Call
    BY <1>9, <2>1 DEF Has, CallsOf
  <2> QED  BY <1>1, <1>6, <1>9, <2>1, <2>2
<1>12. WorkerCallsOK(p)'
  <2> SUFFICES ASSUME NEW w \in Executing(p)
               PROVE  Has(p, worker[w].call)' /\ task'[worker[w].call] # "queued"
    BY <1>1, <1>9 DEF WorkerCallsOK, Has
  <2>1. Has(p, worker[w].call) /\ task[worker[w].call] # "queued"
    BY <1>2 DEF ProcOK, WorkerCallsOK
  <2>2. worker[w].call # c /\ worker[w].call \in CallsOf(p) /\ worker[w].call \in Call
    BY <1>9, <2>1 DEF Has, CallsOf
  <2> QED  BY <1>1, <1>6, <1>9, <2>1, <2>2
<1>13. LiveOK(p)'
  <2>1. Queued(p)' = Queued(p) \cup {c} /\ c \notin Queued(p)
    BY <1>1, <1>4, <1>6 DEF Queued, CallsOf
  <2>2. IsFiniteSet(Queued(p)) /\ liveQueued[p] = Cardinality(Queued(p))
    BY <1>2, <1>3 DEF ProcOK, LiveOK, Serving
  <2>3. IsFiniteSet(Queued(p)') /\ Cardinality(Queued(p)') = Cardinality(Queued(p)) + 1
    BY <2>1, <2>2, FS_AddElement
  <2> QED  BY <1>6, <2>2, <2>3 DEF LiveOK
<1>14. UnfinishedOK(p)'
  <2>1. Len(queue[p]) \in Nat /\ Cardinality(Executing(p)) \in Nat
    BY <1>2, ExecutingFinite, LenProperties DEF CallTypes
  <2>2. Len(dispatch[p]) \in Nat
    BY Parts, AppendSequence DEF TypeOK
  <2>3. unfinished[p] = Len(queue[p]) + Len(dispatch[p]) + Cardinality(Executing(p))
    BY <1>2 DEF ProcOK, UnfinishedOK
  <2>4. unfinished'[p] = Len(t) + Len(dispatch[p]) + Cardinality(Executing(p))
    <3> DEFINE m == Len(queue[p])
               n == Len(dispatch[p])
               r == Cardinality(Executing(p))
               a == Len(t)
    <3>1. /\ m \in Nat /\ n \in Nat /\ r \in Nat /\ a = m + 1
          /\ unfinished[p] = m + n + r /\ unfinished'[p] = unfinished[p] + 1
      BY <1>5, <1>6, <2>1, <2>2, <2>3
    <3> HIDE DEF m, n, r, a
    <3>2. unfinished'[p] = a + n + r
      BY <3>1
    <3> QED  BY <3>2 DEF m, n, r, a
  <2> QED  BY <1>1, <1>6, <1>9, <2>4 DEF UnfinishedOK
<1>15. ASSUME NEW d \in CallsOf(p) PROVE CallOK(p, d)'
  <2>1. CallOK(p, d) /\ d \in Call
    BY <1>2 DEF ProcOK, CallsOf
  <2>2. Placed(p, d) => Placed(p, d)'
    BY <1>1, <1>5, <1>6, <1>9 DEF Placed
  <2>3. CASE d = c
    <3>1. In(c, queue'[p])
      BY <1>5, <1>6
    <3>2. Placed(p, c)'
      BY <3>1 DEF Placed
    <3> QED  BY <1>1, <1>3, <1>6, <2>3, <3>1, <3>2 DEF CallOK, Unadmitted
  <2>4. CASE d # c
    <3>1. task'[d] = task[d] /\ caller'[d] = caller[d] /\ future'[d] = future[d]
      BY <1>1, <1>6, <2>1, <2>4
    <3>2. caller[d] # "waiting"
      BY <2>1 DEF CallOK
    <3>3. In(d, queue[p]) => In(d, queue'[p])
      BY <1>5, <1>6
    <3> QED  BY <1>1, <2>1, <2>2, <3>1, <3>2, <3>3 DEF CallOK, Pending, Up
  <2> QED  BY <2>3, <2>4
<1>16. ProcOK(p)'
  BY <1>10, <1>11, <1>12, <1>13, <1>14, <1>15 DEF ProcOK, CallsOf
<1> QED  BY <1>7, <1>8, <1>16, OthersSame

LEMMA CallerActions ==
  ASSUME CallInv, SlotInv, NEW c \in Call, CallStep(c) \/ Stuck(c)
  PROVE  CallInv'
<1> DEFINE p == Home[c]
<1>1. p \in Proc /\ c \in CallsOf(p)
  BY QueueConsts DEF CallsOf
<1>2. CASE Return(c) \/ CleanupEnds(c)
  <2>1. /\ Leave(c) /\ caller[c] \notin Unadmitted
        /\ future' \in {future, [future EXCEPT ![c] = "resolved"]}
    BY <1>2 DEF Return, CleanupEnds, Unadmitted
  <2> QED  BY <1>1, <2>1, LeaveStep
<1>3. CASE Submit(c)
  <2>1. CASE Admit(c) /\ ~ Full(p)
    BY <1>1, <1>3, <2>1, AdmitStep
  <2>2. CASE ~ Admit(c)
    BY <1>1, <1>3, <2>2, WaitStep
  <2>3. ASSUME Admit(c) PROVE ~ Full(p)
    <3>1. caller'[c] = "awaiting"
      BY <2>3 DEF CallInv, CallTypes, Admit
    <3>2. ~ Turned(c, "returned") /\ ~ Turned(c, "waiting")
      BY <3>1 DEF Turned, CallInv, CallTypes
    <3> QED  BY <1>3, <3>2 DEF Submit
  <2> QED  BY <2>1, <2>2, <2>3
<1>4. CASE GiveUpAdmission(c) \/ UserTimeout(c) \/ Stuck(c)
  BY <1>1, <1>4, WaitStep
<1> QED  BY <1>2, <1>3, <1>4 DEF CallStep

\* A step of pump, workers or shutdown behind the queue: calls leave the dispatch
\* queue and the workers, and lose their tasks only with a resolved future.
LEMMA WorkStep ==
  ASSUME CallInv, NEW p \in Proc, OnlyOf(p), CallTypes', UNCHANGED <<mode, caller>>,
         queue'[p] = queue[p], liveQueued'[p] = liveQueued[p],
         phase'[p] = phase[p] \/ (phase[p] # "open" /\ phase'[p] \notin Serving /\ queue[p] = <<>>),
         \A d \in CallsOf(p) :
            \/ task'[d] = task[d]
            \/ task'[d] = "none" /\ task[d] # "queued" /\ future'[d] # "pending",
         \A d \in CallsOf(p) : future'[d] = "pending" => future[d] = "pending",
         \A j \in DOMAIN dispatch'[p] : \E i \in DOMAIN dispatch[p] :
            dispatch'[p][j].call = dispatch[p][i].call,
         \A w \in Executing(p)' :
            \/ w \in Executing(p) /\ worker'[w].call = worker[w].call
            \/ \E i \in DOMAIN dispatch[p] : worker'[w].call = dispatch[p][i].call,
         \A d \in CallsOf(p) : Placed(p, d) /\ future'[d] = "pending" => Placed(p, d)',
         phase'[p] = "stopped" => phase[p] = "stopped" \/ \A d \in CallsOf(p) : ~ Placed(p, d),
         UnfinishedOK(p)'
  PROVE  CallInv'
<1>1. CallTypes /\ ProcOK(p)
  BY DEF CallInv
<1>2. \A d : Has(p, d)' <=> Has(p, d)
  BY DEF Has, CallsOf
<1>3. \A d \in CallsOf(p) : /\ task'[d] = "queued" <=> task[d] = "queued"
                            /\ task'[d] = "started" => task[d] = "started"
  BY <1>1 DEF CallTypes, CallsOf
<1>4. QueueOK(p)'
  BY <1>1, <1>2, <1>3 DEF ProcOK, QueueOK, Has
<1>5. DispatchCallsOK(p)'
  BY <1>1, <1>2, <1>3 DEF ProcOK, DispatchCallsOK, Has
<1>6. WorkerCallsOK(p)'
  <2> SUFFICES ASSUME NEW w \in Executing(p)'
               PROVE  /\ worker'[w].call \in CallsOf(p)
                      /\ caller'[worker'[w].call] \notin Unadmitted
                      /\ task'[worker'[w].call] # "queued"
    BY DEF WorkerCallsOK, Has, CallsOf
  <2>1. Has(p, worker'[w].call) /\ task[worker'[w].call] # "queued"
    BY <1>1 DEF ProcOK, WorkerCallsOK, DispatchCallsOK
  <2> QED  BY <1>3, <2>1 DEF Has
<1>7. LiveOK(p)'
  BY <1>1, <1>3, LiveSame DEF ProcOK
<1>8. ASSUME NEW d \in CallsOf(p) PROVE CallOK(p, d)'
  <2>1. CallOK(p, d) /\ d \in Call
    BY <1>1 DEF ProcOK, CallsOf
  <2>2. caller[d] \in Unadmitted => task'[d] = "none"
    BY <2>1 DEF CallOK
  <2>3. task'[d] = "queued" => In(d, queue'[p])
    BY <1>3, <2>1 DEF CallOK
  <2>4. caller[d] = "waiting" => Accepting(p)' /\ Full(p)'
    BY <2>1 DEF CallOK, Accepting, Full
  <2>5. ASSUME Up(p), Pending(d)' PROVE task'[d] # "none" /\ phase'[p] # "stopped" /\ Placed(p, d)'
    <3>1. Pending(d) /\ future'[d] = "pending"
      BY <2>5 DEF Pending
    <3>2. task[d] # "none" /\ phase[p] # "stopped" /\ Placed(p, d)
      BY <2>1, <2>5, <3>1 DEF CallOK
    <3> QED  BY <3>1, <3>2
  <2> QED  BY <2>2, <2>3, <2>4, <2>5 DEF CallOK, Up
<1>9. ProcOK(p)'
  BY <1>4, <1>5, <1>6, <1>7, <1>8 DEF ProcOK, CallsOf
<1> QED  BY <1>9, OthersSame

\* The head of the dispatch queue is taken off.
LEMMA DispatchHead ==
  ASSUME SlotInv, NEW p \in Proc, dispatch[p] # <<>>, dispatch' = [dispatch EXCEPT ![p] = Tail(@)]
  PROVE  /\ 1 \in DOMAIN dispatch[p] /\ Head(dispatch[p]) = dispatch[p][1]
         /\ Len(dispatch[p]) \in Nat /\ Len(dispatch'[p]) = Len(dispatch[p]) - 1
         /\ \A j \in DOMAIN dispatch'[p] : /\ j + 1 \in DOMAIN dispatch[p]
                                           /\ dispatch'[p][j] = dispatch[p][j + 1]
         /\ \A j \in DOMAIN dispatch[p] : j = 1 \/ \E i \in DOMAIN dispatch'[p] :
                                                      dispatch'[p][i] = dispatch[p][j]
         /\ \A q \in Proc : q # p => dispatch'[q] = dispatch[q]
<1> DEFINE s == dispatch[p]
           t == Tail(s)
           T == {s[j] : j \in DOMAIN s}
<1>1. s \in Seq(T) /\ s # <<>>
  BY Parts DEF TypeOK, IsSequence
<1>2. dispatch'[p] = t /\ \A q \in Proc : q # p => dispatch'[q] = dispatch[q]
  BY Parts DEF TypeOK
<1> HIDE DEF s, T
<1>3. /\ DOMAIN s = 1 .. Len(s) /\ Len(s) \in Nat /\ Len(s) > 0 /\ Head(s) = s[1]
      /\ Len(t) = Len(s) - 1 /\ DOMAIN t = 1 .. Len(s) - 1
      /\ \A j \in 1 .. Len(s) - 1 : t[j] = s[j + 1]
  BY <1>1
<1> DEFINE n == Len(s)
<1> HIDE DEF t, n
<1>4. /\ DOMAIN s = 1 .. n /\ n \in Nat /\ n > 0 /\ DOMAIN t = 1 .. n - 1
      /\ \A j \in 1 .. n - 1 : t[j] = s[j + 1]
  BY <1>3 DEF n
<1>5. \A j \in DOMAIN t : j + 1 \in DOMAIN s /\ t[j] = s[j + 1]
  BY <1>4
<1>6. ASSUME NEW j \in DOMAIN s, j # 1 PROVE \E i \in DOMAIN t : t[i] = s[j]
  <2>1. j - 1 \in 1 .. n - 1 /\ (j - 1) + 1 = j
    BY <1>4, <1>6
  <2> QED  BY <1>4, <2>1
<1>7. 1 \in DOMAIN s
  BY <1>4
<1> QED  BY <1>2, <1>3, <1>5, <1>6, <1>7 DEF s

LEMMA PickUpCalls ==
  ASSUME CallInv, SlotInv, NEW w \in Worker, PickUp(w)
  PROVE  CallInv'
<1> DEFINE p == w[1]
           c == Head(dispatch[p]).call
           l == Head(dispatch[p]).lease
<1>1. /\ p \in Proc /\ worker[w].at = "idle" /\ dispatch[p] # <<>>
      /\ dispatch' = [dispatch EXCEPT ![p] = Tail(@)]
      /\ UNCHANGED <<mode, phase, caller, future, queue, liveQueued, budget>>
      /\ \/ /\ future[c] # "pending" /\ task' = [task EXCEPT ![c] = "none"]
            /\ unfinished' = [unfinished EXCEPT ![p] = @ - 1]
            /\ worker' = [worker EXCEPT ![w] = [at |-> "releasing", call |-> NoCall, lease |-> l]]
         \/ /\ future[c] = "pending" /\ UNCHANGED <<task, unfinished>>
            /\ worker' = [worker EXCEPT ![w] = [at |-> "running", call |-> c, lease |-> l]]
  BY Consts DEF PickUp, Finally
<1>2. CallTypes /\ ProcOK(p)
  BY <1>1 DEF CallInv
<1>3. /\ 1 \in DOMAIN dispatch[p] /\ Head(dispatch[p]) = dispatch[p][1]
      /\ Len(dispatch[p]) \in Nat /\ Len(dispatch'[p]) = Len(dispatch[p]) - 1
      /\ \A j \in DOMAIN dispatch'[p] : /\ j + 1 \in DOMAIN dispatch[p]
                                        /\ dispatch'[p][j] = dispatch[p][j + 1]
      /\ \A j \in DOMAIN dispatch[p] : j = 1 \/ \E i \in DOMAIN dispatch'[p] :
                                                   dispatch'[p][i] = dispatch[p][j]
      /\ \A q \in Proc : q # p => dispatch'[q] = dispatch[q]
  BY <1>1, DispatchHead
<1>4. c = dispatch[p][1].call /\ Has(p, c) /\ task[c] # "queued" /\ c \in CallsOf(p) /\ c \in Call
      /\ Home[c] = p
  BY <1>2, <1>3 DEF ProcOK, DispatchCallsOK, Has, CallsOf
<1> HIDE DEF c, l, p
<1>5. \A v \in Worker : v # w => worker'[v] = worker[v]
  BY <1>1, Parts DEF TypeOK
<1>6. /\ future[c] # "pending" => worker'[w].at = "releasing"
      /\ future[c] = "pending" => worker'[w].at = "running" /\ worker'[w].call = c
  BY <1>1, Parts DEF TypeOK
<1>7. \A d \in Call : \/ task'[d] = task[d]
                      \/ d = c /\ task'[d] = "none" /\ future[c] # "pending"
  BY <1>1, <1>2 DEF CallTypes
<1>8. \A q \in Proc : q # p => unfinished'[q] = unfinished[q]
  BY <1>1, <1>2 DEF CallTypes
<1>9. CallTypes'
  <2>1. task' \in [Call -> {"none", "queued", "started"}]
    BY <1>1, <1>2 DEF CallTypes
  <2>2. unfinished' = unfinished \/ unfinished' = [unfinished EXCEPT ![p] = @ - 1]
    BY <1>1
  <2>3. unfinished' \in [Proc -> Int]
    BY <1>1, <1>2, <2>2 DEF CallTypes
  <2> QED  BY <1>1, <1>2, <2>1, <2>3 DEF CallTypes
<1>10. OnlyOf(p)
  <2>1. \A v \in Worker : v[1] # p => worker'[v] = worker[v]
    BY <1>5 DEF p
  <2>2. \A d \in Call : Home[d] # p => task'[d] = task[d]
    BY <1>4, <1>7
  <2> QED  BY <1>1, <1>3, <1>8, <2>1, <2>2 DEF OnlyOf
<1>11. /\ w \in WorkersOf(p) /\ w \notin Executing(p)
       /\ future[c] # "pending" => Executing(p)' = Executing(p)
       /\ future[c] = "pending" => Executing(p)' = Executing(p) \cup {w}
  BY <1>1, <1>5, <1>6 DEF Executing, WorkersOf, p
<1>12. UnfinishedOK(p)'
  <2> DEFINE m == Len(queue[p])
             n == Len(dispatch[p])
             r == Cardinality(Executing(p))
             n1 == Len(dispatch'[p])
             r1 == Cardinality(Executing(p)')
  <2>1. m \in Nat /\ n \in Nat /\ r \in Nat /\ n1 = n - 1 /\ unfinished[p] = m + n + r
    BY <1>1, <1>2, <1>3, ExecutingFinite, LenProperties DEF CallTypes, ProcOK, UnfinishedOK
  <2>2. CASE future[c] # "pending"
    <3>1. r1 = r /\ unfinished'[p] = unfinished[p] - 1
      BY <1>1, <1>2, <1>11, <2>2 DEF CallTypes
    <3> HIDE DEF m, n, r, n1, r1
    <3>2. unfinished'[p] = m + n1 + r1
      BY <2>1, <3>1
    <3> QED  BY <1>1, <3>2 DEF UnfinishedOK, m, n, r, n1, r1
  <2>3. CASE future[c] = "pending"
    <3>1. r1 = r + 1 /\ unfinished'[p] = unfinished[p]
      BY <1>1, <1>11, <2>3, ExecutingFinite, FS_AddElement
    <3> HIDE DEF m, n, r, n1, r1
    <3>2. unfinished'[p] = m + n1 + r1
      BY <2>1, <3>1
    <3> QED  BY <1>1, <3>2 DEF UnfinishedOK, m, n, r, n1, r1
  <2> QED  BY <2>2, <2>3
<1>13. ASSUME NEW d \in CallsOf(p), Placed(p, d), future[d] = "pending"
       PROVE  Placed(p, d)'
  <2>1. CASE In(d, queue[p])
    BY <1>1, <2>1 DEF Placed
  <2>2. ASSUME NEW j \in DOMAIN dispatch[p], dispatch[p][j].call = d PROVE Placed(p, d)'
    <3>1. CASE j = 1
      <4>1. w \in Executing(p)' /\ worker'[w].call = d
        BY <1>4, <1>6, <1>11, <1>13, <2>2, <3>1
      <4> QED  BY <4>1 DEF Placed
    <3>2. CASE j # 1
      BY <1>3, <2>2, <3>2 DEF Placed
    <3> QED  BY <3>1, <3>2
  <2>3. ASSUME NEW v \in Executing(p), worker[v].call = d PROVE Placed(p, d)'
    <3>1. v \in Executing(p)' /\ worker'[v].call = d
      BY <1>5, <1>11, <2>3 DEF Executing, WorkersOf
    <3> QED  BY <3>1 DEF Placed
  <2> QED  BY <1>13, <2>1, <2>2, <2>3 DEF Placed
<1>14. ASSUME NEW v \in Executing(p)'
       PROVE  \/ v \in Executing(p) /\ worker'[v].call = worker[v].call
              \/ \E i \in DOMAIN dispatch[p] : worker'[v].call = dispatch[p][i].call
  <2>1. CASE v = w
    BY <1>3, <1>4, <1>6, <1>11, <2>1
  <2>2. CASE v # w
    BY <1>5, <1>11, <2>2 DEF Executing, WorkersOf
  <2> QED  BY <2>1, <2>2
<1>15. \A d \in CallsOf(p) :
            \/ task'[d] = task[d]
            \/ task'[d] = "none" /\ task[d] # "queued" /\ future'[d] # "pending"
  BY <1>1, <1>4, <1>7 DEF CallsOf
<1>16. \A j \in DOMAIN dispatch'[p] : \E i \in DOMAIN dispatch[p] :
            dispatch'[p][j].call = dispatch[p][i].call
  BY <1>3
<1> QED  BY <1>1, <1>9, <1>10, <1>12, <1>13, <1>14, <1>15, <1>16, WorkStep

LEMMA FinishCalls ==
  ASSUME CallInv, SlotInv, NEW w \in Worker, Finish(w)
  PROVE  CallInv'
<1> DEFINE p == w[1]
           c == worker[w].call
<1>1. /\ p \in Proc /\ worker[w].at = "running"
      /\ UNCHANGED <<mode, phase, caller, queue, liveQueued, dispatch, budget>>
      /\ future' = [future EXCEPT ![c] = "resolved"] /\ task' = [task EXCEPT ![c] = "none"]
      /\ unfinished' = [unfinished EXCEPT ![p] = @ - 1]
      /\ worker' = [worker EXCEPT ![w] = [at |-> "releasing", call |-> NoCall,
                                          lease |-> worker[w].lease]]
  BY Consts DEF Finish, Finally
<1>2. CallTypes /\ ProcOK(p)
  BY <1>1 DEF CallInv
<1>3. w \in Executing(p)
  BY <1>1 DEF Executing, WorkersOf
<1>4. Has(p, c) /\ task[c] # "queued" /\ c \in CallsOf(p) /\ c \in Call /\ Home[c] = p
  BY <1>2, <1>3 DEF ProcOK, WorkerCallsOK, Has, CallsOf
<1> HIDE DEF c
<1>5. (\A v \in Worker : v # w => worker'[v] = worker[v]) /\ worker'[w].at = "releasing"
  BY <1>1, Parts DEF TypeOK
<1>6. /\ \A d \in Call : d # c => task'[d] = task[d] /\ future'[d] = future[d]
      /\ task'[c] = "none" /\ future'[c] = "resolved"
      /\ \A q \in Proc : q # p => unfinished'[q] = unfinished[q]
  BY <1>1, <1>2, <1>4 DEF CallTypes
<1>7. CallTypes'
  <2>1. /\ task' \in [Call -> {"none", "queued", "started"}] /\ future' \in [Call -> {"pending", "resolved"}]
        /\ unfinished' \in [Proc -> Int]
    <3>1. task' \in [Call -> {"none", "queued", "started"}]
      BY <1>1, <1>2 DEF CallTypes
    <3>2. future' \in [Call -> {"pending", "resolved"}]
      BY <1>1, <1>2 DEF CallTypes
    <3>3. unfinished' \in [Proc -> Int]
      BY <1>1, <1>2 DEF CallTypes
    <3> QED  BY <3>1, <3>2, <3>3
  <2> QED  BY <1>1, <1>2, <2>1 DEF CallTypes
<1>8. OnlyOf(p)
  BY <1>1, <1>4, <1>5, <1>6 DEF OnlyOf
<1>9. Executing(p)' = Executing(p) \ {w}
  BY <1>5 DEF Executing, WorkersOf
<1>10. UnfinishedOK(p)'
  <2> DEFINE m == Len(queue[p])
             n == Len(dispatch[p])
             r == Cardinality(Executing(p))
             r1 == Cardinality(Executing(p)')
  <2>1. n \in Nat
    BY <1>1, Parts, AppendSequence DEF TypeOK
  <2>2. m \in Nat /\ r \in Nat /\ unfinished[p] = m + n + r
    BY <1>1, <1>2, ExecutingFinite, LenProperties DEF CallTypes, ProcOK, UnfinishedOK
  <2>3. r1 = r - 1
    BY <1>1, <1>3, <1>9, ExecutingFinite, FS_RemoveElement
  <2>4. unfinished'[p] = unfinished[p] - 1
    BY <1>1, <1>2 DEF CallTypes
  <2> HIDE DEF m, n, r, r1
  <2>5. unfinished'[p] = m + n + r1
    BY <2>1, <2>2, <2>3, <2>4
  <2> QED  BY <1>1, <2>5 DEF UnfinishedOK, m, n, r, r1
<1>11. ASSUME NEW d \in CallsOf(p), Placed(p, d), future'[d] = "pending"
       PROVE  Placed(p, d)'
  <2>1. d # c
    BY <1>6, <1>11
  <2>2. ASSUME NEW v \in Executing(p), worker[v].call = d
        PROVE  v \in Executing(p)' /\ worker'[v].call = d
    BY <1>5, <1>9, <2>1, <2>2 DEF Executing, WorkersOf, c
  <2> QED  BY <1>1, <1>11, <2>2 DEF Placed
<1>12. \A v \in Executing(p)' : v \in Executing(p) /\ worker'[v].call = worker[v].call
  BY <1>5, <1>9 DEF Executing, WorkersOf
<1>13. \A d \in CallsOf(p) :
            /\ \/ task'[d] = task[d]
               \/ task'[d] = "none" /\ task[d] # "queued" /\ future'[d] # "pending"
            /\ future'[d] = "pending" => future[d] = "pending"
  BY <1>4, <1>6 DEF CallsOf
<1> HIDE DEF p
<1> QED  BY <1>1, <1>7, <1>8, <1>10, <1>11, <1>12, <1>13, WorkStep

\* A worker that releases runs nothing before or after.
LEMMA WorkerReleasesCalls ==
  ASSUME CallInv, SlotInv, NEW w \in Worker, WorkerReleases(w)
  PROVE  CallInv'
<1> DEFINE p == w[1]
<1>1. /\ p \in Proc /\ worker[w].at = "releasing"
      /\ UNCHANGED <<mode, phase, caller, task, future, queue, liveQueued, unfinished, dispatch>>
      /\ worker' = [worker EXCEPT ![w] = IF phase[p] \in {"open", "draining"} THEN Idle ELSE Gone]
  BY Consts DEF WorkerReleases, calls, queues
<1>2. (\A v \in Worker : v # w => worker'[v] = worker[v]) /\ worker'[w].at \in {"idle", "gone"}
  BY <1>1, Parts DEF TypeOK, Idle, Gone
<1>3. /\ Executing(p)' = Executing(p)
      /\ \A v \in Executing(p) : worker'[v] = worker[v]
  BY <1>1, <1>2 DEF Executing, WorkersOf
<1>4. CallTypes /\ ProcOK(p)
  BY <1>1 DEF CallInv
<1>5. budget' \in 0 .. MaxTroubles
  BY <1>4, TroubleStep DEF WorkerReleases, ReleaseSafely, CallTypes
<1>6. CallTypes'
  BY <1>1, <1>4, <1>5 DEF CallTypes
<1>7. OnlyOf(p)
  BY <1>1, <1>2 DEF OnlyOf
<1>8. \A d \in CallsOf(p) : Placed(p, d) => Placed(p, d)'
  BY <1>1, <1>3 DEF Placed
<1>9. UnfinishedOK(p)'
  BY <1>1, <1>3, <1>4 DEF ProcOK, UnfinishedOK
<1> HIDE DEF p
<1> QED  BY <1>1, <1>3, <1>6, <1>7, <1>8, <1>9, WorkStep

\* queue.join() returns: nothing is queued, dispatched or running.
LEMMA DrainCalls ==
  ASSUME CallInv, SlotInv, NEW p \in Proc, Drain(p)
  PROVE  CallInv'
<1>1. /\ UNCHANGED <<mode, caller, task, future, queue, liveQueued, unfinished, dispatch, worker, budget>>
      /\ phase[p] = "draining" /\ unfinished[p] = 0
      /\ phase' = [phase EXCEPT ![p] = "stopping"]
  BY DEF Drain, StopPump, calls, queues
<1>2. CallTypes /\ ProcOK(p)
  BY DEF CallInv
<1>3. queue[p] = <<>>
  <2> DEFINE m == Len(queue[p])
             n == Len(dispatch[p])
             r == Cardinality(Executing(p))
  <2>1. n \in Nat
    BY Parts, AppendSequence DEF TypeOK
  <2>2. m \in Nat /\ r \in Nat /\ m + n + r = 0
    BY <1>1, <1>2, ExecutingFinite, LenProperties DEF CallTypes, ProcOK, UnfinishedOK
  <2> HIDE DEF m, n, r
  <2>3. m = 0
    BY <2>1, <2>2
  <2>4. queue[p] \in Seq(Call) /\ Len(queue[p]) = 0
    BY <1>2, <2>3 DEF CallTypes, m
  <2> QED  BY <2>4, EmptySeq
<1>4. CallTypes' /\ phase'[p] = "stopping" /\ \A q \in Proc : q # p => phase'[q] = phase[q]
  BY <1>1, <1>2 DEF CallTypes
<1>5. OnlyOf(p)
  BY <1>1, <1>4 DEF OnlyOf
<1>6. Executing(p)' = Executing(p)
  BY <1>1 DEF Executing
<1>7. \A d \in CallsOf(p) : Placed(p, d) => Placed(p, d)'
  BY <1>1, <1>6 DEF Placed
<1>8. UnfinishedOK(p)'
  BY <1>1, <1>2, <1>6 DEF ProcOK, UnfinishedOK
<1>9. phase[p] # "open" /\ phase'[p] \notin Serving /\ phase'[p] # "stopped"
  BY <1>1, <1>4 DEF Serving
<1> QED  BY <1>1, <1>3, <1>4, <1>5, <1>6, <1>7, <1>8, <1>9, WorkStep

\* The workers are cancelled: the calls they ran lose task and future together.
LEMMA CancelWorkersCalls ==
  ASSUME CallInv, SlotInv, NEW p \in Proc, CancelWorkers(p)
  PROVE  CallInv'
<1> DEFINE running == Executing(p)
           ended == {worker[w].call : w \in running}
<1>1. /\ UNCHANGED <<mode, caller, queue, liveQueued, dispatch, budget>>
      /\ phase[p] = "stopping" /\ phase' = [phase EXCEPT ![p] = "gathering"]
      /\ future' = [c \in Call |-> IF c \in ended THEN "resolved" ELSE future[c]]
      /\ task' = [c \in Call |-> IF c \in ended THEN "none" ELSE task[c]]
      /\ unfinished' = [unfinished EXCEPT ![p] = @ - Cardinality(running)]
  BY DEF CancelWorkers
<1>2. worker' = [w \in Worker |->
                    IF w \in running
                    THEN [at |-> "releasing", call |-> NoCall, lease |-> worker[w].lease]
                    ELSE IF w[1] = p THEN Gone ELSE worker[w]]
  BY DEF CancelWorkers
<1>3. CallTypes /\ ProcOK(p)
  BY DEF CallInv
<1>4. ASSUME NEW c \in ended PROVE c \in CallsOf(p) /\ task[c] # "queued" /\ Home[c] = p
  BY <1>3 DEF ProcOK, WorkerCallsOK, Has, CallsOf
<1>5. Executing(p)' = {} /\ \A w \in Worker : w[1] # p => worker'[w] = worker[w]
  BY <1>2 DEF Executing, WorkersOf, Gone
<1>6. /\ phase'[p] = "gathering" /\ \A q \in Proc : q # p => phase'[q] = phase[q] /\ unfinished'[q] = unfinished[q]
      /\ unfinished'[p] = unfinished[p] - Cardinality(running)
  BY <1>1, <1>3 DEF CallTypes
<1>7. CallTypes'
  <2>1. /\ phase' \in [Proc -> {"open", "draining", "stopping", "gathering", "stopped"}]
        /\ task' \in [Call -> {"none", "queued", "started"}] /\ future' \in [Call -> {"pending", "resolved"}]
    BY <1>1, <1>3 DEF CallTypes
  <2>2. unfinished' \in [Proc -> Int]
    BY <1>1, <1>3, ExecutingFinite DEF CallTypes
  <2> QED  BY <1>1, <1>3, <2>1, <2>2 DEF CallTypes
<1>8. \A c \in Call : /\ c \notin ended => task'[c] = task[c] /\ future'[c] = future[c]
                      /\ c \in ended => task'[c] = "none" /\ future'[c] = "resolved"
  BY <1>1
<1>9. OnlyOf(p)
  BY <1>1, <1>4, <1>5, <1>6, <1>8 DEF OnlyOf
<1>10. UnfinishedOK(p)'
  <2> DEFINE m == Len(queue[p])
             n == Len(dispatch[p])
             r == Cardinality(Executing(p))
  <2>1. n \in Nat
    BY Parts, AppendSequence DEF TypeOK
  <2>2. m \in Nat /\ r \in Nat /\ unfinished[p] = m + n + r /\ unfinished'[p] = unfinished[p] - r
    BY <1>3, <1>6, ExecutingFinite, LenProperties DEF CallTypes, ProcOK, UnfinishedOK
  <2> HIDE DEF m, n, r
  <2>3. unfinished'[p] = m + n + 0
    BY <2>1, <2>2
  <2> QED  BY <1>1, <1>5, <2>3, FS_EmptySet DEF UnfinishedOK, m, n
<1>11. ASSUME NEW d \in CallsOf(p), Placed(p, d), future'[d] = "pending"
       PROVE  Placed(p, d)'
  <2>1. d \notin ended
    BY <1>8, <1>11 DEF CallsOf
  <2>2. ~ \E w \in Executing(p) : worker[w].call = d
    BY <2>1
  <2> QED  BY <1>1, <1>11, <2>2 DEF Placed
<1>12. phase[p] # "open" /\ phase'[p] \notin Serving /\ phase'[p] # "stopped" /\ queue[p] = <<>>
  BY <1>1, <1>3, <1>6 DEF ProcOK, QueueOK, Serving
<1>13. \A d \in CallsOf(p) :
            /\ \/ task'[d] = task[d]
               \/ task'[d] = "none" /\ task[d] # "queued" /\ future'[d] # "pending"
            /\ future'[d] = "pending" => future[d] = "pending"
  BY <1>4, <1>8 DEF CallsOf
<1> QED  BY <1>1, <1>5, <1>7, <1>9, <1>10, <1>11, <1>12, <1>13, WorkStep

LEMMA DrainDispatchCalls ==
  ASSUME CallInv, SlotInv, NEW p \in Proc, DrainDispatch(p)
  PROVE  CallInv'
<1> DEFINE c == Head(dispatch[p]).call
<1>1. /\ UNCHANGED <<mode, phase, caller, queue, liveQueued, worker>>
      /\ dispatch[p] # <<>> /\ dispatch' = [dispatch EXCEPT ![p] = Tail(@)]
      /\ future' = [future EXCEPT ![c] = "resolved"] /\ task' = [task EXCEPT ![c] = "none"]
      /\ unfinished' = [unfinished EXCEPT ![p] = @ - 1]
  BY DEF DrainDispatch
<1>2. CallTypes /\ ProcOK(p)
  BY DEF CallInv
<1>3. /\ 1 \in DOMAIN dispatch[p] /\ Head(dispatch[p]) = dispatch[p][1]
      /\ Len(dispatch[p]) \in Nat /\ Len(dispatch'[p]) = Len(dispatch[p]) - 1
      /\ \A j \in DOMAIN dispatch'[p] : /\ j + 1 \in DOMAIN dispatch[p]
                                        /\ dispatch'[p][j] = dispatch[p][j + 1]
      /\ \A j \in DOMAIN dispatch[p] : j = 1 \/ \E i \in DOMAIN dispatch'[p] :
                                                   dispatch'[p][i] = dispatch[p][j]
      /\ \A q \in Proc : q # p => dispatch'[q] = dispatch[q]
  BY <1>1, DispatchHead
<1>4. c = dispatch[p][1].call /\ task[c] # "queued" /\ c \in CallsOf(p) /\ c \in Call /\ Home[c] = p
  BY <1>2, <1>3 DEF ProcOK, DispatchCallsOK, Has, CallsOf
<1> HIDE DEF c
<1>5. /\ \A d \in Call : d # c => task'[d] = task[d] /\ future'[d] = future[d]
      /\ task'[c] = "none" /\ future'[c] = "resolved"
      /\ \A q \in Proc : q # p => unfinished'[q] = unfinished[q]
      /\ unfinished'[p] = unfinished[p] - 1
  BY <1>1, <1>2, <1>4 DEF CallTypes
<1>6. CallTypes'
  <2>1. /\ task' \in [Call -> {"none", "queued", "started"}] /\ future' \in [Call -> {"pending", "resolved"}]
        /\ unfinished' \in [Proc -> Int]
    <3>1. task' \in [Call -> {"none", "queued", "started"}]
      BY <1>1, <1>2 DEF CallTypes
    <3>2. future' \in [Call -> {"pending", "resolved"}]
      BY <1>1, <1>2 DEF CallTypes
    <3>3. unfinished' \in [Proc -> Int]
      BY <1>1, <1>2 DEF CallTypes
    <3> QED  BY <3>1, <3>2, <3>3
  <2>2. budget' \in 0 .. MaxTroubles
    BY <1>2, TroubleStep DEF DrainDispatch, ReleaseSafely, CallTypes
  <2> QED  BY <1>1, <1>2, <2>1, <2>2 DEF CallTypes
<1>7. OnlyOf(p)
  BY <1>1, <1>3, <1>4, <1>5 DEF OnlyOf
<1>8. Executing(p)' = Executing(p)
  BY <1>1 DEF Executing
<1>9. UnfinishedOK(p)'
  <2> DEFINE m == Len(queue[p])
             n == Len(dispatch[p])
             n1 == Len(dispatch'[p])
             r == Cardinality(Executing(p))
  <2>1. m \in Nat /\ r \in Nat /\ n \in Nat /\ unfinished[p] = m + n + r /\ n1 = n - 1
    BY <1>2, <1>3, ExecutingFinite, LenProperties DEF CallTypes, ProcOK, UnfinishedOK
  <2> HIDE DEF m, n, r, n1
  <2>2. unfinished'[p] = m + n1 + r
    BY <1>5, <2>1
  <2> QED  BY <1>1, <1>8, <2>2 DEF UnfinishedOK, m, n, r, n1
<1>10. ASSUME NEW d \in CallsOf(p), Placed(p, d), future'[d] = "pending"
       PROVE  Placed(p, d)'
  <2>1. d # c
    BY <1>5, <1>10
  <2>2. ASSUME NEW j \in DOMAIN dispatch[p], dispatch[p][j].call = d PROVE Placed(p, d)'
    <3>1. j # 1
      BY <1>4, <2>1, <2>2
    <3> QED  BY <1>3, <2>2, <3>1 DEF Placed
  <2> QED  BY <1>1, <1>8, <1>10, <2>2 DEF Placed
<1>11. \A d \in CallsOf(p) :
            /\ \/ task'[d] = task[d]
               \/ task'[d] = "none" /\ task[d] # "queued" /\ future'[d] # "pending"
            /\ future'[d] = "pending" => future[d] = "pending"
  BY <1>4, <1>5 DEF CallsOf
<1>12. \A j \in DOMAIN dispatch'[p] : \E i \in DOMAIN dispatch[p] :
            dispatch'[p][j].call = dispatch[p][i].call
  BY <1>3
<1> QED  BY <1>1, <1>6, <1>7, <1>8, <1>9, <1>10, <1>11, <1>12, WorkStep

\* shutdown() returns: nothing is left that a caller could wait for.
LEMMA CloseCalls ==
  ASSUME CallInv, SlotInv, NEW p \in Proc, Close(p)
  PROVE  CallInv'
<1>1. /\ UNCHANGED <<mode, caller, task, future, queue, liveQueued, unfinished, dispatch, worker>>
      /\ phase[p] = "gathering" /\ Gathered(p) /\ dispatch[p] = <<>>
      /\ phase' = [phase EXCEPT ![p] = "stopped"]
  BY DEF Close, calls, queues, loops
<1>2. CallTypes /\ ProcOK(p)
  BY DEF CallInv
<1>3. budget' \in 0 .. MaxTroubles
  BY <1>2, TroubleStep DEF Close, CallTypes
<1>4. CallTypes' /\ phase'[p] = "stopped" /\ \A q \in Proc : q # p => phase'[q] = phase[q]
  BY <1>1, <1>2, <1>3 DEF CallTypes
<1>5. OnlyOf(p)
  BY <1>1, <1>4 DEF OnlyOf
<1>6. Executing(p)' = Executing(p) /\ Executing(p) = {} /\ queue[p] = <<>>
  BY <1>1, <1>2 DEF Executing, Gathered, ProcOK, QueueOK, Serving
<1>7. \A d \in CallsOf(p) : Placed(p, d) => Placed(p, d)'
  BY <1>1, <1>6 DEF Placed
<1>8. DOMAIN <<>> = {}
  OBVIOUS
<1>9. \A d \in CallsOf(p) : ~ Placed(p, d)
  BY <1>1, <1>6, <1>8 DEF Placed, In
<1>10. UnfinishedOK(p)'
  BY <1>1, <1>2, <1>6 DEF ProcOK, UnfinishedOK
<1>11. phase[p] # "open" /\ phase'[p] \notin Serving
  BY <1>1, <1>4 DEF Serving
<1> QED  BY <1>1, <1>4, <1>5, <1>6, <1>7, <1>9, <1>10, <1>11, WorkStep

\* Zombies (Z) leave the queue with their reservations, and at most one live call (F)
\* goes from the queue to the dispatch queue.
LEMMA RemovalStep ==
  ASSUME CallInv, NEW p \in Proc, OnlyOf(p), CallTypes', UNCHANGED <<mode, phase, future, worker>>,
         NEW Z, NEW F, IsFiniteSet(F),
         \A x \in Z : In(x, queue[p]) /\ Zombie(x),
         \A x \in F : In(x, queue[p]) /\ ~ Zombie(x),
         NoRepeat(queue'[p]),
         \A x : In(x, queue'[p]) <=> In(x, queue[p]) /\ x \notin Z /\ x \notin F,
         \A d \in CallsOf(p) :
            task'[d] = IF d \in Z THEN "none" ELSE IF d \in F THEN "started" ELSE task[d],
         liveQueued'[p] =
            liveQueued[p] - Cardinality({x \in Z : task[x] = "queued"}) - Cardinality(F),
         \/ caller' = Woken(p, caller)
         \/ caller' = caller /\ F = {} /\ {x \in Z : task[x] = "queued"} = {},
         \A j \in DOMAIN dispatch'[p] :
            \/ dispatch'[p][j].call \in F
            \/ \E i \in DOMAIN dispatch[p] : dispatch'[p][j].call = dispatch[p][i].call,
         \A i \in DOMAIN dispatch[p] : \E j \in DOMAIN dispatch'[p] :
            dispatch'[p][j].call = dispatch[p][i].call,
         \A x \in F : \E j \in DOMAIN dispatch'[p] : dispatch'[p][j].call = x,
         UnfinishedOK(p)'
  PROVE  CallInv'
<1> DEFINE R == {x \in Z : task[x] = "queued"}
<1>1. CallTypes /\ ProcOK(p)
  BY DEF CallInv
<1>2. ASSUME NEW x, In(x, queue[p])
      PROVE  Has(p, x) /\ x \in CallsOf(p) /\ x \in Call /\ task[x] # "started"
  BY <1>1, <1>2 DEF ProcOK, QueueOK, In, Has, CallsOf
<1>3. ASSUME NEW x \in F PROVE task[x] = "queued" /\ future[x] = "pending" /\ x \in CallsOf(p) /\ x \notin Z
  BY <1>1, <1>2, <1>3 DEF Zombie, CallTypes
<1>4. ASSUME NEW d \in CallsOf(p)
      PROVE  /\ Has(p, d)' <=> Has(p, d)
             /\ caller'[d] \in Unadmitted => caller[d] \in Unadmitted
             /\ caller'[d] = "waiting" => caller[d] = "waiting" /\ caller' = caller
             /\ Pending(d)' <=> Pending(d)
  <2>1. /\ Woken(p, caller)[d] # "waiting"
        /\ Woken(p, caller)[d] = caller[d] \/ (Woken(p, caller)[d] = "woken" /\ caller[d] = "waiting")
    <3>1. caller \in [Call -> Unadmitted \cup {"awaiting", "cleanup", "returned"}]
      BY <1>1 DEF CallTypes
    <3> QED  BY <3>1, WokenCalls
  <2>2. caller'[d] = "waiting" => caller' = caller
    BY <2>1
  <2> QED  BY <2>1, <2>2 DEF Has, CallsOf, Unadmitted, Pending
<1>5. QueueOK(p)'
  <2>1. ASSUME NEW x, In(x, queue'[p])
        PROVE  x \in CallsOf(p) /\ caller'[x] \notin Unadmitted /\ task'[x] # "started"
    <3>1. In(x, queue[p]) /\ x \notin Z /\ x \notin F
      BY <2>1
    <3>2. Has(p, x) /\ x \in CallsOf(p) /\ task[x] # "started"
      BY <1>2, <3>1
    <3> QED  BY <1>4, <3>1, <3>2 DEF Has
  <2>2. \A j \in DOMAIN queue'[p] : In(queue'[p][j], queue'[p])
    BY DEF In
  <2>3. ASSUME phase[p] \notin Serving PROVE queue'[p] = <<>>
    <3>1. queue[p] = <<>> /\ DOMAIN <<>> = {}
      BY <1>1, <2>3 DEF ProcOK, QueueOK
    <3>2. \A j \in DOMAIN queue'[p] : FALSE
      BY <2>2, <3>1 DEF In
    <3>3. queue'[p] \in Seq(Call)
      BY DEF CallTypes
    <3> DEFINE s == queue'[p]
    <3>4. s \in Seq(Call) /\ DOMAIN s = {}
      BY <3>2, <3>3
    <3> HIDE DEF s
    <3>5. s = <<>>
      <4>1. DOMAIN s = 1 .. Len(s) /\ Len(s) \in Nat
        BY <3>4, LenProperties
      <4> DEFINE n == Len(s)
      <4>2. n \in Nat /\ 1 .. n = {}
        BY <3>4, <4>1
      <4> HIDE DEF n
      <4>3. n = 0
        BY <4>2
      <4> QED  BY <3>4, <4>3, EmptySeq DEF n
    <3> QED  BY <3>5 DEF s
  <2>4. \A j \in DOMAIN queue'[p] : /\ queue'[p][j] \in CallsOf(p)
                                    /\ caller'[queue'[p][j]] \notin Unadmitted
                                    /\ task'[queue'[p][j]] # "started"
    BY <2>1, <2>2
  <2> QED  BY <2>3, <2>4 DEF QueueOK, Has, CallsOf
<1>6. ASSUME NEW d \in CallsOf(p), Has(p, d), task[d] # "queued" \/ d \in F
      PROVE  d \in CallsOf(p) /\ caller'[d] \notin Unadmitted /\ task'[d] # "queued"
  BY <1>3, <1>4, <1>6 DEF Has
<1>7. DispatchCallsOK(p)'
  <2> SUFFICES ASSUME NEW j \in DOMAIN dispatch'[p]
               PROVE  /\ dispatch'[p][j].call \in CallsOf(p)
                      /\ caller'[dispatch'[p][j].call] \notin Unadmitted
                      /\ task'[dispatch'[p][j].call] # "queued"
    BY DEF DispatchCallsOK, Has, CallsOf
  <2>1. CASE dispatch'[p][j].call \in F
    BY <1>2, <1>3, <1>6, <2>1
  <2>2. ASSUME NEW i \in DOMAIN dispatch[p], dispatch'[p][j].call = dispatch[p][i].call
        PROVE  /\ dispatch'[p][j].call \in CallsOf(p)
               /\ caller'[dispatch'[p][j].call] \notin Unadmitted
               /\ task'[dispatch'[p][j].call] # "queued"
    <3>1. Has(p, dispatch[p][i].call) /\ task[dispatch[p][i].call] # "queued"
      BY <1>1 DEF ProcOK, DispatchCallsOK
    <3>2. dispatch[p][i].call \in CallsOf(p)
      BY <3>1 DEF Has
    <3> QED  BY <1>6, <2>2, <3>1, <3>2
  <2> QED  BY <2>1, <2>2
<1>8. Executing(p)' = Executing(p)
  BY DEF Executing
<1>9. WorkerCallsOK(p)'
  <2> SUFFICES ASSUME NEW w \in Executing(p)
               PROVE  /\ worker[w].call \in CallsOf(p)
                      /\ caller'[worker[w].call] \notin Unadmitted
                      /\ task'[worker[w].call] # "queued"
    BY <1>8 DEF WorkerCallsOK, Has, CallsOf
  <2>1. Has(p, worker[w].call) /\ task[worker[w].call] # "queued"
    BY <1>1 DEF ProcOK, WorkerCallsOK
  <2>2. worker[w].call \in CallsOf(p)
    BY <2>1 DEF Has
  <2> QED  BY <1>6, <2>1, <2>2
<1>10. LiveOK(p)'
  <2> SUFFICES ASSUME phase[p] \in Serving
               PROVE  IsFiniteSet(Queued(p)') /\ liveQueued'[p] = Cardinality(Queued(p)')
    BY DEF LiveOK
  <2>1. IsFiniteSet(Queued(p)) /\ liveQueued[p] = Cardinality(Queued(p))
    BY <1>1 DEF ProcOK, LiveOK
  <2>2. ASSUME NEW x \in R PROVE x \in Queued(p)
    BY <1>2, <2>2 DEF Queued
  <2>3. ASSUME NEW x \in F PROVE x \in Queued(p) \ R
    BY <1>3, <2>3 DEF Queued
  <2>4. Queued(p)' = (Queued(p) \ R) \ F
    <3>1. ASSUME NEW d \in CallsOf(p)
          PROVE  task'[d] = "queued" <=> task[d] = "queued" /\ d \notin R /\ d \notin F
      BY <3>1
    <3> QED  BY <3>1 DEF Queued, CallsOf
  <2> DEFINE Q == Queued(p)
  <2> HIDE DEF R, Q
  <2>5. IsFiniteSet(Q \ R) /\ Cardinality(Q \ R) = Cardinality(Q) - Cardinality(R)
    <3>1. Q \cap R = R
      BY <2>2 DEF Q
    <3>2. IsFiniteSet(Q)
      BY <2>1 DEF Q
    <3>3. IsFiniteSet(Q \ R) /\ Cardinality(Q \ R) = Cardinality(Q) - Cardinality(Q \cap R)
      BY <3>2, FS_Difference
    <3> QED  BY <3>1, <3>3
  <2>6. IsFiniteSet((Q \ R) \ F) /\ Cardinality((Q \ R) \ F) = Cardinality(Q \ R) - Cardinality(F)
    <3>1. (Q \ R) \cap F = F
      BY <2>3 DEF Q
    <3> DEFINE G == Q \ R
    <3>2. IsFiniteSet(G) /\ G \cap F = F
      BY <2>5, <3>1
    <3> HIDE DEF G
    <3>3. IsFiniteSet(G \ F) /\ Cardinality(G \ F) = Cardinality(G) - Cardinality(G \cap F)
      BY <3>2, FS_Difference
    <3> QED  BY <3>2, <3>3 DEF G
  <2> QED  BY <2>1, <2>4, <2>5, <2>6 DEF Q, R
<1>11. ASSUME NEW d \in CallsOf(p) PROVE CallOK(p, d)'
  <2>1. CallOK(p, d) /\ d \in Call
    BY <1>1 DEF ProcOK, CallsOf
  <2>2. caller'[d] \in Unadmitted => task'[d] = "none"
    <3>1. caller'[d] \in Unadmitted => task[d] = "none"
      BY <1>4, <2>1 DEF CallOK
    <3> QED  BY <1>3, <3>1
  <2>3. task'[d] = "queued" => In(d, queue'[p])
    BY <2>1 DEF CallOK
  <2>4. ASSUME caller'[d] = "waiting" PROVE Accepting(p)' /\ Full(p)'
    <3>1. caller[d] = "waiting" /\ caller' = caller
      BY <1>4, <2>4
    <3>2. caller \in [Call -> Unadmitted \cup {"awaiting", "cleanup", "returned"}]
      BY <1>1 DEF CallTypes
    <3>3. Woken(p, caller)[d] # "waiting"
      BY <3>2, WokenCalls
    <3>4. F = {} /\ R = {}
      BY <2>4, <3>3
    <3>5. Cardinality(R) = 0 /\ Cardinality(F) = 0 /\ liveQueued[p] \in Int
      BY <1>1, <3>4, FS_EmptySet DEF CallTypes
    <3>6. liveQueued'[p] = liveQueued[p] - Cardinality(R) - Cardinality(F)
      OBVIOUS
    <3> HIDE DEF R
    <3>7. liveQueued'[p] = liveQueued[p]
      BY <3>5, <3>6
    <3> QED  BY <2>1, <3>1, <3>7 DEF CallOK, Accepting, Full
  <2>5. ASSUME Up(p), Pending(d)' PROVE task'[d] # "none" /\ phase[p] # "stopped" /\ Placed(p, d)'
    <3>1. Pending(d)
      BY <1>4, <2>5
    <3>2. task[d] # "none" /\ phase[p] # "stopped" /\ Placed(p, d)
      BY <2>1, <2>5, <3>1 DEF CallOK
    <3>3. d \notin Z
      BY <3>1, <3>2 DEF Zombie, Pending
    <3>4. CASE In(d, queue[p])
      <4>1. d \in F \/ In(d, queue'[p])
        BY <3>3, <3>4
      <4> QED  BY <3>2, <3>3, <4>1 DEF Placed
    <3>5. CASE \E i \in DOMAIN dispatch[p] : dispatch[p][i].call = d
      BY <3>2, <3>3, <3>5 DEF Placed
    <3>6. CASE \E w \in Executing(p) : worker[w].call = d
      BY <1>8, <3>2, <3>3, <3>6 DEF Placed
    <3> QED  BY <3>2, <3>4, <3>5, <3>6 DEF Placed
  <2> QED  BY <2>2, <2>3, <2>4, <2>5 DEF CallOK, Up
<1>12. ProcOK(p)'
  BY <1>5, <1>7, <1>9, <1>10, <1>11 DEF ProcOK, CallsOf
<1> QED  BY <1>12, OthersSame

\* The compaction: what it takes out of the batch are zombies.
LEMMA CompactCalls ==
  ASSUME CallInv, SlotInv, NEW p \in Proc, Compact(p)
  PROVE  CallInv'
<1> DEFINE s == queue[p]
           n == IF Len(s) < CompactBatch THEN Len(s) ELSE CompactBatch
           Z == {s[j] : j \in {i \in 1 .. n : Zombie(s[i])}}
           R == {c \in Z : task[c] = "queued"}
           t == Without(s, Z)
<1>1. /\ UNCHANGED <<mode, phase, future, dispatch, worker, budget>>
      /\ queue' = [queue EXCEPT ![p] = Without(@, Z)]
      /\ unfinished' = [unfinished EXCEPT ![p] = @ - Cardinality(Z)]
      /\ liveQueued' = [liveQueued EXCEPT ![p] = @ - Cardinality(R)]
      /\ task' = [c \in Call |-> IF c \in Z THEN "none" ELSE task[c]]
      /\ caller' = IF R # {} THEN Woken(p, caller) ELSE caller
  BY DEF Compact, loops
<1>2. CallTypes /\ ProcOK(p)
  BY DEF CallInv
<1>3. s \in Seq(Call) /\ NoRepeat(s)
  BY <1>2 DEF CallTypes, ProcOK, QueueOK
<1>4. ASSUME NEW x \in Z PROVE In(x, s) /\ Zombie(x)
  <2>1. Len(s) \in Nat /\ DOMAIN s = 1 .. Len(s) /\ CompactBatch \in Nat
    BY <1>3, LenProperties, QueueConsts
  <2>2. PICK j \in 1 .. n : x = s[j] /\ Zombie(s[j])
    OBVIOUS
  <2>3. j \in DOMAIN s
    BY <2>1
  <2> QED  BY <2>2, <2>3 DEF In
<1> HIDE DEF Z, n
<1>5. t \in Seq(Call) /\ \A x : In(x, t) <=> In(x, s) /\ x \notin Z
  <2>1. s \in Seq(Call)
    BY <1>3
  <2> HIDE DEF s, t
  <2>2. Without(s, Z) \in Seq(Call)
    BY <2>1, WithoutElements
  <2>3. ASSUME NEW x PROVE In(x, Without(s, Z)) <=> In(x, s) /\ x \notin Z
    <3>1. (\E j \in DOMAIN Without(s, Z) : Without(s, Z)[j] = x) <=> x \notin Z /\ \E i \in DOMAIN s : s[i] = x
      BY <2>1, WithoutRange
    <3> QED  BY <3>1 DEF In
  <2> QED  BY <2>2, <2>3 DEF t
<1>6. NoRepeat(t) /\ IsFiniteSet(Z) /\ Len(t) = Len(s) - Cardinality(Z)
  <2>1. \A i, j \in DOMAIN s : s[i] = s[j] => i = j
    BY <1>3 DEF NoRepeat
  <2>2. \A x \in Z : \E i \in DOMAIN s : s[i] = x
    BY <1>4 DEF In
  <2>3. NoRepeat(t)
    BY <1>3, <2>1, WithoutInjective DEF NoRepeat
  <2>4. IsFiniteSet(Z) /\ Len(t) = Len(s) - Cardinality(Z)
    BY <1>3, <2>1, <2>2, WithoutLength
  <2> QED  BY <2>3, <2>4
<1>7. ASSUME NEW x \in Z PROVE x \in CallsOf(p) /\ x \in Call /\ Home[x] = p
  BY <1>2, <1>4 DEF ProcOK, QueueOK, In, Has, CallsOf
<1>8. IsFiniteSet(R) /\ Cardinality(R) \in Nat /\ Cardinality(Z) \in Nat
  <2>1. R \subseteq Z
    OBVIOUS
  <2> QED  BY <1>6, <2>1, FS_Subset, FS_CardinalityType
<1> HIDE DEF R
<1>9. /\ queue'[p] = t /\ unfinished'[p] = unfinished[p] - Cardinality(Z)
      /\ liveQueued'[p] = liveQueued[p] - Cardinality(R)
      /\ \A q \in Proc : q # p => /\ queue'[q] = queue[q] /\ liveQueued'[q] = liveQueued[q]
                                  /\ unfinished'[q] = unfinished[q]
  BY <1>1, <1>2 DEF CallTypes
<1>10. caller \in [Call -> Unadmitted \cup {"awaiting", "cleanup", "returned"}]
  BY <1>2 DEF CallTypes
<1>11. CallTypes'
  <2>1. caller' \in [Call -> Unadmitted \cup {"awaiting", "cleanup", "returned"}]
    <3>1. Woken(p, caller) \in [Call -> Unadmitted \cup {"awaiting", "cleanup", "returned"}]
      BY <1>10, WokenCalls
    <3> QED  BY <1>1, <1>10, <3>1
  <2>2. task' \in [Call -> {"none", "queued", "started"}]
    BY <1>1, <1>2 DEF CallTypes
  <2>3. liveQueued' \in [Proc -> Int]
    BY <1>1, <1>2, <1>8 DEF CallTypes
  <2>4. unfinished' \in [Proc -> Int]
    BY <1>1, <1>2, <1>8 DEF CallTypes
  <2>5. queue' \in [Proc -> Seq(Call)]
    <3>1. queue' = [queue EXCEPT ![p] = t]
      BY <1>1
    <3> HIDE DEF t
    <3> QED  BY <1>2, <1>5, <3>1 DEF CallTypes
  <2> QED  BY <1>1, <1>2, <2>1, <2>2, <2>3, <2>4, <2>5 DEF CallTypes
<1>12. OnlyOf(p)
  <2>1. ASSUME NEW d \in Call, Home[d] # p PROVE caller'[d] = caller[d] /\ task'[d] = task[d]
    <3>1. Woken(p, caller)[d] = caller[d]
      BY <1>10, <2>1, WokenCalls
    <3> QED  BY <1>1, <1>7, <2>1, <3>1
  <2> QED  BY <1>1, <1>9, <2>1 DEF OnlyOf
<1>13. UnfinishedOK(p)'
  <2> DEFINE m == Len(s)
             m1 == Len(t)
             i == Len(dispatch[p])
             r == Cardinality(Executing(p))
             z == Cardinality(Z)
  <2>1. i \in Nat
    BY Parts, AppendSequence DEF TypeOK
  <2>2. /\ m \in Nat /\ r \in Nat /\ z \in Nat /\ m1 = m - z
        /\ unfinished[p] = m + i + r /\ unfinished'[p] = unfinished[p] - z
    BY <1>2, <1>3, <1>6, <1>8, <1>9, ExecutingFinite, LenProperties DEF ProcOK, UnfinishedOK
  <2> HIDE DEF m, m1, i, r, z
  <2>3. unfinished'[p] = m1 + i + r
    BY <2>1, <2>2
  <2>4. Executing(p)' = Executing(p)
    BY <1>1 DEF Executing
  <2> QED  BY <1>1, <1>9, <2>3, <2>4 DEF UnfinishedOK, m1, i, r
<1>14. liveQueued'[p] = liveQueued[p] - Cardinality(R) - Cardinality({})
  BY <1>2, <1>8, <1>9, FS_EmptySet DEF CallTypes
<1>15. \A d \in CallsOf(p) : task'[d] = IF d \in Z THEN "none" ELSE IF d \in {} THEN "started" ELSE task[d]
  BY <1>1 DEF CallsOf
<1>16. caller' = Woken(p, caller) \/ (caller' = caller /\ {} = {} /\ R = {})
  BY <1>1
<1>17. \A x \in Z : In(x, queue[p]) /\ Zombie(x)
  BY <1>4
<1>18. NoRepeat(queue'[p]) /\ \A x : In(x, queue'[p]) <=> In(x, queue[p]) /\ x \notin Z /\ x \notin {}
  BY <1>5, <1>6, <1>9
<1>19. /\ \A j \in DOMAIN dispatch'[p] :
            \/ dispatch'[p][j].call \in {}
            \/ \E i \in DOMAIN dispatch[p] : dispatch'[p][j].call = dispatch[p][i].call
       /\ \A i \in DOMAIN dispatch[p] : \E j \in DOMAIN dispatch'[p] :
            dispatch'[p][j].call = dispatch[p][i].call
  BY <1>1
<1>20. UNCHANGED <<mode, phase, future, worker>>
  BY <1>1
<1> HIDE DEF s, t
<1> QED  BY <1>11, <1>12, <1>13, <1>14, <1>15, <1>16, <1>17, <1>18, <1>19, <1>20, FS_EmptySet, RemovalStep
         DEF R

\* The pump drains zombies and claims the first live call, if there is one.
LEMMA ClaimCalls ==
  ASSUME CallInv, SlotInv, NEW p \in Proc, Claim(p)
  PROVE  CallInv'
<1> DEFINE s == queue[p]
           k == Drained(p)
           Z == {s[j] : j \in 1 .. k}
           R == {d \in Z : task[d] = "queued"}
           found == k < DrainLimit /\ k < Len(s)
           c == s[k + 1]
           e == [call |-> c, lease |-> pump[p].lease]
           cleared == [d \in Call |-> IF d \in Z THEN "none" ELSE task[d]]
<1>1. /\ UNCHANGED <<mode, phase, future, worker, budget>>
      /\ unfinished' = [unfinished EXCEPT ![p] = @ - k]
      /\ caller' = IF found \/ R # {} THEN Woken(p, caller) ELSE caller
      /\ \/ /\ found
            /\ queue' = [queue EXCEPT ![p] = SubSeq(@, k + 2, Len(@))]
            /\ task' = [cleared EXCEPT ![c] = "started"]
            /\ liveQueued' = [liveQueued EXCEPT ![p] = @ - Cardinality(R) - 1]
            /\ dispatch' = [dispatch EXCEPT ![p] = Append(@, e)]
         \/ /\ ~ found
            /\ queue' = [queue EXCEPT ![p] = SubSeq(@, k + 1, Len(@))]
            /\ task' = cleared
            /\ liveQueued' = [liveQueued EXCEPT ![p] = @ - Cardinality(R)]
            /\ UNCHANGED dispatch
  BY DEF Claim
<1>2. CallTypes /\ ProcOK(p)
  BY DEF CallInv
<1>3. s \in Seq(Call) /\ NoRepeat(s) /\ Len(s) \in Nat /\ DOMAIN s = 1 .. Len(s)
  <2>1. s \in Seq(Call) /\ NoRepeat(s)
    BY <1>2 DEF CallTypes, ProcOK, QueueOK
  <2> QED  BY <2>1, LenProperties
<1>4. /\ k \in 0 .. Len(s) /\ k <= DrainLimit /\ \A j \in 1 .. k : Zombie(s[j])
      /\ k = DrainLimit \/ k = Len(s) \/ ~ Zombie(s[k + 1])
  BY <1>3, DrainedZombies
<1>5. k \in Nat /\ k <= Len(s) /\ DrainLimit \in Nat
  BY <1>3, <1>4, QueueConsts
<1> HIDE DEF k
<1> DEFINE F == IF found THEN {c} ELSE {}
           h == IF found THEN k + 1 ELSE k
           t == SubSeq(s, h + 1, Len(s))
<1>6. found => c \in Call /\ k + 1 \in DOMAIN s /\ ~ Zombie(c)
  <2> SUFFICES ASSUME found PROVE c \in Call /\ k + 1 \in DOMAIN s /\ ~ Zombie(c)
    OBVIOUS
  <2>1. k + 1 \in 1 .. Len(s) /\ k # DrainLimit /\ k # Len(s)
    BY <1>3, <1>5
  <2> QED  BY <1>3, <1>4, <2>1, ElementOfSeq
<1>7. /\ IsFiniteSet(F) /\ Cardinality(F) = (IF found THEN 1 ELSE 0)
      /\ h \in 0 .. Len(s) /\ Z \cap F = {}
  <2>1. IsFiniteSet(F) /\ Cardinality(F) = (IF found THEN 1 ELSE 0)
    BY FS_EmptySet, FS_Singleton
  <2>2. h \in 0 .. Len(s)
    BY <1>3, <1>5
  <2>3. Z \cap F = {}
    BY <1>4, <1>6
  <2> QED  BY <2>1, <2>2, <2>3
<1>8. /\ queue' = [queue EXCEPT ![p] = t]
      /\ liveQueued' = [liveQueued EXCEPT ![p] = @ - Cardinality(R) - Cardinality(F)]
  <2>1. CASE found
    <3>1. k + 2 = h + 1 /\ Cardinality(F) = 1
      BY <1>5, <1>7, <2>1
    <3> QED  BY <1>1, <2>1, <3>1
  <2>2. CASE ~ found
    <3>1. h = k /\ Cardinality(F) = 0
      BY <1>5, <1>7, <2>2
    <3>2. queue' = [queue EXCEPT ![p] = t]
      BY <1>1, <2>2, <3>1
    <3> DEFINE b == Cardinality(R)
    <3>3. liveQueued' = [liveQueued EXCEPT ![p] = @ - b]
      BY <1>1, <2>2
    <3>4. b \in Int
      <4>1. IsFiniteSet(1 .. k)
        BY <1>5, FS_Interval
      <4> DEFINE f == [j \in 1 .. k |-> s[j]]
      <4>2. f \in Surjection(1 .. k, Z)
        BY DEF Surjection
      <4>3. IsFiniteSet(Z)
        BY <4>1, <4>2, FS_Surjection
      <4>4. R \subseteq Z
        OBVIOUS
      <4> QED  BY <4>3, <4>4, FS_Subset, FS_CardinalityType
    <3> HIDE DEF b
    <3>5. liveQueued[p] - b - 0 = liveQueued[p] - b
      BY <1>2, <3>4 DEF CallTypes
    <3> QED  BY <3>1, <3>2, <3>3, <3>5 DEF b
  <2> QED  BY <2>1, <2>2
<1>9. t \in Seq(Call) /\ Len(t) = Len(s) - h /\ NoRepeat(t) /\ \A x : In(x, t) <=> In(x, s) /\ ~ \E j \in 1 .. h : s[j] = x
  <2>1. h \in 0 .. Len(s) /\ s \in Seq(Call) /\ NoRepeat(s)
    BY <1>3, <1>7
  <2> HIDE DEF h, s
  <2>2. /\ SubSeq(s, h + 1, Len(s)) \in Seq(Call)
        /\ Len(SubSeq(s, h + 1, Len(s))) = Len(s) - h
        /\ NoRepeat(SubSeq(s, h + 1, Len(s)))
        /\ \A x : In(x, SubSeq(s, h + 1, Len(s))) <=> In(x, s) /\ ~ \E j \in 1 .. h : s[j] = x
    BY <2>1, DropFirst
  <2> QED  BY <2>2
<1>10. \A x : In(x, t) <=> In(x, s) /\ x \notin Z /\ x \notin F
  <2>1. \A x : (\E j \in 1 .. h : s[j] = x) <=> x \in Z \/ x \in F
    <3>1. CASE found
      <4>1. \A j : j \in 1 .. h <=> j \in 1 .. k \/ j = k + 1
        BY <1>5, <3>1
      <4> QED  BY <3>1, <4>1
    <3>2. CASE ~ found
      BY <3>2
    <3> QED  BY <3>1, <3>2
  <2> QED  BY <1>9, <2>1
<1>11. \A x \in Z : In(x, s) /\ Zombie(x)
  <2>1. \A j \in 1 .. k : j \in DOMAIN s
    BY <1>3, <1>5
  <2> QED  BY <1>4, <2>1 DEF In
<1>12. \A x \in F : In(x, s) /\ ~ Zombie(x)
  BY <1>6 DEF In
<1>13. ASSUME NEW x \in Z \cup F PROVE x \in CallsOf(p) /\ x \in Call /\ Home[x] = p
  <2>1. In(x, s)
    BY <1>11, <1>12
  <2>2. x \in CallsOf(p)
    BY <1>2, <2>1 DEF ProcOK, QueueOK, In, Has
  <2> QED  BY <2>2 DEF CallsOf
<1>14. IsFiniteSet(R) /\ Cardinality(R) \in Nat
  <2>1. IsFiniteSet(1 .. k)
    BY <1>5, FS_Interval
  <2> DEFINE f == [j \in 1 .. k |-> s[j]]
  <2>2. f \in Surjection(1 .. k, Z)
    BY DEF Surjection
  <2>3. IsFiniteSet(Z) /\ R \subseteq Z
    BY <2>1, <2>2, FS_Surjection
  <2> QED  BY <2>3, FS_Subset, FS_CardinalityType
<1>15. caller' = Woken(p, caller) \/ (caller' = caller /\ F = {} /\ R = {})
  BY <1>1
<1>16. \A d \in Call : task'[d] = IF d \in Z THEN "none" ELSE IF d \in F THEN "started" ELSE task[d]
  <2>1. CASE found
    BY <1>1, <1>6, <1>7, <2>1
  <2>2. CASE ~ found
    BY <1>1, <2>2
  <2> QED  BY <2>1, <2>2
<1>17. task' \in [Call -> {"none", "queued", "started"}]
  BY <1>1, <1>2 DEF CallTypes
<1>18. /\ found => dispatch' = [dispatch EXCEPT ![p] = Append(@, e)]
       /\ ~ found => dispatch' = dispatch
  BY <1>1
<1>19. /\ IsSequence(Append(dispatch[p], e)) /\ Len(dispatch[p]) \in Nat
       /\ DOMAIN dispatch[p] = 1 .. Len(dispatch[p])
       /\ DOMAIN Append(dispatch[p], e) = 1 .. Len(dispatch[p]) + 1
       /\ Append(dispatch[p], e)[Len(dispatch[p]) + 1] = e
       /\ \A j \in 1 .. Len(dispatch[p]) : Append(dispatch[p], e)[j] = dispatch[p][j]
  BY Parts, AppendSequence DEF TypeOK
<1>20. /\ found => dispatch'[p] = Append(dispatch[p], e)
       /\ ~ found => dispatch'[p] = dispatch[p]
       /\ \A q \in Proc : q # p => dispatch'[q] = dispatch[q]
  BY <1>18, Parts DEF TypeOK
<1>21. unfinished' = [unfinished EXCEPT ![p] = @ - k] /\ UNCHANGED <<mode, phase, future, worker, budget>>
  BY <1>1
<1>22. e.call = c
  OBVIOUS
<1> HIDE DEF t, R, e
<1>23. /\ queue'[p] = t /\ unfinished'[p] = unfinished[p] - k
       /\ liveQueued'[p] = liveQueued[p] - Cardinality(R) - Cardinality(F)
       /\ \A q \in Proc : q # p => /\ queue'[q] = queue[q] /\ liveQueued'[q] = liveQueued[q]
                                   /\ unfinished'[q] = unfinished[q]
  BY <1>2, <1>8, <1>21 DEF CallTypes
<1>24. caller \in [Call -> Unadmitted \cup {"awaiting", "cleanup", "returned"}]
  BY <1>2 DEF CallTypes
<1>25. CallTypes'
  <2>1. caller' \in [Call -> Unadmitted \cup {"awaiting", "cleanup", "returned"}]
    <3>1. Woken(p, caller) \in [Call -> Unadmitted \cup {"awaiting", "cleanup", "returned"}]
      BY <1>24, WokenCalls
    <3> QED  BY <1>15, <1>24, <3>1
  <2>2. liveQueued' \in [Proc -> Int]
    <3> HIDE DEF F
    <3>1. Cardinality(F) \in Nat
      BY <1>7
    <3> QED  BY <1>2, <1>8, <1>14, <3>1 DEF CallTypes
  <2>3. unfinished' \in [Proc -> Int]
    BY <1>2, <1>5, <1>21 DEF CallTypes
  <2>4. queue' \in [Proc -> Seq(Call)]
    BY <1>2, <1>8, <1>9 DEF CallTypes
  <2> QED  BY <1>2, <1>17, <1>21, <2>1, <2>2, <2>3, <2>4 DEF CallTypes
<1> HIDE DEF F, Z
<1>26. OnlyOf(p)
  <2>1. ASSUME NEW d \in Call, Home[d] # p PROVE caller'[d] = caller[d] /\ task'[d] = task[d]
    <3>1. Woken(p, caller)[d] = caller[d]
      BY <1>24, <2>1, WokenCalls
    <3> QED  BY <1>13, <1>15, <1>16, <2>1, <3>1
  <2> QED  BY <1>20, <1>21, <1>23, <2>1 DEF OnlyOf
<1>27. UnfinishedOK(p)'
  <2> DEFINE m == Len(s)
             m1 == Len(t)
             i == Len(dispatch[p])
             i1 == Len(dispatch'[p])
             r == Cardinality(Executing(p))
  <2>1. i \in Nat /\ i1 = IF found THEN i + 1 ELSE i
    <3>1. Len(Append(dispatch[p], e)) = Len(dispatch[p]) + 1
      BY <1>19, LenProperties DEF IsSequence
    <3> QED  BY <1>19, <1>20, <3>1
  <2>2. /\ m \in Nat /\ r \in Nat /\ m1 = m - h
        /\ unfinished[p] = m + i + r /\ unfinished'[p] = unfinished[p] - k
    BY <1>2, <1>3, <1>9, <1>23, ExecutingFinite DEF ProcOK, UnfinishedOK
  <2>3. (found => h = k + 1) /\ (~ found => h = k)
    OBVIOUS
  <2> HIDE DEF m, m1, i, i1, r, h, found
  <2>4. unfinished'[p] = m1 + i1 + r
    BY <1>5, <2>1, <2>2, <2>3
  <2>5. Executing(p)' = Executing(p)
    BY <1>21 DEF Executing
  <2> QED  BY <1>23, <2>4, <2>5 DEF UnfinishedOK, m1, i1, r
<1>28. /\ \A j \in DOMAIN dispatch'[p] :
            \/ dispatch'[p][j].call \in F
            \/ \E i \in DOMAIN dispatch[p] : dispatch'[p][j].call = dispatch[p][i].call
       /\ \A i \in DOMAIN dispatch[p] : \E j \in DOMAIN dispatch'[p] :
            dispatch'[p][j].call = dispatch[p][i].call
       /\ \A x \in F : \E j \in DOMAIN dispatch'[p] : dispatch'[p][j].call = x
  <2>1. CASE found
    <3>1. c \in F /\ \A x \in F : x = c
      BY <2>1 DEF F
    <3>2. \A j \in 1 .. Len(dispatch[p]) + 1 : j \in 1 .. Len(dispatch[p]) \/ j = Len(dispatch[p]) + 1
      BY <1>19
    <3>3. \A j \in 1 .. Len(dispatch[p]) : j \in 1 .. Len(dispatch[p]) + 1
      BY <1>19
    <3>4. Len(dispatch[p]) + 1 \in 1 .. Len(dispatch[p]) + 1
      BY <1>19
    <3> HIDE DEF found, c
    <3> QED  BY <1>19, <1>20, <1>22, <2>1, <3>1, <3>2, <3>3, <3>4
  <2>2. CASE ~ found
    <3>1. F = {}
      BY <2>2 DEF F
    <3> HIDE DEF found
    <3> QED  BY <1>20, <2>2, <3>1
  <2> QED  BY <2>1, <2>2
<1>29. \A d \in CallsOf(p) :
          task'[d] = IF d \in Z THEN "none" ELSE IF d \in F THEN "started" ELSE task[d]
  BY <1>16 DEF CallsOf
<1>30. NoRepeat(queue'[p]) /\ \A x : In(x, queue'[p]) <=> In(x, queue[p]) /\ x \notin Z /\ x \notin F
  BY <1>9, <1>10, <1>23
<1>31. IsFiniteSet(F) /\ UNCHANGED <<mode, phase, future, worker>>
  BY <1>7, <1>21
<1> HIDE DEF h, found
<1> QED  BY <1>11, <1>12, <1>15, <1>23, <1>25, <1>26, <1>27, <1>28, <1>29, <1>30, <1>31, RemovalStep
         DEF R

\* The queue closes and wakes whoever sleeps for admission.
LEMMA StartShutdownCalls ==
  ASSUME CallInv, NEW p \in Proc, StartShutdown(p)
  PROVE  CallInv'
<1>1. /\ UNCHANGED <<mode, task, future, queue, liveQueued, unfinished, dispatch, worker, budget>>
      /\ phase[p] = "open" /\ phase' = [phase EXCEPT ![p] = "draining"] /\ caller' = Woken(p, caller)
  BY DEF StartShutdown, queues, loops
<1>2. CallTypes /\ ProcOK(p)
  BY DEF CallInv
<1>3. /\ caller' \in [Call -> Unadmitted \cup {"awaiting", "cleanup", "returned"}]
      /\ \A d \in CallsOf(p) :
           /\ caller'[d] # "waiting"
           /\ caller'[d] = caller[d] \/ (caller'[d] = "woken" /\ caller[d] = "waiting")
      /\ \A d \in Call : Home[d] # p => caller'[d] = caller[d]
  <2>1. caller \in [Call -> Unadmitted \cup {"awaiting", "cleanup", "returned"}]
    BY <1>2 DEF CallTypes
  <2> QED  BY <1>1, <2>1, WokenCalls
<1>4. phase'[p] = "draining" /\ \A q \in Proc : q # p => phase'[q] = phase[q]
  BY <1>1, <1>2 DEF CallTypes
<1>5. CallTypes'
  BY <1>1, <1>2, <1>3 DEF CallTypes
<1>6. OnlyOf(p)
  BY <1>1, <1>3, <1>4 DEF OnlyOf
<1>7. ASSUME NEW d \in CallsOf(p)
      PROVE  (Has(p, d)' <=> Has(p, d)) /\ (Pending(d)' <=> Pending(d))
             /\ (caller'[d] \in Unadmitted => caller[d] \in Unadmitted)
  BY <1>1, <1>3 DEF Has, Unadmitted, Pending, CallsOf
<1>8. Executing(p)' = Executing(p) /\ Queued(p)' = Queued(p)
  BY <1>1 DEF Executing, Queued
<1>9. \A d : Has(p, d) => d \in CallsOf(p) /\ d \in CallsOf(p)' /\ caller'[d] \notin Unadmitted
  BY <1>7 DEF Has, CallsOf
<1>10. QueueOK(p)' /\ DispatchCallsOK(p)' /\ WorkerCallsOK(p)'
  <2>1. QueueOK(p)'
    BY <1>1, <1>2, <1>4, <1>9 DEF ProcOK, QueueOK, Has, Serving
  <2>2. DispatchCallsOK(p)'
    BY <1>1, <1>2, <1>9 DEF ProcOK, DispatchCallsOK, Has
  <2>3. WorkerCallsOK(p)'
    BY <1>1, <1>2, <1>8, <1>9 DEF ProcOK, WorkerCallsOK, Has
  <2> QED  BY <2>1, <2>2, <2>3
<1>11. LiveOK(p)' /\ UnfinishedOK(p)'
  BY <1>1, <1>2, <1>4, <1>8 DEF ProcOK, LiveOK, UnfinishedOK, Serving
<1>12. ASSUME NEW d \in CallsOf(p) PROVE CallOK(p, d)'
  <2>1. CallOK(p, d) /\ (Placed(p, d)' <=> Placed(p, d))
    BY <1>1, <1>2, <1>8 DEF ProcOK, Placed
  <2> QED  BY <1>1, <1>3, <1>4, <1>7, <2>1 DEF CallOK, Up
<1>13. ProcOK(p)'
  BY <1>10, <1>11, <1>12 DEF ProcOK, CallsOf
<1> QED  BY <1>5, <1>6, <1>13, OthersSame

\* A forced shutdown resolves the future of every call that has one.
LEMMA ForceExitCalls ==
  ASSUME CallInv, SlotInv, NEW p \in Proc, ForceExit(p)
  PROVE  CallInv'
<1> DEFINE z == Len(queue[p])
<1>1. /\ UNCHANGED <<mode, caller, liveQueued, dispatch, worker, budget>>
      /\ phase[p] = "draining" /\ phase' = [phase EXCEPT ![p] = "stopping"]
      /\ future' = [c \in Call |-> IF c \in Cancelled(p) THEN "resolved" ELSE future[c]]
      /\ task' = [c \in Call |-> IF Home[c] = p THEN "none" ELSE task[c]]
      /\ queue' = [queue EXCEPT ![p] = <<>>]
      /\ unfinished' = [unfinished EXCEPT ![p] = @ - z]
  BY DEF ForceExit, StopPump
<1>2. CallTypes /\ ProcOK(p)
  BY DEF CallInv
<1>3. z \in Nat /\ <<>> \in Seq(Call) /\ Len(<<>>) = 0 /\ DOMAIN <<>> = {}
  BY <1>2, LenProperties, EmptySeq DEF CallTypes
<1> HIDE DEF z
<1>4. /\ phase'[p] = "stopping" /\ queue'[p] = <<>> /\ unfinished'[p] = unfinished[p] - z
      /\ \A q \in Proc : q # p => /\ phase'[q] = phase[q] /\ queue'[q] = queue[q]
                                  /\ unfinished'[q] = unfinished[q]
  BY <1>1, <1>2 DEF CallTypes
<1>5. CallTypes'
  <2>1. phase' \in [Proc -> {"open", "draining", "stopping", "gathering", "stopped"}]
    BY <1>1, <1>2 DEF CallTypes
  <2>2. task' \in [Call -> {"none", "queued", "started"}]
    BY <1>1, <1>2 DEF CallTypes
  <2>3. future' \in [Call -> {"pending", "resolved"}]
    BY <1>1, <1>2 DEF CallTypes
  <2>4. queue' \in [Proc -> Seq(Call)] /\ unfinished' \in [Proc -> Int]
    BY <1>1, <1>2, <1>3 DEF CallTypes
  <2> QED  BY <1>1, <1>2, <2>1, <2>2, <2>3, <2>4 DEF CallTypes
<1>6. OnlyOf(p)
  BY <1>1, <1>4 DEF OnlyOf, Cancelled, CallsOf
<1>7. /\ Executing(p)' = Executing(p) /\ \A d : Has(p, d)' <=> Has(p, d)
      /\ \A d \in CallsOf(p) : task'[d] = "none"
  BY <1>1 DEF Executing, Has, CallsOf
<1>8. QueueOK(p)' /\ LiveOK(p)'
  <2>1. NoRepeat(queue'[p]) /\ \A j \in DOMAIN queue'[p] : FALSE
    BY <1>3, <1>4 DEF NoRepeat
  <2> QED  BY <1>4, <2>1 DEF QueueOK, LiveOK, Serving
<1>9. DispatchCallsOK(p)'
  <2> SUFFICES ASSUME NEW j \in DOMAIN dispatch[p]
               PROVE  /\ dispatch[p][j].call \in CallsOf(p) /\ caller[dispatch[p][j].call] \notin Unadmitted
                      /\ task'[dispatch[p][j].call] # "queued"
    BY <1>1 DEF DispatchCallsOK, Has, CallsOf
  <2>1. Has(p, dispatch[p][j].call)
    BY <1>2 DEF ProcOK, DispatchCallsOK
  <2> QED  BY <1>7, <2>1 DEF Has
<1>10. WorkerCallsOK(p)'
  <2> SUFFICES ASSUME NEW w \in Executing(p)
               PROVE  /\ worker[w].call \in CallsOf(p) /\ caller[worker[w].call] \notin Unadmitted
                      /\ task'[worker[w].call] # "queued"
    BY <1>1, <1>7 DEF WorkerCallsOK, Has, CallsOf
  <2>1. Has(p, worker[w].call)
    BY <1>2 DEF ProcOK, WorkerCallsOK
  <2> QED  BY <1>7, <2>1 DEF Has
<1>11. UnfinishedOK(p)'
  <2> DEFINE n == Len(dispatch[p])
             r == Cardinality(Executing(p))
  <2>1. n \in Nat
    BY Parts, AppendSequence DEF TypeOK
  <2>2. r \in Nat /\ unfinished[p] = z + n + r
    BY <1>2, ExecutingFinite DEF ProcOK, UnfinishedOK, z
  <2> HIDE DEF n, r
  <2>3. unfinished'[p] = 0 + n + r
    BY <1>3, <1>4, <2>1, <2>2
  <2> QED  BY <1>1, <1>3, <1>4, <1>7, <2>3 DEF UnfinishedOK, n, r
<1>12. ASSUME NEW d \in CallsOf(p) PROVE CallOK(p, d)'
  <2>1. CallOK(p, d) /\ d \in Call /\ task'[d] = "none"
    BY <1>2, <1>7 DEF ProcOK, CallsOf
  <2>2. caller'[d] # "waiting"
    BY <1>1, <2>1 DEF CallOK, Accepting
  <2>3. ~ Pending(d)'
    BY <1>1, <2>1 DEF Pending, Cancelled
  <2> QED  BY <2>1, <2>2, <2>3 DEF CallOK
<1>13. ProcOK(p)'
  BY <1>8, <1>9, <1>10, <1>11, <1>12 DEF ProcOK, CallsOf
<1> QED  BY <1>5, <1>6, <1>13, OthersSame

\* A killed process leaves nothing behind but its leases.
LEMMA KillCalls ==
  ASSUME CallInv, SlotInv, NEW p \in Proc, Kill(p)
  PROVE  CallInv'
<1>1. /\ future' = future /\ Trouble
      /\ \E m \in {"dead", "ghost"} : mode' = [mode EXCEPT ![p] = m]
      /\ phase' = [phase EXCEPT ![p] = "stopped"]
      /\ caller' = [c \in Call |-> IF Home[c] = p THEN "returned" ELSE caller[c]]
      /\ task' = [c \in Call |-> IF Home[c] = p THEN "none" ELSE task[c]]
      /\ queue' = [queue EXCEPT ![p] = <<>>]
      /\ liveQueued' = [liveQueued EXCEPT ![p] = 0]
      /\ unfinished' = [unfinished EXCEPT ![p] = 0]
      /\ dispatch' = [dispatch EXCEPT ![p] = <<>>]
      /\ worker' = [w \in Worker |-> IF w[1] = p THEN Gone ELSE worker[w]]
  BY DEF Kill
<1>2. CallTypes /\ ProcOK(p)
  BY DEF CallInv
<1>3. <<>> \in Seq(Call) /\ Len(<<>>) = 0 /\ DOMAIN <<>> = {}
  BY EmptySeq
<1>4. /\ phase'[p] = "stopped" /\ queue'[p] = <<>> /\ liveQueued'[p] = 0 /\ unfinished'[p] = 0
      /\ \A q \in Proc : q # p => /\ phase'[q] = phase[q] /\ queue'[q] = queue[q]
                                  /\ liveQueued'[q] = liveQueued[q] /\ unfinished'[q] = unfinished[q]
  BY <1>1, <1>2 DEF CallTypes
<1>5. /\ dispatch'[p] = <<>> /\ mode'[p] \in {"dead", "ghost"}
      /\ \A q \in Proc : q # p => dispatch'[q] = dispatch[q] /\ mode'[q] = mode[q]
  BY <1>1, Parts DEF TypeOK
<1>6. CallTypes'
  <2>1. /\ phase' \in [Proc -> {"open", "draining", "stopping", "gathering", "stopped"}]
        /\ caller' \in [Call -> Unadmitted \cup {"awaiting", "cleanup", "returned"}]
    BY <1>1, <1>2 DEF CallTypes
  <2>2. task' \in [Call -> {"none", "queued", "started"}]
    BY <1>1, <1>2 DEF CallTypes
  <2>3. queue' \in [Proc -> Seq(Call)]
    BY <1>1, <1>2, <1>3 DEF CallTypes
  <2>4. liveQueued' \in [Proc -> Int] /\ unfinished' \in [Proc -> Int]
    BY <1>1, <1>2 DEF CallTypes
  <2>5. budget' \in 0 .. MaxTroubles
    BY <1>1, TroubleStep
  <2> QED  BY <1>1, <1>2, <2>1, <2>2, <2>3, <2>4, <2>5 DEF CallTypes
<1>7. OnlyOf(p)
  BY <1>1, <1>4, <1>5 DEF OnlyOf
<1>8. Executing(p)' = {}
  BY <1>1 DEF Executing, WorkersOf, Gone
<1>9. \A d \in CallsOf(p) : caller'[d] = "returned" /\ task'[d] = "none"
  BY <1>1 DEF CallsOf
<1>10. QueueOK(p)' /\ DispatchCallsOK(p)' /\ WorkerCallsOK(p)' /\ LiveOK(p)'
  <2>1. QueueOK(p)' /\ LiveOK(p)'
    BY <1>3, <1>4 DEF QueueOK, NoRepeat, LiveOK, Serving
  <2>2. DispatchCallsOK(p)'
    BY <1>3, <1>5 DEF DispatchCallsOK
  <2>3. WorkerCallsOK(p)'
    BY <1>8 DEF WorkerCallsOK
  <2> QED  BY <2>1, <2>2, <2>3
<1>11. UnfinishedOK(p)'
  BY <1>3, <1>4, <1>5, <1>8, FS_EmptySet DEF UnfinishedOK
<1>12. \A d \in CallsOf(p) : CallOK(p, d)'
  BY <1>9 DEF CallOK, Pending, Unadmitted
<1>13. ProcOK(p)'
  BY <1>10, <1>11, <1>12 DEF ProcOK, CallsOf
<1> QED  BY <1>6, <1>7, <1>13, OthersSame

LEMMA CallInit == Init => CallInv
<1> SUFFICES ASSUME Init PROVE CallInv
  OBVIOUS
<1>1. <<>> \in Seq(Call) /\ Len(<<>>) = 0 /\ DOMAIN <<>> = {} /\ MaxTroubles \in 0 .. MaxTroubles
  BY EmptySeq, QueueConsts
<1>2. CallTypes
  <2>1. /\ phase \in [Proc -> {"open", "draining", "stopping", "gathering", "stopped"}]
        /\ caller \in [Call -> Unadmitted \cup {"awaiting", "cleanup", "returned"}]
        /\ task \in [Call -> {"none", "queued", "started"}]
        /\ future \in [Call -> {"pending", "resolved"}]
        /\ liveQueued \in [Proc -> Int] /\ unfinished \in [Proc -> Int]
    BY DEF Init, Unadmitted
  <2>2. queue \in [Proc -> Seq(Call)]
    BY <1>1 DEF Init
  <2> QED  BY <1>1, <2>1, <2>2 DEF CallTypes, Init
<1>3. ASSUME NEW p \in Proc PROVE ProcOK(p)
  <2>1. Executing(p) = {} /\ Queued(p) = {}
    BY DEF Init, Executing, WorkersOf, Idle, Queued, CallsOf
  <2>2. QueueOK(p) /\ DispatchCallsOK(p) /\ WorkerCallsOK(p)
    BY <1>1, <2>1 DEF Init, QueueOK, NoRepeat, DispatchCallsOK, WorkerCallsOK, Serving
  <2>3. LiveOK(p)
    BY <2>1, FS_EmptySet DEF Init, LiveOK
  <2>4. UnfinishedOK(p)
    BY <1>1, <2>1, FS_EmptySet DEF Init, UnfinishedOK
  <2>5. \A c \in CallsOf(p) : CallOK(p, c)
    BY DEF Init, CallOK, Pending, CallsOf
  <2> QED  BY <2>2, <2>3, <2>4, <2>5 DEF ProcOK
<1> QED  BY <1>2, <1>3 DEF CallInv

LEMMA CallInvStep ==
  ASSUME CallInv, SlotInv, [Next]_vars
  PROVE  CallInv'
<1>1. CASE UNCHANGED vars
  BY <1>1, CallsUntouched DEF vars, loops, CallInv, CallTypes
<1>2. ASSUME NEW c \in Call, CallStep(c) \/ Stuck(c)
      PROVE  CallInv'
  BY <1>2, CallerActions
<1>3. ASSUME NEW p \in Proc, PumpStep(p)
      PROVE  CallInv'
  <2>1. CASE Claim(p)
    BY <2>1, ClaimCalls
  <2>2. CASE ~ Claim(p)
    <3>1. UNCHANGED <<mode, phase, calls, queues, dispatch, worker>>
      BY <1>3, <2>2 DEF PumpStep, Ask, Granted, Refused, AskFails, PumpReleases
    <3>2. UNCHANGED budget \/ Trouble
      BY <1>3, <2>2 DEF PumpStep, Ask, Granted, Refused, AskFails, PumpReleases, ReleaseSafely
    <3> QED  BY <3>1, <3>2, TroubleStep, CallsUntouched DEF CallInv, CallTypes
  <2> QED  BY <2>1, <2>2
<1>4. ASSUME NEW p \in Proc, HealthStep(p)
      PROVE  CallInv'
  <2>1. CASE Compact(p)
    BY <2>1, CompactCalls
  <2>2. CASE ~ Compact(p)
    <3>1. UNCHANGED <<mode, phase, calls, queues, dispatch, worker, budget>>
      BY <1>4, <2>2 DEF HealthStep, Renew, RetryRelease, Reconcile, loops
    <3> QED  BY <3>1, CallsUntouched DEF CallInv, CallTypes
  <2> QED  BY <2>1, <2>2
<1>5. ASSUME NEW p \in Proc, StartShutdown(p) \/ StopStep(p) \/ Kill(p)
      PROVE  CallInv'
  BY <1>5, StartShutdownCalls, DrainCalls, ForceExitCalls, CancelWorkersCalls, DrainDispatchCalls,
     CloseCalls, KillCalls DEF StopStep
<1>6. ASSUME NEW w \in Worker, WorkerStep(w)
      PROVE  CallInv'
  BY <1>6, PickUpCalls, FinishCalls, WorkerReleasesCalls DEF WorkerStep
<1>7. ASSUME NEW l \in Lease, Time(l)
      PROVE  CallInv'
  <2>1. UNCHANGED <<mode, phase, calls, queues, dispatch, worker>>
    BY <1>7 DEF Time, loops
  <2>2. UNCHANGED budget \/ Trouble
    BY <1>7 DEF Time
  <2> QED  BY <2>1, <2>2, TroubleStep, CallsUntouched DEF CallInv, CallTypes
<1> QED  BY <1>1, <1>2, <1>3, <1>4, <1>5, <1>6, <1>7 DEF Next

LEMMA CallInvariance == Spec => [](SlotInv /\ CallInv)
<1>1. Init => SlotInv /\ CallInv
  BY SlotInit, CallInit
<1>2. SlotInv /\ CallInv /\ [Next]_vars => (SlotInv /\ CallInv)'
  BY SlotStep, CallInvStep
<1> QED  BY <1>1, <1>2, PTL DEF Spec

\* Whoever gives a reservation back, live_queued counts the admitted calls that no
\* worker has; and queue.join() returns exactly when nothing is queued, dispatched or
\* running.
THEOREM CountersExact == Spec => []CountersMatch
<1>1. CallInv => CountersMatch
  BY DEF CallInv, ProcOK, LiveOK, UnfinishedOK, Queued, CountersMatch, Serving
<1> QED  BY CallInvariance, <1>1, PTL

\* A call sleeps for admission only at a queue that is open and full: every path that
\* makes room, or closes the queue, wakes the sleepers.
THEOREM NobodySleepsInVain == Spec => []NoLostWakeup
<1>1. CallInv => NoLostWakeup
  <2> SUFFICES ASSUME CallInv, NEW c \in Call, caller[c] = "waiting"
               PROVE  Accepting(Home[c]) /\ Full(Home[c])
    BY DEF NoLostWakeup
  <2>1. Home[c] \in Proc /\ c \in CallsOf(Home[c])
    BY QueueConsts DEF CallsOf
  <2> QED  BY <2>1 DEF CallInv, ProcOK, CallOK
<1> QED  BY CallInvariance, <1>1, PTL

\* A call whose caller waits for its future is queued, dispatched or running: neither
\* the drain, the compaction, the shutdown nor the health check loses one.
THEOREM CallsKept == Spec => []NoCallLost
<1>1. SlotInv /\ CallInv => NoCallLost
  <2> SUFFICES ASSUME SlotInv, CallInv, NEW c \in Call, Up(Home[c]), caller[c] = "awaiting",
                      future[c] = "pending"
               PROVE  /\ phase[Home[c]] # "stopped"
                      /\ \/ c \in ToSet(queue[Home[c]])
                         \/ \E j \in 1 .. Len(dispatch[Home[c]]) : dispatch[Home[c]][j].call = c
                         \/ \E w \in Executing(Home[c]) : worker[w].call = c
    BY DEF NoCallLost
  <2> DEFINE p == Home[c]
  <2>1. p \in Proc /\ c \in CallsOf(p)
    BY QueueConsts DEF CallsOf
  <2>2. phase[p] # "stopped" /\ Placed(p, c)
    BY <2>1 DEF CallInv, ProcOK, CallOK, Pending
  <2>3. DOMAIN dispatch[p] = 1 .. Len(dispatch[p])
    BY <2>1, Parts, AppendSequence DEF TypeOK
  <2>4. In(c, queue[p]) => c \in ToSet(queue[p])
    BY DEF In, ToSet
  <2> QED  BY <2>2, <2>3, <2>4 DEF Placed
<1> QED  BY CallInvariance, <1>1, PTL

-----------------------------------------------------------------------------
(* 5. Where the slots are.                                                 *)

\* A held lease is dispatched or with a running worker.
HeldPlaced(p) == \A l \in held[p] :
    l \in Dispatched(p) \/ \E w \in Executing(p) : worker[w].lease = l

InHands(p, l) ==
    \/ pump[p].lease = l
    \/ l \in Dispatched(p)
    \/ \E w \in WorkersOf(p) : worker[w].lease = l
Covered(p, l) ==
    \/ InHands(p, l)
    \/ l \in pendingRelease[p] /\ budget < MaxTroubles
    \/ l \in lost
Accounted(p) == phase[p] \in Serving =>
    \A l \in InUse(table) : table[l].owner = p => Covered(p, l)

\* What SlotsAccounted needs besides SlotInv: a renewal, which rewrites the owner of
\* the slots of all held leases, gives no slot to a process that has no use for it.
AccountInv == \A p \in Proc : HeldPlaced(p) /\ Accounted(p)

\* What is in the table after a step of the gate was there before, with its owner, and
\* what was lost still is.
OwnersKept == \A l \in InUse(table)' :
    /\ l \in InUse(table) /\ table'[l].owner = table[l].owner
    /\ l \in lost => l \in lost'

\* Once there was trouble, there was.
BudgetKept == budget < MaxTroubles => budget' < MaxTroubles

LEMMA GateOwners ==
  ASSUME SlotInv,
         \/ Reap \/ UNCHANGED gate
         \/ \E L : ReleaseSlots(L)
         \/ \E l \in Lease : HeartbeatExpires(l) \/ GraceEnds(l)
  PROVE  OwnersKept
<1>1. CASE Reap
  <2>1. table' = Reaped /\ InUse(table)' = InUse(Reaped)
    BY <1>1 DEF Reap, InUse
  <2>2. lost' = lost \cap InUse(Reaped)
    BY <1>1 DEF Reap, Lost
  <2> QED  BY <2>1, <2>2, Parts, ReapedTable DEF OwnersKept
<1>2. CASE UNCHANGED gate
  BY <1>2 DEF gate, OwnersKept, InUse
<1>3. ASSUME NEW L, ReleaseSlots(L) PROVE OwnersKept
  BY <1>3 DEF ReleaseSlots, OwnersKept, InUse
<1>4. ASSUME NEW l \in Lease, HeartbeatExpires(l) \/ GraceEnds(l) PROVE OwnersKept
  <2>1. table \in [Lease -> Slot \cup {Free}] /\ table[l] \in Slot
    BY <1>4, Parts DEF GateType, HeartbeatExpires, GraceEnds
  <2>2. /\ table'[l] # Free /\ table'[l].owner = table[l].owner
        /\ \A m \in Lease : m # l => table'[m] = table[m]
        /\ lost' = lost
    BY <1>4, <2>1, Consts DEF HeartbeatExpires, GraceEnds, Slot
  <2>3. table[l] # Free
    BY <2>1, Consts
  <2> QED  BY <2>2, <2>3 DEF OwnersKept, InUse
<1> QED  BY <1>1, <1>2, <1>3, <1>4

LEMMA PlacedStep ==
  ASSUME NEW p \in Proc, HeldPlaced(p), held'[p] \subseteq held[p],
         \A l \in held'[p] : l \in Dispatched(p) =>
            l \in Dispatched(p)' \/ \E w \in Executing(p)' : worker'[w].lease = l,
         \A l \in held'[p], w \in Executing(p) : worker[w].lease = l =>
            w \in Executing(p)' /\ worker'[w].lease = l
  PROVE  HeldPlaced(p)'
  BY DEF HeldPlaced

\* A process that nothing happens to.
LEMMA PlacedSame ==
  ASSUME NEW q \in Proc, HeldPlaced(q), held'[q] = held[q], dispatch'[q] = dispatch[q],
         \A w \in WorkersOf(q) : worker'[w] = worker[w]
  PROVE  HeldPlaced(q)'
<1>1. Dispatched(q)' = Dispatched(q) /\ Executing(q)' = Executing(q)
  BY DEF Dispatched, Executing, WorkersOf
<1>2. \A w \in Executing(q) : worker'[w] = worker[w]
  BY DEF Executing
<1> QED  BY <1>1, <1>2 DEF HeldPlaced

\* A failing call leaves its mark on the budget.
LEMMA BudgetFalls ==
  ASSUME CallInv
  PROVE  /\ UNCHANGED budget => BudgetKept
         /\ Trouble => BudgetKept /\ budget' < MaxTroubles
<1>1. UNCHANGED budget => BudgetKept
  BY DEF BudgetKept
<1>2. ASSUME Trouble PROVE budget' < MaxTroubles
  BY <1>2, TroubleStep, QueueConsts
<1> QED  BY <1>1, <1>2 DEF BudgetKept

LEMMA AccountedStep ==
  ASSUME NEW q \in Proc, Accounted(q),
         phase'[q] \in Serving => phase[q] \in Serving,
         \A l \in InUse(table)' : phase'[q] \in Serving /\ table'[l].owner = q =>
            \/ l \in InUse(table) /\ table[l].owner = q /\ (Covered(q, l) => Covered(q, l)')
            \/ Covered(q, l)'
  PROVE  Accounted(q)'
  BY DEF Accounted

\* A slot stays covered if it stays in hands or comes to be parked.
LEMMA CoveredStep ==
  ASSUME NEW q \in Proc, Accounted(q), OwnersKept, BudgetKept,
         phase'[q] \in Serving => phase[q] \in Serving,
         \A l \in InUse(table)' : phase'[q] \in Serving =>
            /\ l \in pendingRelease[q] => l \in pendingRelease'[q]
            /\ InHands(q, l) => Covered(q, l)'
  PROVE  Accounted(q)'
<1>1. \A l \in InUse(table)' : phase'[q] \in Serving /\ Covered(q, l) => Covered(q, l)'
  BY DEF Covered, OwnersKept, BudgetKept
<1> QED  BY <1>1, AccountedStep DEF OwnersKept

\* The pump and the workers keep their leases, or have given them back.
LEMMA AccountedSame ==
  ASSUME NEW q \in Proc, Accounted(q), OwnersKept, BudgetKept,
         phase'[q] \in Serving => phase[q] \in Serving,
         \A l \in InUse(table)' : l \in pendingRelease[q] => l \in pendingRelease'[q],
         \/ pump'[q].lease = pump[q].lease
         \/ pump[q].lease \notin InUse(table)'
         \/ pump[q].lease \in pendingRelease'[q] /\ budget' < MaxTroubles
         \/ phase'[q] \notin Serving,
         dispatch'[q] = dispatch[q],
         \A w \in WorkersOf(q) :
            \/ worker'[w].lease = worker[w].lease
            \/ worker[w].lease \notin InUse(table)'
            \/ worker[w].lease \in pendingRelease'[q] /\ budget' < MaxTroubles
  PROVE  Accounted(q)'
<1>1. Dispatched(q)' = Dispatched(q) /\ WorkersOf(q)' = WorkersOf(q)
  BY DEF Dispatched, WorkersOf
<1>2. ASSUME NEW l \in InUse(table)', phase'[q] \in Serving, InHands(q, l) PROVE Covered(q, l)'
  BY <1>1, <1>2 DEF InHands, Covered
<1> QED  BY <1>2, CoveredStep

\* Steps that move no lease from hand to hand.
LEMMA HandsSame ==
  ASSUME SlotInv, CallInv, AccountInv, OwnersKept, UNCHANGED budget \/ Trouble,
         UNCHANGED <<dispatch, worker, held>>,
         \A q \in Proc :
            /\ phase'[q] \in Serving => phase[q] \in Serving
            /\ \A l \in InUse(table)' : l \in pendingRelease[q] => l \in pendingRelease'[q]
            /\ \/ pump'[q].lease = pump[q].lease
               \/ pump[q].lease \notin InUse(table)'
               \/ pump[q].lease \in pendingRelease'[q] /\ budget' < MaxTroubles
               \/ phase'[q] \notin Serving
  PROVE  AccountInv'
<1>1. \A q \in Proc : HeldPlaced(q)'
  BY PlacedSame DEF AccountInv
<1>2. \A q \in Proc : Accounted(q)'
  BY BudgetFalls, AccountedSame DEF AccountInv
<1> QED  BY <1>1, <1>2 DEF AccountInv

\* _release_lease_safely: the slot is free, or its lease is parked.
LEMMA ParkedOrFree ==
  ASSUME SlotInv, CallInv, NEW p \in Proc, NEW l \in Lease, ReleaseSafely(p, l)
  PROVE  /\ OwnersKept /\ (UNCHANGED budget \/ Trouble)
         /\ l \notin InUse(table)' \/ (l \in pendingRelease'[p] /\ budget' < MaxTroubles)
         /\ \A q \in Proc : pendingRelease[q] \subseteq pendingRelease'[q]
<1>1. CASE ReleaseSlots({l}) /\ UNCHANGED <<pendingRelease, budget>>
  <2>1. l \notin InUse(table)'
    BY <1>1 DEF ReleaseSlots, InUse
  <2> QED  BY <1>1, <2>1, GateOwners
<1>2. CASE /\ Trouble
           /\ UNCHANGED gate \/ ReleaseSlots({l})
           /\ pendingRelease' = [pendingRelease EXCEPT ![p] = @ \cup {l}]
  <2>1. /\ l \in pendingRelease'[p]
        /\ \A q \in Proc : pendingRelease[q] \subseteq pendingRelease'[q]
    BY <1>2, Parts DEF TypeOK
  <2> QED  BY <1>2, <2>1, GateOwners, BudgetFalls
<1> QED  BY <1>1, <1>2 DEF ReleaseSafely

LEMMA HandsSameSteps ==
  ASSUME SlotInv, CallInv, AccountInv,
         \/ \E c \in Call : CallStep(c) \/ Stuck(c)
         \/ \E p \in Proc : \/ Ask(p) \/ Refused(p) \/ PumpReleases(p)
                            \/ RetryRelease(p) \/ Reconcile(p) \/ Compact(p)
                            \/ StartShutdown(p) \/ Drain(p) \/ ForceExit(p)
         \/ \E l \in Lease : Time(l)
         \/ UNCHANGED vars
  PROVE  AccountInv'
<1>1. phase \in [Proc -> {"open", "draining", "stopping", "gathering", "stopped"}]
  BY DEF CallInv, CallTypes
<1>2. pump \in [Proc -> [at : {"idle", "asking", "granted", "releasing", "gone"},
                         call : {NoCall}, lease : Lease \cup {NoLease}]]
  BY Parts DEF TypeOK
<1>3. NoLease \notin InUse(table)'
  BY Consts DEF InUse
<1>4. CASE \/ \E c \in Call : CallStep(c) \/ Stuck(c)
           \/ \E p \in Proc : Compact(p)
           \/ UNCHANGED vars
  <2>1. UNCHANGED <<gate, phase, pump, dispatch, worker, held, pendingRelease, budget>>
    BY <1>4 DEF CallStep, Submit, GiveUpAdmission, Return, UserTimeout, CleanupEnds, Leave, Stuck,
       Compact, loops, leases, vars
  <2> QED  BY <2>1, GateOwners, HandsSame
<1>5. ASSUME NEW p \in Proc, Ask(p) PROVE AccountInv'
  <2>1. /\ UNCHANGED <<gate, phase, dispatch, worker, held, pendingRelease, budget>>
        /\ pump' = [pump EXCEPT ![p].at = "asking"]
    BY <1>5 DEF Ask, leases
  <2>2. \A q \in Proc : pump'[q].lease = pump[q].lease
    BY <1>2, <2>1
  <2> QED  BY <2>1, <2>2, GateOwners, HandsSame
<1>6. ASSUME NEW p \in Proc, Refused(p) PROVE AccountInv'
  <2>1. /\ UNCHANGED <<phase, dispatch, worker, held, pendingRelease, budget>>
        /\ Reap /\ pump[p].at = "asking" /\ pump' = [pump EXCEPT ![p] = Idle]
    BY <1>6 DEF Refused, leases
  <2>2. pump[p].lease = NoLease
    BY <2>1 DEF SlotInv, PumpOK
  <2>3. \A q \in Proc : pump'[q].lease = pump[q].lease \/ pump[q].lease \notin InUse(table)'
    BY <1>2, <1>3, <2>1, <2>2
  <2> QED  BY <2>1, <2>3, GateOwners, HandsSame
<1>7. ASSUME NEW p \in Proc, PumpReleases(p) PROVE AccountInv'
  <2>1. /\ UNCHANGED <<phase, dispatch, worker, held>>
        /\ pump[p].at = "releasing" /\ pump' = [pump EXCEPT ![p] = Idle]
        /\ ReleaseSafely(p, pump[p].lease)
    BY <1>7 DEF PumpReleases
  <2>2. pump[p].lease \in Lease
    BY <1>2, <2>1 DEF SlotInv, PumpOK
  <2>3. \A q \in Proc : q # p => pump'[q].lease = pump[q].lease
    BY <1>2, <2>1
  <2>4. /\ OwnersKept /\ (UNCHANGED budget \/ Trouble)
        /\ \/ pump[p].lease \notin InUse(table)'
           \/ pump[p].lease \in pendingRelease'[p] /\ budget' < MaxTroubles
        /\ \A q \in Proc : pendingRelease[q] \subseteq pendingRelease'[q]
    BY <2>1, <2>2, ParkedOrFree
  <2> QED  BY <2>1, <2>3, <2>4, HandsSame
<1>8. ASSUME NEW p \in Proc, RetryRelease(p) \/ Reconcile(p) PROVE AccountInv'
  <2>1. UNCHANGED <<phase, pump, dispatch, worker, held, budget>>
    BY <1>8 DEF RetryRelease, Reconcile, loops, leases
  <2>2. OwnersKept
    BY <1>8, GateOwners DEF RetryRelease, Reconcile
  <2>3. \A q \in Proc, l \in InUse(table)' : l \in pendingRelease[q] => l \in pendingRelease'[q]
    <3>1. CASE Reconcile(p)
      BY <3>1 DEF Reconcile, leases
    <3>2. CASE RetryRelease(p)
      <4> PICK m \in pendingRelease[p] :
             ReleaseSlots({m}) /\ pendingRelease' = [pendingRelease EXCEPT ![p] = @ \ {m}]
        BY <3>2 DEF RetryRelease
      <4>1. m \notin InUse(table)'
        BY DEF ReleaseSlots, InUse
      <4> QED  BY <4>1, Parts DEF TypeOK
    <3> QED  BY <1>8, <3>1, <3>2
  <2> QED  BY <2>1, <2>2, <2>3, HandsSame
<1>9. ASSUME NEW p \in Proc, StartShutdown(p) PROVE AccountInv'
  <2>1. /\ UNCHANGED <<gate, pump, dispatch, worker, held, pendingRelease, budget>>
        /\ phase[p] = "open" /\ phase' = [phase EXCEPT ![p] = "draining"]
    BY <1>9 DEF StartShutdown, loops, leases
  <2>2. \A q \in Proc : phase'[q] \in Serving => phase[q] \in Serving
    BY <1>1, <2>1 DEF Serving
  <2> QED  BY <2>1, <2>2, GateOwners, HandsSame
<1>10. ASSUME NEW p \in Proc, Drain(p) \/ ForceExit(p) PROVE AccountInv'
  <2>1. /\ UNCHANGED <<gate, dispatch, worker, held, budget>>
        /\ phase' = [phase EXCEPT ![p] = "stopping"] /\ pump' = [pump EXCEPT ![p] = Gone]
        /\ pendingRelease' = [pendingRelease EXCEPT ![p] =
                                IF pump[p].at = "releasing" THEN @ \cup {pump[p].lease} ELSE @]
    <3>1. StopPump(p) /\ UNCHANGED <<gate, dispatch, worker, held, budget>>
      BY <1>10 DEF Drain, ForceExit
    <3> QED  BY <3>1 DEF StopPump
  <2>2. \A q \in Proc : phase'[q] \in Serving => phase[q] \in Serving /\ q # p
    BY <1>1, <2>1 DEF Serving
  <2>3. \A q \in Proc : q # p => pump'[q] = pump[q]
    BY <1>2, <2>1
  <2>4. \A q \in Proc : pendingRelease[q] \subseteq pendingRelease'[q]
    BY <2>1, Parts DEF TypeOK
  <2> QED  BY <2>1, <2>2, <2>3, <2>4, GateOwners, HandsSame
<1>11. ASSUME NEW l \in Lease, Time(l) PROVE AccountInv'
  <2>1. /\ UNCHANGED <<phase, pump, dispatch, worker, held, pendingRelease>>
        /\ UNCHANGED budget \/ Trouble
    BY <1>11 DEF Time, loops, leases
  <2>2. OwnersKept
    BY <1>11, GateOwners DEF Time
  <2> QED  BY <2>1, <2>2, HandsSame
<1> QED  BY <1>4, <1>5, <1>6, <1>7, <1>8, <1>9, <1>10, <1>11

\* The gate grants a lease, which is then in the pump's hands, or lost.
LEMMA GrantedHands ==
  ASSUME SlotInv, CallInv, AccountInv, NEW p \in Proc, NEW l \in Lease, NEW told \in BOOLEAN,
         Grant(p, l, told), pump[p].at = "asking",
         pump'[p].lease = IF told THEN l ELSE NoLease,
         \A q \in Proc : q # p => pump'[q] = pump[q],
         UNCHANGED <<phase, dispatch, worker, held, pendingRelease>>, UNCHANGED budget \/ Trouble
  PROVE  AccountInv'
<1>1. /\ table' = [Reaped EXCEPT ![l] = NewSlot(p)]
      /\ lost' = IF told THEN Lost ELSE Lost \cup {l}
  BY DEF Grant
<1>2. pump[p].lease = NoLease
  BY DEF SlotInv, PumpOK
<1>3. /\ table'[l].owner = p
      /\ \A m \in InUse(table)' : m # l => /\ m \in InUse(table) /\ table'[m].owner = table[m].owner
                                           /\ m \in lost => m \in lost'
  <2>1. /\ Reaped \in [Lease -> Slot \cup {Free}] /\ InUse(Reaped) \subseteq InUse(table)
        /\ \A m \in InUse(Reaped) : Reaped[m].owner = table[m].owner
    BY Parts, ReapedTable
  <2>2. \A m \in InUse(table)' : m # l => m \in InUse(Reaped) /\ table'[m] = Reaped[m]
    BY <1>1, <2>1 DEF InUse
  <2>3. table'[l].owner = p
    BY <1>1, <2>1 DEF NewSlot
  <2> QED  BY <1>1, <2>1, <2>2, <2>3 DEF Lost
<1>4. NoLease \notin InUse(table)'
  BY Consts DEF InUse
<1>5. ASSUME NEW q \in Proc PROVE HeldPlaced(q)' /\ Accounted(q)'
  <2>1. HeldPlaced(q)'
    BY PlacedSame DEF AccountInv
  <2>2. Dispatched(q)' = Dispatched(q) /\ WorkersOf(q)' = WorkersOf(q)
    BY DEF Dispatched, WorkersOf
  <2>3. ASSUME NEW m \in InUse(table)', m # l, Covered(q, m) PROVE Covered(q, m)'
    <3>1. InHands(q, m) => InHands(q, m)'
      BY <1>2, <1>4, <2>2, <2>3 DEF InHands
    <3> QED  BY <1>3, <2>3, <3>1, BudgetFalls DEF Covered, BudgetKept
  <2>4. Covered(p, l)'
    BY <1>1 DEF Covered, InHands
  <2>5. ASSUME NEW m \in InUse(table)', table'[m].owner = q
        PROVE  \/ m \in InUse(table) /\ table[m].owner = q /\ (Covered(q, m) => Covered(q, m)')
               \/ Covered(q, m)'
    BY <1>3, <2>3, <2>4, <2>5
  <2> QED  BY <2>1, <2>5, AccountedStep DEF AccountInv
<1> QED  BY <1>5 DEF AccountInv

LEMMA AskedHands ==
  ASSUME SlotInv, CallInv, AccountInv, NEW p \in Proc, Granted(p) \/ AskFails(p)
  PROVE  AccountInv'
<1>1. /\ pump[p].at = "asking"
      /\ UNCHANGED <<phase, dispatch, worker, held, pendingRelease>> /\ (UNCHANGED budget \/ Trouble)
  BY DEF Granted, AskFails, leases
<1>2. pump[p].lease = NoLease
  BY <1>1 DEF SlotInv, PumpOK
<1>3. CASE Granted(p)
  <2> PICK l \in Lease :
         /\ Grant(p, l, TRUE)
         /\ pump' = [pump EXCEPT ![p] = [at |-> "granted", call |-> NoCall, lease |-> l]]
    BY <1>3 DEF Granted
  <2>1. pump'[p].lease = l /\ \A q \in Proc : q # p => pump'[q] = pump[q]
    BY Parts DEF TypeOK
  <2> QED  BY <1>1, <2>1, GrantedHands
<1>4. CASE AskFails(p)
  <2>1. /\ pump'[p].lease = NoLease /\ \A q \in Proc : q # p => pump'[q] = pump[q]
        /\ \A q \in Proc : pump'[q].lease = pump[q].lease
    BY <1>2, <1>4, Parts DEF TypeOK, AskFails, Idle
  <2>2. CASE UNCHANGED gate
    BY <1>1, <2>1, <2>2, GateOwners, HandsSame
  <2>3. CASE \E l \in Lease \ Known : Grant(p, l, FALSE)
    <3> PICK l \in Lease : Grant(p, l, FALSE)
      BY <2>3
    <3> QED  BY <1>1, <2>1, GrantedHands
  <2> QED  BY <1>4, <2>2, <2>3 DEF AskFails
<1> QED  BY <1>3, <1>4

\* The renewal: every lease held is with the process that renews it.
LEMMA RenewHands ==
  ASSUME SlotInv, CallInv, AccountInv, NEW p \in Proc, Renew(p)
  PROVE  AccountInv'
<1>1. UNCHANGED <<phase, pump, dispatch, worker, held, pendingRelease, lost, budget>>
  BY DEF Renew, RenewSlots, loops, leases
<1>2. table' = [m \in Lease |-> IF m \in held[p] /\ table[m] # Free THEN NewSlot(p) ELSE table[m]]
  BY DEF Renew, RenewSlots
<1>3. \A m \in InUse(table)' : /\ m \in InUse(table)
                               /\ table'[m].owner = table[m].owner \/ (m \in held[p] /\ table'[m].owner = p)
  BY <1>2 DEF InUse, NewSlot
<1>4. ASSUME NEW q \in Proc PROVE HeldPlaced(q)' /\ Accounted(q)'
  <2>1. HeldPlaced(q)'
    BY <1>1, PlacedSame DEF AccountInv
  <2>2. Dispatched(q)' = Dispatched(q) /\ Executing(q)' = Executing(q)
    BY <1>1 DEF Dispatched, Executing
  <2>3. \A m : InHands(q, m)' <=> InHands(q, m)
    BY <1>1, <2>2 DEF InHands, WorkersOf
  <2>4. \A m \in held[p] : InHands(p, m)
    BY DEF AccountInv, HeldPlaced, InHands, Executing
  <2>5. \A m : Covered(q, m) => Covered(q, m)'
    BY <1>1, <2>3 DEF Covered
  <2>6. \A m \in InUse(table)' : table'[m].owner = q =>
          (m \in InUse(table) /\ table[m].owner = q) \/ Covered(q, m)'
    BY <1>3, <2>3, <2>4 DEF Covered
  <2> QED  BY <1>1, <2>1, <2>5, <2>6, AccountedStep DEF AccountInv
<1> QED  BY <1>4 DEF AccountInv

\* A lease goes from the pump to the dispatch queue, or stays with the pump.
LEMMA ClaimHands ==
  ASSUME SlotInv, CallInv, AccountInv, NEW p \in Proc, Claim(p)
  PROVE  AccountInv'
<1> DEFINE l == pump[p].lease
<1>1. UNCHANGED <<gate, phase, worker, pendingRelease, budget>>
  BY DEF Claim
<1>2. OwnersKept /\ BudgetKept
  BY <1>1, GateOwners, BudgetFalls
<1>3. CASE /\ pump' = [pump EXCEPT ![p].at = "releasing"]
           /\ UNCHANGED <<dispatch, held>>
  <2>1. \A q \in Proc : pump'[q].lease = pump[q].lease
    BY <1>3, Parts DEF TypeOK
  <2>2. \A q \in Proc : HeldPlaced(q)'
    BY <1>1, <1>3, PlacedSame DEF AccountInv
  <2>3. \A q \in Proc : Accounted(q)'
    BY <1>1, <1>2, <1>3, <2>1, AccountedSame DEF AccountInv
  <2> QED  BY <2>2, <2>3 DEF AccountInv
<1>4. ASSUME NEW c,
             dispatch' = [dispatch EXCEPT ![p] = Append(@, [call |-> c, lease |-> l])],
             held' = [held EXCEPT ![p] = @ \cup {l}],
             pump' = [pump EXCEPT ![p] = Idle]
      PROVE  AccountInv'
  <2> DEFINE e == [call |-> c, lease |-> l]
             s == dispatch[p]
  <2>1. /\ DOMAIN s = 1 .. Len(s) /\ Len(s) \in Nat
        /\ DOMAIN Append(s, e) = 1 .. Len(s) + 1
        /\ Append(s, e)[Len(s) + 1] = e
        /\ \A j \in 1 .. Len(s) : Append(s, e)[j] = s[j]
    BY Parts, AppendSequence DEF TypeOK
  <2>2. dispatch'[p] = Append(s, e) /\ \A q \in Proc : q # p => dispatch'[q] = dispatch[q]
    BY <1>4, Parts DEF TypeOK
  <2>3. Dispatched(p) \cup {l} \subseteq Dispatched(p)'
    <3>1. Len(s) + 1 \in 1 .. Len(s) + 1 /\ \A j \in 1 .. Len(s) : j \in 1 .. Len(s) + 1
      BY <2>1
    <3>2. l \in Dispatched(p)'
      BY <2>1, <2>2, <3>1 DEF Dispatched
    <3>3. \A j \in DOMAIN s : s[j].lease \in Dispatched(p)'
      BY <2>1, <2>2, <3>1 DEF Dispatched
    <3> QED  BY <3>2, <3>3 DEF Dispatched
  <2>4. /\ held'[p] = held[p] \cup {l} /\ \A q \in Proc : q # p => held'[q] = held[q]
        /\ \A q \in Proc : q # p => pump'[q] = pump[q]
    BY <1>4, Parts DEF TypeOK
  <2>5. ASSUME NEW q \in Proc, q # p PROVE HeldPlaced(q)' /\ Accounted(q)'
    BY <1>1, <1>2, <2>2, <2>4, <2>5, PlacedSame, AccountedSame DEF AccountInv
  <2>6. HeldPlaced(p)'
    <3>1. Executing(p)' = Executing(p)
      BY <1>1 DEF Executing
    <3> QED  BY <1>1, <2>3, <2>4, <3>1 DEF HeldPlaced, AccountInv
  <2>7. Accounted(p)'
    <3>1. \A m : InHands(p, m) => InHands(p, m)'
      BY <1>1, <2>3 DEF InHands, WorkersOf
    <3> QED  BY <1>1, <1>2, <3>1, CoveredStep DEF AccountInv, Covered
  <2> QED  BY <2>5, <2>6, <2>7 DEF AccountInv
<1>5. \/ /\ pump' = [pump EXCEPT ![p].at = "releasing"]
         /\ UNCHANGED <<dispatch, held>>
      \/ \E c : /\ dispatch' = [dispatch EXCEPT ![p] = Append(@, [call |-> c, lease |-> l])]
                /\ held' = [held EXCEPT ![p] = @ \cup {l}]
                /\ pump' = [pump EXCEPT ![p] = Idle]
  BY DEF Claim
<1> QED  BY <1>3, <1>4, <1>5

\* A step of p alone that leaves its hands as they are, or after which it serves nobody.
LEMMA HandsOfOthers ==
  ASSUME SlotInv, CallInv, AccountInv, NEW p \in Proc, OwnersKept, UNCHANGED budget \/ Trouble,
         \A q \in Proc : q # p =>
            /\ pump'[q] = pump[q] /\ held'[q] = held[q] /\ dispatch'[q] = dispatch[q]
            /\ phase'[q] = phase[q] /\ pendingRelease'[q] = pendingRelease[q],
         \A w \in Worker : w[1] # p => worker'[w] = worker[w],
         HeldPlaced(p)',
         Accounted(p)'
  PROVE  AccountInv'
<1>1. ASSUME NEW q \in Proc, q # p PROVE HeldPlaced(q)' /\ Accounted(q)'
  <2>1. \A w \in WorkersOf(q) : worker'[w] = worker[w]
    BY <1>1 DEF WorkersOf
  <2> QED  BY <1>1, <2>1, BudgetFalls, PlacedSame, AccountedSame DEF AccountInv
<1> QED  BY <1>1 DEF AccountInv

\* A lease goes from the dispatch queue to the worker, which runs the call with it or
\* is about to release it.
LEMMA PickUpHands ==
  ASSUME SlotInv, CallInv, AccountInv, NEW w \in Worker, PickUp(w)
  PROVE  AccountInv'
<1> DEFINE p == w[1]
           l == Head(dispatch[p]).lease
<1>1. /\ p \in Proc /\ worker[w].at = "idle" /\ dispatch[p] # <<>>
      /\ dispatch' = [dispatch EXCEPT ![p] = Tail(@)]
      /\ UNCHANGED <<gate, phase, pump, pendingRelease, budget>>
  BY Consts DEF PickUp
<1>2. PICK a \in {"running", "releasing"}, c \in {NoCall, Head(dispatch[p]).call} :
        /\ worker' = [worker EXCEPT ![w] = [at |-> a, call |-> c, lease |-> l]]
        /\ held' = IF a = "running" THEN held ELSE [held EXCEPT ![p] = @ \ {l}]
  BY DEF PickUp, Finally
<1>3. /\ 1 \in DOMAIN dispatch[p] /\ Head(dispatch[p]) = dispatch[p][1]
      /\ \A j \in DOMAIN dispatch[p] : j = 1 \/ \E i \in DOMAIN dispatch'[p] :
                                                   dispatch'[p][i] = dispatch[p][j]
      /\ \A q \in Proc : q # p => dispatch'[q] = dispatch[q]
  BY <1>1, DispatchHead
<1>4. /\ worker'[w].at = a /\ worker'[w].lease = l /\ worker[w].lease = NoLease
      /\ \A v \in Worker : v # w => worker'[v] = worker[v]
  BY <1>1, <1>2, Parts DEF TypeOK, SlotInv, WorkerOK
<1>5. /\ \A q \in Proc : q # p => held'[q] = held[q]
      /\ held'[p] \subseteq held[p] /\ (l \in held'[p] => a = "running")
  BY <1>1, <1>2, Parts DEF TypeOK
<1>6. OwnersKept /\ BudgetKept
  BY <1>1, GateOwners, BudgetFalls
<1>7. \A m \in Dispatched(p) : m = l \/ m \in Dispatched(p)'
  BY <1>3 DEF Dispatched
<1>8. w \in WorkersOf(p) /\ w \notin Executing(p)
  BY <1>1 DEF WorkersOf, Executing
<1> HIDE DEF l
<1>9. HeldPlaced(p)'
  <2>1. ASSUME NEW m \in held'[p], m \in Dispatched(p)
        PROVE  m \in Dispatched(p)' \/ \E v \in Executing(p)' : worker'[v].lease = m
    <3>1. CASE m = l
      <4>1. w \in Executing(p)'
        BY <1>4, <1>5, <1>8, <3>1 DEF Executing, WorkersOf
      <4> QED  BY <1>4, <3>1, <4>1
    <3> QED  BY <1>7, <2>1, <3>1
  <2>2. ASSUME NEW v \in Executing(p) PROVE v \in Executing(p)' /\ worker'[v] = worker[v]
    BY <1>4, <1>8 DEF Executing, WorkersOf
  <2> QED  BY <1>1, <1>5, <2>1, <2>2, PlacedStep DEF AccountInv
<1>10. Accounted(p)'
  <2>1. ASSUME NEW m \in Lease, InHands(p, m) PROVE InHands(p, m)'
    <3>1. CASE m \in Dispatched(p)
      BY <1>4, <1>7, <1>8, <3>1 DEF InHands, WorkersOf
    <3>2. ASSUME NEW v \in WorkersOf(p), worker[v].lease = m PROVE InHands(p, m)'
      <4>1. v # w
        BY <1>4, <3>2, Consts
      <4> QED  BY <1>4, <3>2, <4>1 DEF InHands, WorkersOf
    <3>3. CASE pump[p].lease = m
      BY <1>1, <3>3 DEF InHands
    <3> QED  BY <2>1, <3>1, <3>2, <3>3 DEF InHands
  <2>2. \A m \in InUse(table)' : m \in Lease
    BY DEF InUse
  <2> QED  BY <1>1, <1>6, <2>1, <2>2, CoveredStep DEF AccountInv, Covered
<1>11. \A v \in Worker : v[1] # p => worker'[v] = worker[v]
  BY <1>4
<1> QED  BY <1>1, <1>3, <1>5, <1>6, <1>9, <1>10, <1>11, HandsOfOthers

\* A worker is through with its call: its lease is no longer held, but still its own.
LEMMA FinishHands ==
  ASSUME SlotInv, CallInv, AccountInv, NEW w \in Worker, Finish(w)
  PROVE  AccountInv'
<1> DEFINE p == w[1]
           l == worker[w].lease
<1>1. /\ p \in Proc /\ worker[w].at = "running"
      /\ worker' = [worker EXCEPT ![w] = [at |-> "releasing", call |-> NoCall, lease |-> l]]
      /\ held' = [held EXCEPT ![p] = @ \ {l}]
      /\ UNCHANGED <<gate, phase, pump, dispatch, pendingRelease, budget>>
  BY Consts DEF Finish, Finally
<1>2. /\ worker'[w].lease = l /\ \A v \in Worker : v # w => worker'[v] = worker[v]
      /\ \A q \in Proc : q # p => held'[q] = held[q]
      /\ held'[p] \subseteq held[p] /\ l \notin held'[p]
  BY <1>1, Parts DEF TypeOK
<1>3. OwnersKept /\ BudgetKept
  BY <1>1, GateOwners, BudgetFalls
<1>4. HeldPlaced(p)'
  <2>1. Dispatched(p)' = Dispatched(p)
    BY <1>1 DEF Dispatched
  <2>2. ASSUME NEW m \in held'[p], NEW v \in Executing(p), worker[v].lease = m
        PROVE  v \in Executing(p)' /\ worker'[v].lease = m
    <3>1. v # w
      BY <1>2, <2>2
    <3> QED  BY <1>2, <2>2, <3>1 DEF Executing, WorkersOf
  <2> QED  BY <1>1, <1>2, <2>1, <2>2, PlacedStep DEF AccountInv
<1>5. Accounted(p)'
  <2>1. \A v \in WorkersOf(p) : worker'[v].lease = worker[v].lease
    BY <1>2 DEF WorkersOf
  <2> QED  BY <1>1, <1>3, <2>1, AccountedSame DEF AccountInv
<1> QED  BY <1>1, <1>2, <1>3, <1>4, <1>5, HandsOfOthers

LEMMA WorkerReleasesHands ==
  ASSUME SlotInv, CallInv, AccountInv, NEW w \in Worker, WorkerReleases(w)
  PROVE  AccountInv'
<1> DEFINE p == w[1]
           l == worker[w].lease
<1>1. /\ p \in Proc /\ worker[w].at = "releasing"
      /\ ReleaseSafely(p, l)
      /\ UNCHANGED <<phase, pump, dispatch, held>>
      /\ \E i \in {Idle, Gone} : worker' = [worker EXCEPT ![w] = i]
  BY Consts DEF WorkerReleases
<1>2. /\ worker'[w].at # "running" /\ \A v \in Worker : v # w => worker'[v] = worker[v]
  BY <1>1, Parts DEF TypeOK, Idle, Gone
<1>3. HeldPlaced(p)'
  <2>1. Dispatched(p)' = Dispatched(p)
    BY <1>1 DEF Dispatched
  <2>2. ASSUME NEW v \in Executing(p) PROVE v \in Executing(p)' /\ worker'[v] = worker[v]
    BY <1>1, <1>2 DEF Executing, WorkersOf
  <2> QED  BY <1>1, <2>1, <2>2, PlacedStep DEF AccountInv
<1>4. l \in Lease
  BY <1>1 DEF SlotInv, WorkerOK
<1>5. /\ OwnersKept /\ (UNCHANGED budget \/ Trouble)
      /\ l \notin InUse(table)' \/ (l \in pendingRelease'[p] /\ budget' < MaxTroubles)
      /\ \A q \in Proc : pendingRelease[q] \subseteq pendingRelease'[q]
  BY <1>1, <1>4, ParkedOrFree
<1>6. \A q \in Proc : q # p => pendingRelease'[q] = pendingRelease[q]
  BY <1>1, Parts DEF ReleaseSafely, TypeOK
<1>7. Accounted(p)'
  <2>1. \A v \in WorkersOf(p) :
          \/ worker'[v].lease = worker[v].lease
          \/ worker[v].lease \notin InUse(table)'
          \/ worker[v].lease \in pendingRelease'[p] /\ budget' < MaxTroubles
    BY <1>2, <1>5 DEF WorkersOf
  <2> QED  BY <1>1, <1>5, <2>1, BudgetFalls, AccountedSame DEF AccountInv
<1> QED  BY <1>1, <1>2, <1>3, <1>5, <1>6, <1>7, HandsOfOthers

\* A process that does not serve any more accounts for nothing.
LEMMA NotServing ==
  ASSUME NEW p \in Proc, phase'[p] \notin Serving
  PROVE  Accounted(p)'
  BY DEF Accounted

LEMMA StopHands ==
  ASSUME SlotInv, CallInv, AccountInv, NEW p \in Proc,
         CancelWorkers(p) \/ DrainDispatch(p) \/ Close(p) \/ Kill(p)
  PROVE  AccountInv'
<1>1. phase \in [Proc -> {"open", "draining", "stopping", "gathering", "stopped"}]
  BY DEF CallInv, CallTypes
<1>2. CASE CancelWorkers(p)
  <2> DEFINE R == {worker[w].lease : w \in Executing(p)}
  <2>1. /\ UNCHANGED <<gate, dispatch, pump, budget>>
        /\ phase' = [phase EXCEPT ![p] = "gathering"]
        /\ held' = [held EXCEPT ![p] = @ \ R]
        /\ \E L : pendingRelease' = [pendingRelease EXCEPT ![p] = @ \cup L]
        /\ \A w \in Worker : w[1] # p => worker'[w] = worker[w]
    BY <1>2 DEF CancelWorkers, Executing, WorkersOf
  <2>2. /\ \A q \in Proc : q # p => held'[q] = held[q] /\ pendingRelease'[q] = pendingRelease[q]
        /\ held'[p] = held[p] \ R
    BY <2>1, Parts DEF TypeOK
  <2>3. HeldPlaced(p)'
    <3>1. Dispatched(p)' = Dispatched(p)
      BY <2>1 DEF Dispatched
    <3>2. \A m \in held'[p] : m \in held[p] /\ \A w \in Executing(p) : worker[w].lease # m
      BY <2>2
    <3> QED  BY <3>1, <3>2, PlacedStep DEF AccountInv
  <2>4. /\ phase'[p] \notin Serving
        /\ \A q \in Proc : q # p => phase'[q] = phase[q]
    BY <1>1, <2>1 DEF Serving
  <2> QED  BY <2>1, <2>2, <2>3, <2>4, GateOwners, NotServing, HandsOfOthers
<1>3. CASE DrainDispatch(p)
  <2> DEFINE l == Head(dispatch[p]).lease
  <2>1. /\ phase[p] = "gathering" /\ dispatch[p] # <<>>
        /\ dispatch' = [dispatch EXCEPT ![p] = Tail(@)]
        /\ held' = [held EXCEPT ![p] = @ \ {l}]
        /\ ReleaseSafely(p, l)
        /\ UNCHANGED <<phase, pump, worker>>
    BY <1>3 DEF DrainDispatch
  <2>2. /\ \A q \in Proc : q # p => held'[q] = held[q]
        /\ held'[p] \subseteq held[p] /\ l \notin held'[p]
    BY <2>1, Parts DEF TypeOK
  <2>3. /\ Head(dispatch[p]) = dispatch[p][1]
        /\ \A j \in DOMAIN dispatch[p] : j = 1 \/ \E i \in DOMAIN dispatch'[p] :
                                                     dispatch'[p][i] = dispatch[p][j]
        /\ \A q \in Proc : q # p => dispatch'[q] = dispatch[q]
    BY <2>1, DispatchHead
  <2>4. HeldPlaced(p)'
    <3>1. \A m \in Dispatched(p) : m = l \/ m \in Dispatched(p)'
      BY <2>3 DEF Dispatched
    <3>2. Executing(p)' = Executing(p)
      BY <2>1 DEF Executing
    <3> QED  BY <2>1, <2>2, <3>1, <3>2, PlacedStep DEF AccountInv
  <2>5. OwnersKept /\ (UNCHANGED budget \/ Trouble)
    BY <2>1, GateOwners DEF ReleaseSafely
  <2>6. /\ phase'[p] \notin Serving
        /\ \A q \in Proc : q # p => pendingRelease'[q] = pendingRelease[q]
    BY <2>1, Parts DEF Serving, ReleaseSafely, TypeOK
  <2> QED  BY <2>1, <2>2, <2>3, <2>4, <2>5, <2>6, NotServing, HandsOfOthers
<1>4. CASE Close(p)
  <2>1. /\ phase' = [phase EXCEPT ![p] = "stopped"] /\ held' = [held EXCEPT ![p] = {}]
        /\ pendingRelease' = [pendingRelease EXCEPT ![p] = {}]
        /\ \E L : ReleaseSlots(L)
        /\ UNCHANGED budget \/ Trouble
        /\ UNCHANGED <<pump, dispatch, worker>>
    BY <1>4 DEF Close, loops
  <2>2. /\ held'[p] = {} /\ phase'[p] \notin Serving
        /\ \A q \in Proc : q # p => /\ held'[q] = held[q] /\ phase'[q] = phase[q]
                                    /\ pendingRelease'[q] = pendingRelease[q]
    BY <1>1, <2>1, Parts DEF TypeOK, Serving
  <2>3. HeldPlaced(p)'
    BY <2>2 DEF HeldPlaced
  <2>4. OwnersKept
    BY <2>1, GateOwners
  <2> QED  BY <2>1, <2>2, <2>3, <2>4, NotServing, HandsOfOthers
<1>5. CASE Kill(p)
  <2>1. /\ UNCHANGED gate /\ Trouble
        /\ phase' = [phase EXCEPT ![p] = "stopped"] /\ held' = [held EXCEPT ![p] = {}]
        /\ dispatch' = [dispatch EXCEPT ![p] = <<>>] /\ pump' = [pump EXCEPT ![p] = Gone]
        /\ pendingRelease' = [pendingRelease EXCEPT ![p] = {}]
        /\ \A w \in Worker : w[1] # p => worker'[w] = worker[w]
    BY <1>5 DEF Kill
  <2>2. /\ held'[p] = {} /\ phase'[p] \notin Serving
        /\ \A q \in Proc : q # p =>
             /\ pump'[q] = pump[q] /\ held'[q] = held[q] /\ dispatch'[q] = dispatch[q]
             /\ phase'[q] = phase[q] /\ pendingRelease'[q] = pendingRelease[q]
    BY <1>1, <2>1, Parts DEF TypeOK, Serving
  <2>3. HeldPlaced(p)'
    BY <2>2 DEF HeldPlaced
  <2> QED  BY <2>1, <2>2, <2>3, GateOwners, NotServing, HandsOfOthers
<1> QED  BY <1>2, <1>3, <1>4, <1>5

LEMMA AccountInit == Init => AccountInv
<1> SUFFICES ASSUME Init, NEW p \in Proc PROVE HeldPlaced(p) /\ Accounted(p)
  BY DEF AccountInv
<1>1. held[p] = {} /\ InUse(table) = {}
  BY DEF Init, InUse
<1> QED  BY <1>1 DEF HeldPlaced, Accounted

LEMMA AccountStep ==
  ASSUME SlotInv, CallInv, AccountInv, [Next]_vars
  PROVE  AccountInv'
<1>1. ASSUME NEW p \in Proc,
             PumpStep(p) \/ HealthStep(p) \/ StartShutdown(p) \/ StopStep(p) \/ Kill(p)
      PROVE  AccountInv'
  <2>1. CASE Granted(p) \/ AskFails(p) \/ Claim(p) \/ Renew(p)
    BY <2>1, AskedHands, ClaimHands, RenewHands
  <2>2. CASE CancelWorkers(p) \/ DrainDispatch(p) \/ Close(p) \/ Kill(p)
    BY <2>2, StopHands
  <2>3. CASE \/ Ask(p) \/ Refused(p) \/ PumpReleases(p)
             \/ RetryRelease(p) \/ Reconcile(p) \/ Compact(p)
             \/ StartShutdown(p) \/ Drain(p) \/ ForceExit(p)
    BY <2>3, HandsSameSteps
  <2> QED  BY <1>1, <2>1, <2>2, <2>3 DEF PumpStep, HealthStep, StopStep
<1>2. ASSUME NEW w \in Worker, WorkerStep(w) PROVE AccountInv'
  BY <1>2, PickUpHands, FinishHands, WorkerReleasesHands DEF WorkerStep
<1>3. CASE \/ \E c \in Call : CallStep(c) \/ Stuck(c)
           \/ \E l \in Lease : Time(l)
           \/ UNCHANGED vars
  BY <1>3, HandsSameSteps
<1> QED  BY <1>1, <1>2, <1>3 DEF Next

\* Each slot in the table that a serving process owns is in the hands of its pump, its
\* dispatch queue or one of its workers, parked after a failed release, or the slot of an
\* acquire that raised after it took effect: no path leaks another one.
THEOREM SlotsInHands == Spec => []SlotsAccounted
<1>1. Init => SlotInv /\ CallInv /\ AccountInv
  BY SlotInit, CallInit, AccountInit
<1>2. SlotInv /\ CallInv /\ AccountInv /\ [Next]_vars => (SlotInv /\ CallInv /\ AccountInv)'
  BY SlotStep, CallInvStep, AccountStep
<1>3. SlotInv /\ AccountInv => SlotsAccounted
  <2> SUFFICES ASSUME SlotInv, AccountInv, NEW l \in InUse(table),
                      phase[table[l].owner] \in {"open", "draining"}
               PROVE  \/ pump[table[l].owner].lease = l
                      \/ \E j \in 1 .. Len(dispatch[table[l].owner]) :
                           dispatch[table[l].owner][j].lease = l
                      \/ \E w \in WorkersOf(table[l].owner) : worker[w].lease = l
                      \/ l \in pendingRelease[table[l].owner] /\ budget < MaxTroubles
                      \/ l \in lost
    BY DEF SlotsAccounted
  <2> DEFINE p == table[l].owner
  <2>1. p \in Proc
    BY Parts DEF GateType, InUse, Slot
  <2>2. Covered(p, l)
    BY <2>1 DEF AccountInv, Accounted, Serving
  <2>3. DOMAIN dispatch[p] = 1 .. Len(dispatch[p])
    BY <2>1, Parts, AppendSequence DEF TypeOK
  <2> QED  BY <2>2, <2>3 DEF Covered, InHands, Dispatched
<1> QED  BY <1>1, <1>2, <1>3, PTL DEF Spec
=============================================================================

------------------------- MODULE KeyedContextProofs -------------------------
(***************************************************************************)
(* The keyed locks excluded, counted and given back, for any number of     *)
(* processes, coroutines and names, at most two names in a context.  The   *)
(* invariant says of every gate, lease and table entry that it agrees with *)
(* what the contexts' entries say (GateOK, LeaseOK, TableOK); an action    *)
(* moves one context, and what it takes or gives back on both sides is the *)
(* same.                                                                   *)
(***************************************************************************)
EXTENDS KeyedContext, SequenceFilterProofs, FiniteSetTheorems, SequenceTheorems, TLAPS

LEMMA Consts == /\ Nobody \notin Coroutine /\ Lost \notin Coroutine /\ IsFiniteSet(Coroutine)
                /\ Home \in [Coroutine -> Proc] /\ Entity \subseteq Nat /\ MaxTroubles \in Nat
  BY CoroutineAssumption, EntityAssumption, BoundAssumption

-----------------------------------------------------------------------------
(* 1. The invariant.                                                       *)

In(x, s) == \E j \in DOMAIN s : s[j] = x
NoRepeat(s) == \A i, j \in DOMAIN s : s[i] = s[j] => i = j

\* c has the gate of its i-th entry: the entry is entered, or c is about to get the
\* lease behind the gate.
Owning(c, i) == Entries(c)[i].entered \/ (At(c, "lease") /\ i = Len(ctx[c].ul))
Owns(c, g) == \E i \in DOMAIN Entries(c) : Entries(c)[i].lock = g /\ Owning(c, i)
OwnsOnce(c) == \A i, j \in DOMAIN Entries(c) :
    Owning(c, i) /\ Owning(c, j) /\ Entries(c)[i].lock = Entries(c)[j].lock => i = j
Waits(c, g) == At(c, "gate") /\ LastEntry(c).lock = g

\* A gate's holder and waiters are the contexts that think so.
GateOK(g) ==
    /\ NoRepeat(gate[g].waiters)
    /\ \A c \in Coroutine : /\ gate[g].holder = c <=> Owns(c, g)
                            /\ In(c, gate[g].waiters) <=> Waits(c, g)

\* So is the holder of a lease.
LeaseOK(k) == \A c \in Coroutine : lease[k] = c <=> multi /\ Holding(c, k)

TableOK(p, k) ==
    /\ table[p][k].count = Cardinality(RefsTo(p, k))
    /\ table[p][k].lock = NoGate <=> table[p][k].count = 0
    /\ \A r \in RefsTo(p, k) : Entries(r[1])[r[2]].lock = table[p][k].lock

CleaningUp == {"exit", "rollback", "over"}
ContextOK(c) ==
    /\ Len(ctx[c].keys) <= 2 /\ Len(ctx[c].ul) <= Len(ctx[c].keys)
    /\ IF ctx[c].at \in CleaningUp
       THEN ctx[c].ul = <<>> /\ Len(ctx[c].cleanup) <= 2
       ELSE ctx[c].cleanup = <<>>
    /\ At(c, "new") => ctx[c].ul = <<>>
    /\ ctx[c].at \in {"gate", "lease"} => ctx[c].ul # <<>> /\ ~ LastEntry(c).entered
    /\ At(c, "lease") => multi

\* With one process, whichever it is, there is no lease.
HomeOK == multi \/ \A c, d \in Coroutine : home[c] = home[d]

IInv == /\ TypeOK /\ HomeOK
        /\ \A c \in Coroutine : ContextOK(c) /\ OwnsOnce(c)
        /\ \A g \in Gates : GateOK(g)
        /\ \A k \in Entity : LeaseOK(k) /\ \A p \in Proc : TableOK(p, k)

-----------------------------------------------------------------------------
(* 2. Entries, gates, leases and counts.                                   *)

LEMMA Joined ==
  ASSUME NEW s \in Seq(Entry)
  PROVE  s \o <<>> = s /\ <<>> \o s = s
  BY ConcatEmptySeq

LEMMA EntriesOf ==
  ASSUME IInv, NEW c \in Coroutine
  PROVE  /\ ctx[c] \in Context /\ Entries(c) \in Seq(Entry)
         /\ Entries(c) = IF ctx[c].at \in CleaningUp THEN ctx[c].cleanup ELSE ctx[c].ul
         /\ Len(Entries(c)) \in Nat /\ Len(Entries(c)) <= 2
         /\ DOMAIN Entries(c) = 1 .. Len(Entries(c))
         /\ \A i \in DOMAIN Entries(c) : Entries(c)[i] \in Entry
<1>1. ctx[c] \in Context /\ ContextOK(c)
  BY DEF IInv, TypeOK
<1>2. /\ ctx[c].ul \in Seq(Entry) /\ ctx[c].cleanup \in Seq(Entry) /\ ctx[c].keys \in Seq(Entity)
  BY <1>1 DEF Context
<1>3. /\ Entries(c) = IF ctx[c].at \in CleaningUp THEN ctx[c].cleanup ELSE ctx[c].ul
  BY <1>1, <1>2, Joined DEF ContextOK, Entries
<1>4. /\ Len(ctx[c].ul) \in Nat /\ Len(ctx[c].cleanup) \in Nat /\ Len(ctx[c].keys) \in Nat
  BY <1>2, LenProperties
<1>5. Entries(c) \in Seq(Entry)
  BY <1>2, <1>3
<1>6. Len(Entries(c)) \in Nat /\ Len(Entries(c)) <= 2
  <2>1. CASE ctx[c].at \in CleaningUp
    BY <1>1, <1>3, <1>4, <2>1 DEF ContextOK
  <2>2. CASE ctx[c].at \notin CleaningUp
    <3> DEFINE m == Len(ctx[c].keys)
               n == Len(ctx[c].ul)
    <3>1. m \in Nat /\ n \in Nat /\ m <= 2 /\ n <= m /\ Len(Entries(c)) = n
      BY <1>1, <1>3, <1>4, <2>2 DEF ContextOK
    <3> HIDE DEF m, n
    <3> QED  BY <3>1
  <2> QED  BY <2>1, <2>2
<1> QED  BY <1>1, <1>3, <1>5, <1>6, LenProperties, ElementOfSeq

\* What c's step leaves alone.
OthersSame(c) == /\ UNCHANGED <<multi, home>>
                 /\ \A d \in Coroutine : d # c => ctx'[d] = ctx[d]

LEMMA GateStep ==
  ASSUME NEW c \in Coroutine, NEW g \in Gates, OthersSame(c), \A h \in Gates : GateOK(h),
         \A h \in Gates : h # g =>
            /\ gate'[h] = gate[h]
            /\ Owns(c, h)' <=> Owns(c, h)
            /\ Waits(c, h)' <=> Waits(c, h),
         NoRepeat(gate'[g].waiters),
         gate'[g].holder = c <=> Owns(c, g)',
         In(c, gate'[g].waiters) <=> Waits(c, g)',
         \A d \in Coroutine : d # c =>
            /\ gate'[g].holder = d <=> gate[g].holder = d
            /\ In(d, gate'[g].waiters) <=> In(d, gate[g].waiters)
  PROVE  \A h \in Gates : GateOK(h)'
<1>1. ASSUME NEW d \in Coroutine, d # c, NEW h \in Gates
      PROVE  (Owns(d, h)' <=> Owns(d, h)) /\ (Waits(d, h)' <=> Waits(d, h))
  BY <1>1 DEF OthersSame, Owns, Owning, Waits, At, Entries, LastEntry
<1>2. GateOK(g)'
  BY <1>1 DEF GateOK
<1>3. ASSUME NEW h \in Gates, h # g PROVE GateOK(h)'
  BY <1>1, <1>3 DEF GateOK
<1> QED  BY <1>2, <1>3

LEMMA TableStep ==
  ASSUME NEW c \in Coroutine, OthersSame(c),
         \A p \in Proc, k \in Entity : TableOK(p, k),
         UNCHANGED table,
         DOMAIN Entries(c)' = DOMAIN Entries(c),
         \A i \in DOMAIN Entries(c) : /\ Entries(c)'[i].key = Entries(c)[i].key
                                      /\ Entries(c)'[i].lock = Entries(c)[i].lock
  PROVE  \A p \in Proc, k \in Entity : TableOK(p, k)'
<1>1. \A d \in Coroutine : d # c => Entries(d)' = Entries(d)
  BY DEF OthersSame, Entries
<1>2. References' = References
  BY <1>1 DEF References
<1>3. \A r \in References : /\ Entries(r[1])'[r[2]].key = Entries(r[1])[r[2]].key
                            /\ Entries(r[1])'[r[2]].lock = Entries(r[1])[r[2]].lock
  BY <1>1 DEF References
<1>4. \A p \in Proc, k \in Entity : RefsTo(p, k)' = RefsTo(p, k)
  BY <1>2, <1>3 DEF RefsTo, OthersSame
<1>5. ASSUME NEW p \in Proc, NEW k \in Entity PROVE TableOK(p, k)'
  <2>1. TableOK(p, k) /\ RefsTo(p, k)' = RefsTo(p, k)
    BY <1>4
  <2>2. \A r \in RefsTo(p, k) : Entries(r[1])'[r[2]].lock = Entries(r[1])[r[2]].lock
    BY <1>3 DEF RefsTo
  <2> QED  BY <2>1, <2>2 DEF TableOK
<1> QED  BY <1>5

LEMMA LeaseSame ==
  ASSUME NEW c \in Coroutine, OthersSame(c), \A k \in Entity : LeaseOK(k), UNCHANGED lease,
         \A k \in Entity : Holding(c, k)' <=> Holding(c, k)
  PROVE  \A k \in Entity : LeaseOK(k)'
<1>1. ASSUME NEW d \in Coroutine, d # c, NEW k \in Entity PROVE Holding(d, k)' <=> Holding(d, k)
  BY <1>1 DEF OthersSame, Holding, Entries
<1> QED  BY <1>1 DEF LeaseOK, OthersSame

LEMMA ContextStep ==
  ASSUME IInv, NEW c \in Coroutine, OthersSame(c), TypeOK', ContextOK(c)', OwnsOnce(c)',
         \A g \in Gates : GateOK(g)',
         \A k \in Entity : LeaseOK(k)',
         \A p \in Proc, k \in Entity : TableOK(p, k)'
  PROVE  IInv'
<1>1. HomeOK'
  BY DEF IInv, HomeOK, OthersSame
<1>2. ASSUME NEW d \in Coroutine, d # c PROVE ContextOK(d)' /\ OwnsOnce(d)'
  <2>1. ctx'[d] = ctx[d]
    BY <1>2 DEF OthersSame
  <2>2. ContextOK(d) /\ OwnsOnce(d)
    BY DEF IInv
  <2>3. ContextOK(d)'
    BY <2>1, <2>2 DEF ContextOK, At, LastEntry, OthersSame
  <2>4. OwnsOnce(d)'
    BY <2>1, <2>2 DEF OwnsOnce, Owning, At, Entries
  <2> QED  BY <2>3, <2>4
<1> QED  BY <1>1, <1>2 DEF IInv

\* A step in which c's context keeps its entries, its gates and its leases.
LEMMA QuietStep ==
  ASSUME IInv, NEW c \in Coroutine, OthersSame(c), UNCHANGED <<table, gate, lease>>,
         TypeOK', ContextOK(c)',
         Entries(c)' = Entries(c),
         ctx[c].at \notin {"gate", "lease"}, ctx'[c].at \notin {"gate", "lease"}
  PROVE  IInv'
<1>1. \A i : Owning(c, i)' <=> Owning(c, i)
  BY DEF Owning, At
<1>2. OwnsOnce(c)'
  BY <1>1 DEF IInv, OwnsOnce
<1>3. \A g \in Gates : (Owns(c, g)' <=> Owns(c, g)) /\ (Waits(c, g)' <=> Waits(c, g))
  BY <1>1 DEF Owns, Waits, At
<1>4. \A d \in Coroutine : d # c =>
        \A g \in Gates : (Owns(d, g)' <=> Owns(d, g)) /\ (Waits(d, g)' <=> Waits(d, g))
  BY DEF OthersSame, Owns, Owning, Waits, At, Entries, LastEntry
<1>5. \A g \in Gates : GateOK(g)'
  BY <1>3, <1>4 DEF IInv, GateOK
<1>6. \A k \in Entity : LeaseOK(k)'
  BY LeaseSame DEF IInv, Holding
<1>7. \A p \in Proc, k \in Entity : TableOK(p, k)'
  BY TableStep DEF IInv
<1> QED  BY <1>2, <1>5, <1>6, <1>7, ContextStep

\* The contexts that the actions make.
LEMMA Updated ==
  ASSUME NEW y \in Context, NEW a \in Place
  PROVE  /\ [y EXCEPT !.at = a] \in Context
         /\ [y EXCEPT !.at = a] = [at |-> a, keys |-> y.keys, ul |-> y.ul, cleanup |-> y.cleanup]
         /\ [y EXCEPT !.at = a, !.cleanup = y.ul, !.ul = <<>>] \in Context
         /\ [y EXCEPT !.at = a, !.cleanup = y.ul, !.ul = <<>>] =
              [at |-> a, keys |-> y.keys, ul |-> <<>>, cleanup |-> y.ul]
<1>1. <<>> \in Seq(Entry)
  BY EmptySeq
<1> DEFINE empty == <<>>
<1> HIDE DEF empty
<1>2. empty \in Seq(Entry)
  BY <1>1 DEF empty
<1>3. /\ [y EXCEPT !.at = a, !.cleanup = y.ul, !.ul = empty] \in Context
      /\ [y EXCEPT !.at = a, !.cleanup = y.ul, !.ul = empty] =
           [at |-> a, keys |-> y.keys, ul |-> empty, cleanup |-> y.ul]
  <2> DEFINE z == [y EXCEPT !.at = a, !.cleanup = y.ul, !.ul = empty]
  <2>1. z \in Context
    BY <1>2 DEF Context
  <2>2. z.at = a /\ z.keys = y.keys /\ z.ul = empty /\ z.cleanup = y.ul
    BY DEF Context
  <2> HIDE DEF z
  <2>3. z = [at |-> z.at, keys |-> z.keys, ul |-> z.ul, cleanup |-> z.cleanup]
    BY <2>1 DEF Context
  <2> QED  BY <2>1, <2>2, <2>3 DEF z
<1>4. /\ [y EXCEPT !.at = a] \in Context
      /\ [y EXCEPT !.at = a] = [at |-> a, keys |-> y.keys, ul |-> y.ul, cleanup |-> y.cleanup]
  BY DEF Context
<1> QED  BY <1>3, <1>4 DEF empty

LEMMA SetContext ==
  ASSUME TypeOK, NEW c \in Coroutine, NEW x \in Context, ctx' = [ctx EXCEPT ![c] = x]
  PROVE  /\ ctx' \in [Coroutine -> Context] /\ ctx'[c] = x
         /\ \A d \in Coroutine : d # c => ctx'[d] = ctx[d]
  BY DEF TypeOK

\* The keys of a request, sorted, are keys.
LEMMA Sorted ==
  ASSUME NEW request \in Requests
  PROVE  SortedKeys(request) \in Seq(Entity) /\ Len(SortedKeys(request)) <= 2
<1>1. ASSUME NEW s \in Entity, NEW t \in Entity, request = <<s, t>>
      PROVE  SortedKeys(request) = request \/ SortedKeys(request) = <<t, s>>
  <2>1. Reverse(request) = [i \in 1 .. 2 |-> request[(2 - i) + 1]]
    BY <1>1 DEF Reverse
  <2>2. Reverse(request) = <<t, s>>
    BY <1>1, <2>1
  <2> QED  BY <1>1, <2>2 DEF SortedKeys
<1>2. ASSUME NEW s \in Entity, request = <<s>> PROVE SortedKeys(request) = request
  <2>1. Reverse(request) = [i \in 1 .. 1 |-> request[(1 - i) + 1]]
    BY <1>2 DEF Reverse
  <2>2. Reverse(request) = <<s>>
    BY <1>2, <2>1
  <2> QED  BY <1>2, <2>2 DEF SortedKeys
<1>3. \A s, t \in Entity : /\ <<s, t>> \in Seq(Entity) /\ Len(<<s, t>>) = 2
                           /\ <<s>> \in Seq(Entity) /\ Len(<<s>>) = 1
  OBVIOUS
<1>4. (\E s, t \in Entity : request = <<s, t>>) \/ (\E s \in Entity : request = <<s>>)
  BY DEF Requests, EntityKeys, RelationKeys
<1>5. ASSUME NEW s \in Entity, NEW t \in Entity, request = <<s, t>>
      PROVE  SortedKeys(request) \in Seq(Entity) /\ Len(SortedKeys(request)) <= 2
  <2>1. CASE SortedKeys(request) = request
    <3>1. SortedKeys(request) = <<s, t>>
      BY <1>5, <2>1
    <3> QED  BY <1>3, <3>1
  <2>2. CASE SortedKeys(request) = <<t, s>>
    BY <1>3, <2>2
  <2> QED  BY <1>1, <1>5, <2>1, <2>2
<1>6. ASSUME NEW s \in Entity, request = <<s>>
      PROVE  SortedKeys(request) \in Seq(Entity) /\ Len(SortedKeys(request)) <= 2
  BY <1>2, <1>3, <1>6
<1> QED  BY <1>4, <1>5, <1>6

-----------------------------------------------------------------------------
(* 3. The actions.                                                         *)

LEMMA StartStep ==
  ASSUME IInv, NEW c \in Coroutine, Start(c)
  PROVE  IInv'
<1>1. /\ ctx[c] \in Context /\ ContextOK(c) /\ ctx[c].at = "new" /\ TypeOK
  BY EntriesOf DEF IInv, Start, At
<1>2. PICK request \in Requests :
        ctx' = [ctx EXCEPT ![c].at = "next", ![c].keys = SortedKeys(request)]
  BY DEF Start
<1> DEFINE x == [ctx[c] EXCEPT !.at = "next", !.keys = SortedKeys(request)]
<1>3. /\ x \in Context /\ x.at = "next" /\ x.keys = SortedKeys(request)
      /\ x.ul = ctx[c].ul /\ x.cleanup = ctx[c].cleanup
  BY <1>1, Sorted DEF Context, Place
<1>4. ctx' = [ctx EXCEPT ![c] = x]
  BY <1>1, <1>2 DEF TypeOK
<1> HIDE DEF x
<1>5. /\ ctx' \in [Coroutine -> Context] /\ ctx'[c] = x
      /\ \A d \in Coroutine : d # c => ctx'[d] = ctx[d]
  BY <1>1, <1>3, <1>4, SetContext
<1>6. OthersSame(c) /\ UNCHANGED <<table, gate, lease, budget>>
  BY <1>5 DEF Start, OthersSame
<1>7. running' \in [Proc -> Coroutine \cup {Nobody}]
  BY <1>1 DEF Start, Continue, TypeOK
<1>8. TypeOK'
  BY <1>1, <1>5, <1>6, <1>7 DEF TypeOK, OthersSame
<1>9. ctx[c].ul = <<>> /\ ctx[c].cleanup = <<>> /\ Len(<<>>) = 0
  BY <1>1 DEF ContextOK, At, CleaningUp
<1>10. ContextOK(c)'
  <2>1. Len(SortedKeys(request)) <= 2 /\ Len(SortedKeys(request)) \in Nat
    BY Sorted, LenProperties
  <2> QED  BY <1>3, <1>5, <1>9, <2>1 DEF ContextOK, At, CleaningUp
<1>11. Entries(c)' = Entries(c)
  BY <1>3, <1>5 DEF Entries
<1> QED  BY <1>1, <1>3, <1>5, <1>6, <1>8, <1>10, <1>11, QuietStep

\* The body begins, or ends; the clean-up is over, or goes on behind a caller that was
\* cancelled again.
LEMMA QuietSteps ==
  ASSUME IInv, NEW c \in Coroutine, EnterBody(c) \/ Leave(c) \/ GoOn(c) \/ (Cancel(c) /\ CancelRollback(c))
  PROVE  IInv'
<1>1. /\ ctx[c] \in Context /\ ContextOK(c) /\ TypeOK
  BY EntriesOf DEF IInv
<1>2. PICK a \in Place, u \in {ctx[c].ul, <<>>}, v \in {ctx[c].cleanup, ctx[c].ul} :
        /\ ctx' = [ctx EXCEPT ![c] = [at |-> a, keys |-> ctx[c].keys, ul |-> u, cleanup |-> v]]
        /\ ctx[c].at \notin {"gate", "lease", "new"} /\ a \notin {"gate", "lease", "new"}
        /\ \/ u = ctx[c].ul /\ v = ctx[c].cleanup /\ (a \in CleaningUp <=> ctx[c].at \in CleaningUp)
           \/ u = <<>> /\ v = ctx[c].ul /\ a \in CleaningUp /\ ctx[c].at \notin CleaningUp
  <2> DEFINE y == ctx[c]
             Old(a) == [at |-> a, keys |-> y.keys, ul |-> y.ul, cleanup |-> y.cleanup]
  <2>a. \A a : [y EXCEPT !.at = a] = Old(a)
    BY <1>1 DEF Context
  <2>b. ASSUME NEW a, ctx' = [ctx EXCEPT ![c].at = a] PROVE ctx' = [ctx EXCEPT ![c] = Old(a)]
    <3>1. ctx' = [ctx EXCEPT ![c] = [y EXCEPT !.at = a]]
      BY <1>1, <2>b DEF TypeOK
    <3> QED  BY <2>a, <3>1
  <2>1. CASE EnterBody(c)
    <3>1. ctx' = [ctx EXCEPT ![c] = Old("inside")] /\ y.at = "next"
      BY <2>1, <2>b DEF EnterBody, At
    <3> QED  BY <3>1 DEF Place, CleaningUp
  <2>2. CASE Leave(c)
    <3>1. ctx' = [ctx EXCEPT ![c] = [y EXCEPT !.at = "exit", !.cleanup = y.ul, !.ul = <<>>]]
      BY <2>2 DEF Leave
    <3>2. [y EXCEPT !.at = "exit", !.cleanup = y.ul, !.ul = <<>>] =
            [at |-> "exit", keys |-> y.keys, ul |-> <<>>, cleanup |-> y.ul]
      BY <1>1, Updated DEF Place
    <3>3. y.at = "inside"
      BY <2>2 DEF Leave, At
    <3>4. ctx' = [ctx EXCEPT ![c] = [at |-> "exit", keys |-> y.keys, ul |-> <<>>, cleanup |-> y.ul]]
      BY <3>1, <3>2
    <3> QED  BY <3>3, <3>4 DEF Place, CleaningUp
  <2>3. CASE GoOn(c)
    <3>1. ctx' = [ctx EXCEPT ![c] = Old("over")] /\ y.at \in {"exit", "rollback"}
      BY <2>3, <2>b DEF GoOn
    <3> QED  BY <3>1 DEF Place, CleaningUp
  <2>4. CASE CancelRollback(c)
    <3>1. ctx' = [ctx EXCEPT ![c] = Old("over")] /\ y.at = "rollback"
      BY <2>4, <2>b DEF CancelRollback, At
    <3> QED  BY <3>1 DEF Place, CleaningUp
  <2> QED  BY <2>1, <2>2, <2>3, <2>4
<1> DEFINE x == [at |-> a, keys |-> ctx[c].keys, ul |-> u, cleanup |-> v]
<1>3. x \in Context /\ x.at = a /\ x.keys = ctx[c].keys /\ x.ul = u /\ x.cleanup = v
  BY <1>1, EmptySeq DEF Context
<1> HIDE DEF x
<1>4. /\ ctx' \in [Coroutine -> Context] /\ ctx'[c] = x
      /\ \A d \in Coroutine : d # c => ctx'[d] = ctx[d]
  BY <1>1, <1>2, <1>3, SetContext DEF x
<1>5. OthersSame(c) /\ UNCHANGED <<table, gate, lease>>
  BY <1>4 DEF EnterBody, Leave, GoOn, Cancel, CancelRollback, OthersSame
<1>6. running' \in [Proc -> Coroutine \cup {Nobody}]
  BY <1>1 DEF EnterBody, Leave, GoOn, CancelRollback, Suspend, TypeOK
<1>7. budget' \in 0 .. MaxTroubles
  <2>1. UNCHANGED budget \/ (budget > 0 /\ budget' = budget - 1)
    BY DEF EnterBody, Leave, GoOn, Cancel, CancelRollback, Cancellable
  <2> QED  BY <1>1, <2>1, Consts DEF TypeOK
<1>8. TypeOK'
  BY <1>1, <1>4, <1>5, <1>6, <1>7 DEF TypeOK, OthersSame
<1>9. Len(ctx[c].ul) \in Nat /\ Len(ctx[c].keys) \in Nat /\ Len(<<>>) = 0
  BY <1>1, LenProperties DEF Context
<1>10. Len(ctx[c].ul) <= 2
  <2> DEFINE m == Len(ctx[c].keys)
             n == Len(ctx[c].ul)
  <2>1. m \in Nat /\ n \in Nat /\ m <= 2 /\ n <= m
    BY <1>1, <1>9 DEF ContextOK
  <2> HIDE DEF m, n
  <2>2. n <= 2
    BY <2>1
  <2> QED  BY <2>2 DEF n
<1>11. ContextOK(c)'
  BY <1>1, <1>2, <1>3, <1>4, <1>9, <1>10 DEF ContextOK, At
<1>12. Entries(c)' = Entries(c)
  <2>1. ctx[c].ul \in Seq(Entry) /\ ctx[c].cleanup \in Seq(Entry)
    BY <1>1 DEF Context
  <2>2. Entries(c)' = u \o v /\ Entries(c) = ctx[c].ul \o ctx[c].cleanup
    BY <1>3, <1>4 DEF Entries
  <2>3. ctx[c].at \notin CleaningUp => ctx[c].cleanup = <<>>
    BY <1>1 DEF ContextOK
  <2> QED  BY <1>2, <2>1, <2>2, <2>3, Joined
<1> QED  BY <1>1, <1>2, <1>3, <1>4, <1>5, <1>8, <1>11, <1>12, QuietStep

-----------------------------------------------------------------------------
(* 4. Gates and leases change hands.                                       *)

LEMMA GateSame ==
  ASSUME NEW c \in Coroutine, OthersSame(c), UNCHANGED gate, \A g \in Gates : GateOK(g),
         \A g \in Gates : (Owns(c, g)' <=> Owns(c, g)) /\ (Waits(c, g)' <=> Waits(c, g))
  PROVE  \A g \in Gates : GateOK(g)'
<1>1. \A d \in Coroutine : d # c =>
        \A g \in Gates : (Owns(d, g)' <=> Owns(d, g)) /\ (Waits(d, g)' <=> Waits(d, g))
  BY DEF OthersSame, Owns, Owning, Waits, At, Entries, LastEntry
<1> QED  BY <1>1 DEF GateOK

\* Only the turn of the loop, or the budget, changes.
LEMMA NothingMoves ==
  ASSUME IInv, UNCHANGED <<multi, home, table, gate, lease, ctx>>, TypeOK'
  PROVE  IInv'
<1>1. \A c : Entries(c)' = Entries(c) /\ LastEntry(c)' = LastEntry(c)
  BY DEF Entries, LastEntry
<1>2. \A c, i : Owning(c, i)' <=> Owning(c, i)
  BY <1>1 DEF Owning, At
<1>3. HomeOK' /\ \A c \in Coroutine : ContextOK(c)' /\ OwnsOnce(c)'
  BY <1>1, <1>2 DEF IInv, HomeOK, ContextOK, At, OwnsOnce
<1>4. \A g \in Gates : GateOK(g)'
  BY <1>1, <1>2 DEF IInv, GateOK, Owns, Waits, At
<1>5. \A k \in Entity : LeaseOK(k)'
  BY <1>1 DEF IInv, LeaseOK, Holding
<1>6. References' = References
  BY <1>1 DEF References
<1>7. \A p, k : RefsTo(p, k)' = RefsTo(p, k)
  BY <1>1, <1>6 DEF RefsTo
<1>8. \A p \in Proc, k \in Entity : TableOK(p, k)'
  BY <1>1, <1>7 DEF IInv, TableOK
<1> QED  BY <1>3, <1>4, <1>5, <1>8 DEF IInv

\* A context whose last entry is entered.
LEMMA Entered ==
  ASSUME NEW y \in Context, y.ul # <<>>
  PROVE  /\ Enter(y) \in Context /\ Enter(y).at = "next" /\ Enter(y).keys = y.keys
         /\ Enter(y).cleanup = y.cleanup /\ Enter(y).ul # <<>>
         /\ Len(Enter(y).ul) = Len(y.ul) /\ DOMAIN Enter(y).ul = DOMAIN y.ul
         /\ \A i \in DOMAIN y.ul : /\ Enter(y).ul[i].key = y.ul[i].key
                                   /\ Enter(y).ul[i].lock = y.ul[i].lock
                                   /\ Enter(y).ul[i].entered <=> y.ul[i].entered \/ i = Len(y.ul)
<1> DEFINE n == Len(y.ul)
           e == [y.ul[n] EXCEPT !.entered = TRUE]
           u == [y.ul EXCEPT ![n] = e]
<1>1. y.ul \in Seq(Entry) /\ n \in Nat \ {0} /\ DOMAIN y.ul = 1 .. n
  <2>1. y.ul \in Seq(Entry)
    BY DEF Context
  <2> QED  BY <2>1, EmptySeq, LenProperties
<1>2. n \in 1 .. n
  BY <1>1
<1>3. y.ul[n] \in Entry /\ \A i \in DOMAIN y.ul : y.ul[i] \in Entry
  BY <1>1, <1>2, ElementOfSeq
<1>4. e \in Entry /\ e.key = y.ul[n].key /\ e.lock = y.ul[n].lock /\ e.entered
  BY <1>3 DEF Entry
<1> HIDE DEF e
<1>5. u \in Seq(Entry) /\ Len(u) = n /\ \A j \in 1 .. n : u[j] = IF j = n THEN e ELSE y.ul[j]
  BY <1>1, <1>2, <1>4, ExceptSeq
<1>6. Enter(y) = [y EXCEPT !.at = "next", !.ul = u]
  BY DEF Enter, e
<1> HIDE DEF u, n
<1>7. /\ Enter(y) \in Context /\ Enter(y).at = "next" /\ Enter(y).keys = y.keys
      /\ Enter(y).cleanup = y.cleanup /\ Enter(y).ul = u
  BY <1>5, <1>6 DEF Context, Place
<1>8. DOMAIN u = 1 .. n /\ u # <<>>
  BY <1>1, <1>5, LenProperties, EmptySeq
<1>9. ASSUME NEW i \in DOMAIN y.ul
      PROVE  /\ u[i].key = y.ul[i].key /\ u[i].lock = y.ul[i].lock
             /\ u[i].entered <=> y.ul[i].entered \/ i = n
  BY <1>1, <1>4, <1>5
<1> QED  BY <1>1, <1>5, <1>7, <1>8, <1>9 DEF n

\* What an unentered last entry is.
LEMMA LastOf ==
  ASSUME IInv, NEW c \in Coroutine, ctx[c].at \in {"gate", "lease"}
  PROVE  /\ ctx[c].ul # <<>> /\ Entries(c) = ctx[c].ul /\ ctx[c].cleanup = <<>>
         /\ Len(ctx[c].ul) \in DOMAIN Entries(c) /\ Len(Entries(c)) = Len(ctx[c].ul)
         /\ LastEntry(c) = Entries(c)[Len(ctx[c].ul)] /\ ~ LastEntry(c).entered
         /\ LastEntry(c).lock \in Gates /\ LastEntry(c).key \in Entity
<1>1. ContextOK(c) /\ ctx[c].at \notin CleaningUp
  BY DEF IInv, CleaningUp
<1>2. ctx[c].ul # <<>> /\ ~ LastEntry(c).entered /\ ctx[c].cleanup = <<>>
  BY <1>1 DEF ContextOK
<1>3. Entries(c) = ctx[c].ul /\ DOMAIN Entries(c) = 1 .. Len(Entries(c))
      /\ Entries(c) \in Seq(Entry) /\ \A i \in DOMAIN Entries(c) : Entries(c)[i] \in Entry
  BY <1>1, EntriesOf
<1>4. Len(ctx[c].ul) \in DOMAIN Entries(c)
  <2>1. Len(Entries(c)) \in Nat \ {0}
    BY <1>2, <1>3, EmptySeq
  <2> QED  BY <1>3, <2>1
<1>5. LastEntry(c) = Entries(c)[Len(ctx[c].ul)]
  BY <1>3 DEF LastEntry, Last
<1>6. LastEntry(c) \in Entry
  BY <1>3, <1>4, <1>5
<1> QED  BY <1>2, <1>3, <1>4, <1>5, <1>6 DEF Entry

\* A free lease is granted, or the poll sleeps.
LEMMA PollLeaseStep ==
  ASSUME IInv, NEW c \in Coroutine, PollLease(c)
  PROVE  IInv'
<1>1. /\ ctx[c] \in Context /\ ContextOK(c) /\ TypeOK /\ ctx[c].at = "lease" /\ multi
  BY EntriesOf DEF IInv, PollLease, At, ContextOK
<1>2. running' \in [Proc -> Coroutine \cup {Nobody}]
  BY <1>1 DEF PollLease, Continue, Suspend, TypeOK
<1>3. UNCHANGED <<multi, home, table, gate, budget>>
  BY DEF PollLease
<1>4. CASE UNCHANGED <<lease, ctx>>
  <2>1. TypeOK'
    BY <1>1, <1>2, <1>3, <1>4 DEF TypeOK
  <2> QED  BY <1>3, <1>4, <2>1, NothingMoves
<1>5. CASE ~ UNCHANGED <<lease, ctx>>
  <2> DEFINE y == ctx[c]
             n == Len(ctx[c].ul)
             x == Enter(y)
  <2>1. PICK k \in Entity : /\ k = LastEntry(c).key /\ lease[k] = Nobody
                            /\ lease' = [lease EXCEPT ![k] = c]
                            /\ ctx' = [ctx EXCEPT ![c] = Enter(@)]
    BY <1>1, <1>5, LastOf DEF PollLease
  <2>2. /\ y.ul # <<>> /\ Entries(c) = y.ul /\ y.cleanup = <<>>
        /\ n \in DOMAIN Entries(c) /\ LastEntry(c) = Entries(c)[n] /\ ~ LastEntry(c).entered
    BY <1>1, LastOf
  <2>3. /\ x \in Context /\ x.at = "next" /\ x.keys = y.keys /\ x.cleanup = y.cleanup
        /\ x.ul # <<>> /\ Len(x.ul) = n /\ DOMAIN x.ul = DOMAIN y.ul
        /\ \A i \in DOMAIN y.ul : /\ x.ul[i].key = y.ul[i].key /\ x.ul[i].lock = y.ul[i].lock
                                  /\ x.ul[i].entered <=> y.ul[i].entered \/ i = n
    BY <1>1, <2>2, Entered
  <2>4. ctx' = [ctx EXCEPT ![c] = x]
    BY <2>1
  <2> HIDE DEF x
  <2>5. /\ ctx' \in [Coroutine -> Context] /\ ctx'[c] = x
        /\ \A d \in Coroutine : d # c => ctx'[d] = ctx[d]
    BY <1>1, <2>3, <2>4, SetContext
  <2>6. OthersSame(c)
    BY <1>3, <2>5 DEF OthersSame
  <2>7. lease' \in [Entity -> Coroutine \cup {Nobody, Lost}]
    BY <1>1, <2>1 DEF TypeOK
  <2>8. TypeOK'
    BY <1>1, <1>2, <1>3, <2>5, <2>7 DEF TypeOK
  <2>9. Entries(c)' = x.ul
    <3>1. Entries(c)' = x.ul \o <<>> /\ x.ul \in Seq(Entry)
      BY <2>2, <2>3, <2>5 DEF Entries, Context
    <3> QED  BY <3>1, Joined
  <2>10. ContextOK(c)'
    BY <1>1, <2>2, <2>3, <2>5 DEF ContextOK, At, CleaningUp
  <2>11. \A i \in DOMAIN Entries(c) : Owning(c, i)' <=> Owning(c, i)
    BY <1>1, <2>2, <2>3, <2>5, <2>9 DEF Owning, At
  <2>12. OwnsOnce(c)'
    BY <2>2, <2>3, <2>9, <2>11 DEF IInv, OwnsOnce
  <2>13. \A g \in Gates : (Owns(c, g)' <=> Owns(c, g)) /\ (Waits(c, g)' <=> Waits(c, g))
    BY <1>1, <2>2, <2>3, <2>5, <2>9, <2>11 DEF Owns, Waits, At
  <2>14. \A g \in Gates : GateOK(g)'
    BY <1>3, <2>6, <2>13, GateSame DEF IInv
  <2>15. \A p \in Proc, j \in Entity : TableOK(p, j)'
    BY <1>3, <2>2, <2>3, <2>6, <2>9, TableStep DEF IInv
  <2>16. ASSUME NEW j \in Entity PROVE LeaseOK(j)'
    <3>1. \A d \in Coroutine : d # c => (Holding(d, j)' <=> Holding(d, j))
      BY <2>6 DEF OthersSame, Holding, Entries
    <3>2. LeaseOK(j) /\ multi' = multi
      BY <1>3 DEF IInv
    <3>3. CASE j = k
      <4>1. lease'[j] = c
        BY <1>1, <2>1, <3>3 DEF TypeOK
      <4>2. Holding(c, j)'
        BY <2>1, <2>2, <2>3, <2>9, <3>3 DEF Holding
      <4>3. \A d \in Coroutine : d # c => ~ Holding(d, j)
        BY <1>1, <2>1, <3>2, <3>3, Consts DEF LeaseOK
      <4> QED  BY <1>1, <3>1, <3>2, <4>1, <4>2, <4>3 DEF LeaseOK
    <3>4. CASE j # k
      <4>1. lease'[j] = lease[j]
        BY <1>1, <2>1, <3>4 DEF TypeOK
      <4>2. Holding(c, j)' <=> Holding(c, j)
        BY <2>1, <2>2, <2>3, <2>9, <3>4 DEF Holding
      <4> QED  BY <3>1, <3>2, <4>1, <4>2 DEF LeaseOK
    <3> QED  BY <3>3, <3>4
  <2> QED  BY <2>6, <2>8, <2>10, <2>12, <2>14, <2>15, <2>16, ContextStep
<1> QED  BY <1>4, <1>5

\* The context gives up: its entries are the rollback's, its gate, or its place in the
\* queue for it, is given back.
LEMMA RollBackStep ==
  ASSUME IInv, NEW c \in Coroutine, ctx[c].at \in {"gate", "lease"}, RollBack(c),
         UNCHANGED <<multi, home, table, lease>>, budget' \in 0 .. MaxTroubles,
         \/ /\ At(c, "gate")
            /\ gate' = [gate EXCEPT ![LastEntry(c).lock].waiters = Without(@, {c})]
         \/ /\ At(c, "lease")
            /\ gate' = [gate EXCEPT ![LastEntry(c).lock].holder = Nobody]
  PROVE  IInv'
<1> DEFINE y == ctx[c]
           n == Len(ctx[c].ul)
           x == [at |-> "rollback", keys |-> y.keys, ul |-> <<>>, cleanup |-> y.ul]
<1>1. y \in Context /\ ContextOK(c) /\ TypeOK
  BY EntriesOf DEF IInv
<1>2. /\ y.ul # <<>> /\ Entries(c) = y.ul /\ y.cleanup = <<>>
      /\ n \in DOMAIN Entries(c) /\ LastEntry(c) = Entries(c)[n] /\ ~ LastEntry(c).entered
      /\ Len(Entries(c)) = n /\ LastEntry(c).lock \in Gates
  BY LastOf
<1>3. x \in Context /\ ctx' = [ctx EXCEPT ![c] = x]
  <2>1. /\ [y EXCEPT !.at = "rollback", !.cleanup = y.ul, !.ul = <<>>] \in Context
        /\ [y EXCEPT !.at = "rollback", !.cleanup = y.ul, !.ul = <<>>] = x
    BY <1>1, Updated DEF Place
  <2>2. ctx' = [ctx EXCEPT ![c] = [y EXCEPT !.at = "rollback", !.cleanup = y.ul, !.ul = <<>>]]
    BY DEF RollBack
  <2> QED  BY <2>1, <2>2
<1>4. x.at = "rollback" /\ x.keys = y.keys /\ x.ul = <<>> /\ x.cleanup = y.ul
  OBVIOUS
<1> HIDE DEF x
<1>5. /\ ctx' \in [Coroutine -> Context] /\ ctx'[c] = x
      /\ \A d \in Coroutine : d # c => ctx'[d] = ctx[d]
  BY <1>1, <1>3, SetContext
<1>6. OthersSame(c)
  BY <1>5 DEF OthersSame
<1>7. Entries(c)' = Entries(c)
  <2>1. Entries(c)' = <<>> \o y.ul /\ y.ul \in Seq(Entry)
    BY <1>1, <1>4, <1>5 DEF Entries, Context
  <2> QED  BY <1>2, <2>1, Joined
<1>8. ContextOK(c)'
  <2>1. Len(y.ul) \in Nat /\ Len(y.ul) <= 2 /\ Len(y.keys) \in Nat /\ Len(y.keys) <= 2 /\ Len(<<>>) = 0
    <3>1. Len(Entries(c)) <= 2 /\ Len(Entries(c)) \in Nat
      BY EntriesOf
    <3> QED  BY <1>1, <1>2, <3>1, LenProperties DEF ContextOK, Context
  <2> QED  BY <1>4, <1>5, <2>1 DEF ContextOK, At, CleaningUp
<1>9. \A i \in DOMAIN Entries(c) : Owning(c, i)' <=> Entries(c)[i].entered
  BY <1>4, <1>5, <1>7 DEF Owning, At
<1>10. OwnsOnce(c)'
  BY <1>7, <1>9 DEF IInv, OwnsOnce, Owning
<1>11. \A g \in Gates : ~ Waits(c, g)'
  BY <1>4, <1>5 DEF Waits, At
<1>12. PICK g \in Gates : g = LastEntry(c).lock
  BY <1>2
<1>13. gate[g] \in [holder : Coroutine \cup {Nobody}, waiters : Seq(Coroutine)] /\ GateOK(g)
  BY <1>1 DEF IInv, TypeOK
<1>14. \A h \in Gates : h # g => /\ gate'[h] = gate[h]
                                 /\ Owns(c, h)' <=> Owns(c, h)
                                 /\ Waits(c, h)' <=> Waits(c, h)
  <2>1. \A h \in Gates : h # g => gate'[h] = gate[h]
    BY <1>1, <1>12 DEF TypeOK
  <2>2. ASSUME NEW h \in Gates, h # g PROVE Owns(c, h)' <=> Owns(c, h)
    BY <1>2, <1>7, <1>9, <1>12, <2>2 DEF Owns, Owning
  <2>3. ASSUME NEW h \in Gates, h # g PROVE ~ Waits(c, h)
    BY <1>12, <2>3 DEF Waits
  <2> QED  BY <1>11, <2>1, <2>2, <2>3
<1>15. \A k \in Entity : LeaseOK(k)'
  BY <1>6, <1>7, LeaseSame DEF IInv, Holding
<1>16. \A p \in Proc, k \in Entity : TableOK(p, k)'
  BY <1>6, <1>7, TableStep DEF IInv
<1>17. running' \in [Proc -> Coroutine \cup {Nobody}]
  BY <1>1 DEF RollBack, Suspend, TypeOK
<1>18. CASE /\ At(c, "gate")
            /\ gate' = [gate EXCEPT ![g].waiters = Without(@, {c})]
  <2> DEFINE s == gate[g].waiters
             t == Without(s, {c})
  <2>1. s \in Seq(Coroutine) /\ NoRepeat(s)
    BY <1>13 DEF GateOK
  <2>2. t \in Seq(Coroutine)
    BY <2>1, WithoutElements
  <2>3. NoRepeat(t)
    BY <2>1, WithoutInjective DEF NoRepeat
  <2>4. ASSUME NEW d PROVE In(d, t) <=> d # c /\ In(d, s)
    <3>1. (\E j \in DOMAIN Without(s, {c}) : Without(s, {c})[j] = d)
            <=> d \notin {c} /\ \E i \in DOMAIN s : s[i] = d
      BY <2>1, WithoutRange
    <3> QED  BY <3>1 DEF In
  <2>5. gate'[g].waiters = t /\ gate'[g].holder = gate[g].holder
    BY <1>1, <1>18 DEF TypeOK
  <2> HIDE DEF s, t
  <2>6. gate' \in [Gates -> [holder : Coroutine \cup {Nobody}, waiters : Seq(Coroutine)]]
    <3>1. gate' = [gate EXCEPT ![g].waiters = t]
      BY <1>18 DEF s, t
    <3> QED  BY <1>1, <2>2, <3>1 DEF TypeOK
  <2>7. TypeOK'
    BY <1>1, <1>5, <1>17, <2>6 DEF TypeOK
  <2>8. Owns(c, g)' <=> Owns(c, g)
    BY <1>7, <1>9, <1>18 DEF Owns, Owning, At
  <2>9. \A h \in Gates : GateOK(h)'
    <3>1. gate'[g].holder = c <=> Owns(c, g)'
      BY <1>13, <2>5, <2>8 DEF GateOK
    <3>2. \A d \in Coroutine : d # c =>
            /\ gate'[g].holder = d <=> gate[g].holder = d
            /\ In(d, gate'[g].waiters) <=> In(d, gate[g].waiters)
      BY <2>4, <2>5 DEF s
    <3>3. In(c, gate'[g].waiters) <=> Waits(c, g)'
      BY <1>11, <2>4, <2>5
    <3>4. NoRepeat(gate'[g].waiters)
      BY <2>3, <2>5
    <3> QED  BY <1>6, <1>14, <3>1, <3>2, <3>3, <3>4, GateStep DEF IInv
  <2> QED  BY <1>6, <1>8, <1>10, <1>15, <1>16, <2>7, <2>9, ContextStep
<1>19. CASE /\ At(c, "lease")
            /\ gate' = [gate EXCEPT ![g].holder = Nobody]
  <2>1. gate'[g].waiters = gate[g].waiters /\ gate'[g].holder = Nobody
    BY <1>1, <1>19 DEF TypeOK
  <2>2. gate' \in [Gates -> [holder : Coroutine \cup {Nobody}, waiters : Seq(Coroutine)]]
    BY <1>1, <1>19 DEF TypeOK
  <2>3. TypeOK'
    BY <1>1, <1>5, <1>17, <2>2 DEF TypeOK
  <2>4. Owning(c, n)
    BY <1>19 DEF Owning
  <2>5. Owns(c, g)
    BY <1>2, <1>12, <2>4 DEF Owns
  <2>6. gate[g].holder = c
    BY <1>13, <2>5 DEF GateOK
  <2>7. ~ Owns(c, g)'
    <3> SUFFICES ASSUME NEW i \in DOMAIN Entries(c), Entries(c)[i].lock = g, Entries(c)[i].entered
                 PROVE  FALSE
      BY <1>7, <1>9 DEF Owns
    <3>1. i = n
      BY <1>2, <1>12, <2>4 DEF IInv, OwnsOnce, Owning
    <3> QED  BY <1>2, <3>1
  <2>8. \A h \in Gates : GateOK(h)'
    <3>1. gate'[g].holder = c <=> Owns(c, g)'
      BY <2>1, <2>7, Consts
    <3>2. \A d \in Coroutine : d # c =>
            /\ gate'[g].holder = d <=> gate[g].holder = d
            /\ In(d, gate'[g].waiters) <=> In(d, gate[g].waiters)
      BY <2>1, <2>6, Consts
    <3>3. In(c, gate'[g].waiters) <=> Waits(c, g)'
      BY <1>11, <1>13, <1>19, <2>1 DEF GateOK, Waits, At
    <3>4. NoRepeat(gate'[g].waiters)
      BY <1>13, <2>1 DEF GateOK
    <3> QED  BY <1>6, <1>14, <3>1, <3>2, <3>3, <3>4, GateStep DEF IInv
  <2> QED  BY <1>6, <1>8, <1>10, <1>15, <1>16, <2>3, <2>8, ContextStep
<1> QED  BY <1>12, <1>18, <1>19

LEMMA GiveUpSteps ==
  ASSUME IInv, NEW c \in Coroutine,
         PollFails(c) \/ (Cancel(c) /\ (CancelWaiter(c) \/ CancelPoll(c)))
  PROVE  IInv'
<1>1. budget \in 0 .. MaxTroubles /\ MaxTroubles \in Nat
  BY Consts DEF IInv, TypeOK
<1>2. budget > 0 /\ budget' = budget - 1
  BY DEF PollFails, Cancel, CancelWaiter, CancelPoll, Cancellable
<1>3. budget' \in 0 .. MaxTroubles
  BY <1>1, <1>2
<1>4. RollBack(c) /\ UNCHANGED <<multi, home, table, lease>>
  BY DEF PollFails, Cancel, CancelWaiter, CancelPoll
<1> QED  BY <1>3, <1>4, RollBackStep DEF PollFails, CancelWaiter, CancelPoll, At

\* A cancelled release waits on; everybody is done.
LEMMA IdleSteps ==
  ASSUME IInv, UNCHANGED vars \/ \E c \in Coroutine : Cancel(c) /\ CancelExit(c)
  PROVE  IInv'
<1>1. CASE UNCHANGED vars
  <2>1. TypeOK'
    BY <1>1 DEF IInv, TypeOK, vars
  <2> QED  BY <1>1, <2>1, NothingMoves DEF vars
<1>2. ASSUME NEW c \in Coroutine, Cancel(c), CancelExit(c) PROVE IInv'
  <2>1. budget' \in 0 .. MaxTroubles
    <3>1. budget \in 0 .. MaxTroubles /\ MaxTroubles \in Nat /\ budget > 0 /\ budget' = budget - 1
      BY <1>2, Consts DEF IInv, TypeOK, Cancel, CancelExit, Cancellable
    <3> QED  BY <3>1
  <2>2. UNCHANGED <<multi, home, running, table, gate, lease, ctx>>
    BY <1>2 DEF Cancel, CancelExit
  <2>3. TypeOK'
    BY <2>1, <2>2 DEF IInv, TypeOK
  <2> QED  BY <2>2, <2>3, NothingMoves
<1> QED  BY <1>1, <1>2

LEMMA TailOf ==
  ASSUME NEW S, NEW s \in Seq(S), s # <<>>, NoRepeat(s)
  PROVE  /\ Tail(s) \in Seq(S) /\ NoRepeat(Tail(s)) /\ In(Head(s), s)
         /\ \A d : In(d, Tail(s)) <=> In(d, s) /\ d # Head(s)
<1> DEFINE n == Len(s)
           t == Tail(s)
<1>1. n \in Nat \ {0} /\ DOMAIN s = 1 .. n
  BY EmptySeq, LenProperties
<1>2. t \in Seq(S) /\ Len(t) = n - 1 /\ \A i \in 1 .. Len(t) : t[i] = s[i + 1]
  BY HeadTailProperties
<1>3. DOMAIN t = 1 .. (n - 1) /\ Head(s) = s[1]
  BY <1>2, LenProperties
<1>4. \A i \in 1 .. (n - 1) : t[i] = s[i + 1]
  BY <1>2
<1>5. \A i, j \in 1 .. n : s[i] = s[j] => i = j
  BY <1>1 DEF NoRepeat
<1> HIDE DEF n, t
<1>6. NoRepeat(t)
  <2> SUFFICES ASSUME NEW i \in 1 .. (n - 1), NEW j \in 1 .. (n - 1), t[i] = t[j]
               PROVE  i = j
    BY <1>3 DEF NoRepeat
  <2>1. i + 1 \in 1 .. n /\ j + 1 \in 1 .. n
    BY <1>1
  <2>2. i + 1 = j + 1
    BY <1>4, <1>5, <2>1
  <2> QED  BY <2>2
<1>7. ASSUME NEW d PROVE In(d, t) <=> In(d, s) /\ d # Head(s)
  <2>1. ASSUME NEW i \in 1 .. (n - 1), t[i] = d PROVE In(d, s) /\ d # Head(s)
    <3>1. i + 1 \in 1 .. n /\ 1 \in 1 .. n /\ s[i + 1] = d
      BY <1>1, <1>4, <2>1
    <3>2. d # s[1]
      BY <1>5, <3>1
    <3> QED  BY <1>1, <1>3, <3>1, <3>2 DEF In
  <2>2. ASSUME NEW i \in 1 .. n, s[i] = d, d # s[1] PROVE In(d, t)
    <3>1. i - 1 \in 1 .. (n - 1) /\ (i - 1) + 1 = i
      BY <1>1, <2>2
    <3>2. t[i - 1] = d
      BY <1>4, <2>2, <3>1
    <3> QED  BY <1>3, <3>1, <3>2 DEF In
  <2> QED  BY <1>1, <1>3, <2>1, <2>2 DEF In
<1>8. In(Head(s), s)
  BY <1>1, <1>3 DEF In
<1> QED  BY <1>2, <1>6, <1>7, <1>8 DEF t

\* A gate that is free goes to its first waiter.
LEMMA TakeGateStep ==
  ASSUME IInv, NEW c \in Coroutine, TakeGate(c)
  PROVE  IInv'
<1> DEFINE y == ctx[c]
           n == Len(ctx[c].ul)
           x == IF multi THEN [y EXCEPT !.at = "lease"] ELSE Enter(y)
<1>1. /\ y \in Context /\ ContextOK(c) /\ TypeOK /\ y.at = "gate"
      /\ UNCHANGED <<multi, home, table, lease, budget>>
  BY EntriesOf DEF IInv, TakeGate, At
<1>2. /\ y.ul # <<>> /\ Entries(c) = y.ul /\ y.cleanup = <<>>
      /\ n \in DOMAIN Entries(c) /\ LastEntry(c) = Entries(c)[n] /\ ~ LastEntry(c).entered
      /\ Len(Entries(c)) = n /\ LastEntry(c).lock \in Gates
  BY <1>1, LastOf
<1>3. PICK g \in Gates : g = LastEntry(c).lock
  BY <1>2
<1> DEFINE s == gate[g].waiters
<1>4. /\ gate[g].holder = Nobody /\ Head(s) = c
      /\ gate' = [gate EXCEPT ![g] = [holder |-> c, waiters |-> Tail(s)]]
      /\ ctx' = [ctx EXCEPT ![c] = x]
  BY <1>3 DEF TakeGate
<1>5. /\ x \in Context /\ x.at = (IF multi THEN "lease" ELSE "next")
      /\ x.keys = y.keys /\ x.cleanup = <<>> /\ x.ul # <<>>
      /\ Len(x.ul) = n /\ DOMAIN x.ul = DOMAIN y.ul
      /\ \A i \in DOMAIN y.ul : /\ x.ul[i].key = y.ul[i].key /\ x.ul[i].lock = y.ul[i].lock
                                /\ x.ul[i].entered <=> y.ul[i].entered \/ (~ multi /\ i = n)
  <2>1. CASE multi
    <3>1. [y EXCEPT !.at = "lease"] \in Context
      BY <1>1, Updated DEF Place
    <3>2. [y EXCEPT !.at = "lease"] =
            [at |-> "lease", keys |-> y.keys, ul |-> y.ul, cleanup |-> y.cleanup]
      BY <1>1, Updated DEF Place
    <3>3. x = [at |-> "lease", keys |-> y.keys, ul |-> y.ul, cleanup |-> y.cleanup] /\ x \in Context
      BY <2>1, <3>1, <3>2
    <3> QED  BY <1>2, <2>1, <3>3
  <2>2. CASE ~ multi
    BY <1>1, <1>2, <2>2, Entered
  <2> QED  BY <2>1, <2>2
<1> HIDE DEF x
<1>6. /\ ctx' \in [Coroutine -> Context] /\ ctx'[c] = x
      /\ \A d \in Coroutine : d # c => ctx'[d] = ctx[d]
  BY <1>1, <1>4, <1>5, SetContext
<1>7. OthersSame(c)
  BY <1>1, <1>6 DEF OthersSame
<1>8. gate[g] \in [holder : Coroutine \cup {Nobody}, waiters : Seq(Coroutine)] /\ GateOK(g)
  BY <1>1 DEF IInv, TypeOK
<1>9. s \in Seq(Coroutine) /\ NoRepeat(s) /\ s # <<>>
  <2>1. Waits(c, g)
    BY <1>1, <1>3 DEF Waits, At
  <2>2. In(c, s)
    BY <1>8, <2>1 DEF GateOK
  <2> QED  BY <1>8, <2>2, EmptySeq DEF GateOK, In
<1>10. /\ Tail(s) \in Seq(Coroutine) /\ NoRepeat(Tail(s))
       /\ \A d : In(d, Tail(s)) <=> In(d, s) /\ d # c
  BY <1>4, <1>9, TailOf
<1>11. gate'[g].holder = c /\ gate'[g].waiters = Tail(s)
  BY <1>1, <1>4 DEF TypeOK
<1>12. gate' \in [Gates -> [holder : Coroutine \cup {Nobody}, waiters : Seq(Coroutine)]]
  <2>1. [holder |-> c, waiters |-> Tail(s)] \in [holder : Coroutine \cup {Nobody}, waiters : Seq(Coroutine)]
    BY <1>10
  <2> QED  BY <1>1, <1>4, <2>1 DEF TypeOK
<1>13. running' \in [Proc -> Coroutine \cup {Nobody}]
  BY <1>1 DEF TakeGate, Continue, TypeOK
<1>14. TypeOK'
  BY <1>1, <1>6, <1>12, <1>13 DEF TypeOK
<1>15. Entries(c)' = x.ul
  <2>1. Entries(c)' = x.ul \o <<>> /\ x.ul \in Seq(Entry)
    BY <1>5, <1>6 DEF Entries, Context
  <2> QED  BY <2>1, Joined
<1>16. ContextOK(c)'
  <2>1. x.at \notin CleaningUp /\ x.at # "new"
    BY <1>5 DEF CleaningUp
  <2>2. multi => ~ x.ul[n].entered
    BY <1>2, <1>5
  <2>3. LastEntry(c)' = x.ul[n]
    BY <1>5, <1>6 DEF LastEntry, Last
  <2>4. Len(x.keys) <= 2 /\ Len(x.ul) <= Len(x.keys)
    BY <1>1, <1>5 DEF ContextOK
  <2>5. x.at \in {"gate", "lease"} => multi
    BY <1>5
  <2> QED  BY <1>1, <1>5, <1>6, <2>1, <2>2, <2>3, <2>4, <2>5 DEF ContextOK, At
<1>17. \A i \in DOMAIN Entries(c) : Owning(c, i)' <=> Owning(c, i) \/ i = n
  BY <1>1, <1>2, <1>5, <1>6, <1>15 DEF Owning, At
<1>18. \A i \in DOMAIN Entries(c) : Owning(c, i) => Entries(c)[i].lock # g
  <2>1. ~ Owns(c, g)
    BY <1>4, <1>8, Consts DEF GateOK
  <2> QED  BY <2>1 DEF Owns
<1>19. OwnsOnce(c)'
  BY <1>2, <1>3, <1>5, <1>15, <1>17, <1>18 DEF IInv, OwnsOnce
<1>20. \A h \in Gates : h # g => /\ gate'[h] = gate[h]
                                 /\ Owns(c, h)' <=> Owns(c, h)
                                 /\ Waits(c, h)' <=> Waits(c, h)
  <2>1. \A h \in Gates : h # g => gate'[h] = gate[h]
    BY <1>1, <1>4 DEF TypeOK
  <2>2. ASSUME NEW h \in Gates, h # g PROVE Owns(c, h)' <=> Owns(c, h)
    BY <1>2, <1>3, <1>5, <1>15, <1>17, <2>2 DEF Owns
  <2>3. ASSUME NEW h \in Gates, h # g PROVE ~ Waits(c, h) /\ ~ Waits(c, h)'
    BY <1>3, <1>5, <1>6, <2>3 DEF Waits, At
  <2> QED  BY <2>1, <2>2, <2>3
<1>21. \A h \in Gates : GateOK(h)'
  <2>1. Owns(c, g)'
    BY <1>2, <1>3, <1>5, <1>15, <1>17 DEF Owns
  <2>2. ~ Waits(c, g)'
    BY <1>5, <1>6 DEF Waits, At
  <2>3. ~ In(c, gate'[g].waiters)
    BY <1>10, <1>11
  <2>4. \A d \in Coroutine : d # c =>
            /\ gate'[g].holder = d <=> gate[g].holder = d
            /\ In(d, gate'[g].waiters) <=> In(d, gate[g].waiters)
    BY <1>4, <1>10, <1>11, Consts
  <2>5. NoRepeat(gate'[g].waiters)
    BY <1>10, <1>11
  <2>6. gate'[g].holder = c <=> Owns(c, g)'
    BY <1>11, <2>1
  <2>7. In(c, gate'[g].waiters) <=> Waits(c, g)'
    BY <2>2, <2>3
  <2>8. \A h \in Gates : GateOK(h)
    BY DEF IInv
  <2> HIDE DEF s, y, n
  <2> QED  BY <1>7, <1>20, <2>4, <2>5, <2>6, <2>7, <2>8, GateStep
<1>22. \A p \in Proc, k \in Entity : TableOK(p, k)'
  BY <1>1, <1>2, <1>5, <1>7, <1>15, TableStep DEF IInv
<1>23. \A k \in Entity : LeaseOK(k)'
  <2>1. CASE multi
    <3>1. \A k \in Entity : Holding(c, k)' <=> Holding(c, k)
      BY <1>2, <1>5, <1>15, <2>1 DEF Holding
    <3> QED  BY <1>1, <1>7, <3>1, LeaseSame DEF IInv
  <2>2. CASE ~ multi
    BY <1>1, <2>2 DEF IInv, LeaseOK
  <2> QED  BY <2>1, <2>2
<1> QED  BY <1>7, <1>14, <1>16, <1>19, <1>21, <1>22, <1>23, ContextStep

-----------------------------------------------------------------------------
(* 5. References are counted.                                              *)

LEMMA RefsAre ==
  ASSUME IInv
  PROVE  /\ \A r : r \in References <=> \E c \in Coroutine : \E i \in DOMAIN Entries(c) : r = <<c, i>>
         /\ \A p, k, r : r \in RefsTo(p, k) <=>
              \E c \in Coroutine : \E i \in DOMAIN Entries(c) :
                 r = <<c, i>> /\ home[c] = p /\ Entries(c)[i].key = k
<1>1. \A r : r \in References <=> \E c \in Coroutine : \E i \in DOMAIN Entries(c) : r = <<c, i>>
  BY DEF References
<1> QED  BY <1>1 DEF RefsTo

LEMMA RefsFinite ==
  ASSUME IInv
  PROVE  /\ References \subseteq Coroutine \X (1 .. 2)
         /\ IsFiniteSet(Coroutine \X (1 .. 2)) /\ IsFiniteSet(References)
         /\ Cardinality(Coroutine) \in Nat
         /\ Cardinality(Coroutine \X (1 .. 2)) = 2 * Cardinality(Coroutine)
         /\ \A p, k : IsFiniteSet(RefsTo(p, k))
<1>1. ASSUME NEW c \in Coroutine, NEW i \in DOMAIN Entries(c) PROVE i \in 1 .. 2
  <2>1. Len(Entries(c)) \in Nat /\ Len(Entries(c)) <= 2 /\ i \in 1 .. Len(Entries(c))
    BY EntriesOf
  <2> QED  BY <2>1
<1>2. References \subseteq Coroutine \X (1 .. 2)
  BY <1>1, RefsAre
<1>3. IsFiniteSet(1 .. 2) /\ Cardinality(1 .. 2) = 2
  <2>1. 1 \in Int /\ 2 \in Int
    OBVIOUS
  <2>2. IsFiniteSet(1 .. 2) /\ Cardinality(1 .. 2) = IF 1 > 2 THEN 0 ELSE 2 - 1 + 1
    BY <2>1, FS_Interval
  <2> QED  BY <2>2
<1>4. IsFiniteSet(Coroutine) /\ Cardinality(Coroutine) \in Nat
  BY Consts, FS_CardinalityType
<1>5. /\ IsFiniteSet(Coroutine \X (1 .. 2))
      /\ Cardinality(Coroutine \X (1 .. 2)) = Cardinality(Coroutine) * Cardinality(1 .. 2)
  BY <1>3, <1>4, FS_Product
<1>6. Cardinality(Coroutine \X (1 .. 2)) = 2 * Cardinality(Coroutine)
  BY <1>3, <1>4, <1>5
<1>7. IsFiniteSet(References)
  BY <1>2, <1>5, FS_Subset
<1>8. \A p, k : RefsTo(p, k) \subseteq References
  BY DEF RefsTo
<1>9. \A p, k : IsFiniteSet(RefsTo(p, k))
  BY <1>7, <1>8, FS_Subset
<1> QED  BY <1>2, <1>4, <1>5, <1>6, <1>7, <1>9

\* An entry counts in its table, and has the lock of its table.
LEMMA Referred ==
  ASSUME IInv, NEW c \in Coroutine, NEW i \in DOMAIN Entries(c)
  PROVE  /\ <<c, i>> \in RefsTo(home[c], Entries(c)[i].key)
         /\ Entries(c)[i].lock = table[home[c]][Entries(c)[i].key].lock
<1>1. <<c, i>> \in RefsTo(home[c], Entries(c)[i].key)
  BY RefsAre
<1>2. home[c] \in Proc /\ Entries(c)[i].key \in Entity
  <2>1. home[c] \in Proc
    BY DEF IInv, TypeOK
  <2>2. Entries(c)[i] \in Entry
    BY EntriesOf
  <2> QED  BY <2>1, <2>2 DEF Entry
<1>3. TableOK(home[c], Entries(c)[i].key)
  BY <1>2 DEF IInv
<1>4. Entries(c)[i].lock = table[home[c]][Entries(c)[i].key].lock
  BY <1>1, <1>3 DEF TableOK
<1> QED  BY <1>1, <1>4

\* A lock object is left for a context that has fewer than two entries: there are two for
\* each coroutine, and every lock of a table is the lock of an entry.
LEMMA Fresh ==
  ASSUME IInv, NEW c \in Coroutine, Len(Entries(c)) < 2
  PROVE  /\ FreshGate \in Gates
         /\ \A p \in Proc, k \in Entity : table[p][k].lock # FreshGate
<1> DEFINE f == [r \in References |-> Entries(r[1])[r[2]].lock]
           T == {f[r] : r \in References}
           P == Coroutine \X (1 .. 2)
           n == Cardinality(Coroutine)
<1>1. /\ References \subseteq P /\ IsFiniteSet(P) /\ IsFiniteSet(References)
      /\ n \in Nat /\ Cardinality(P) = 2 * n
  BY RefsFinite
<1>2. <<c, 2>> \in P /\ <<c, 2>> \notin References
  <2>1. 2 \notin DOMAIN Entries(c)
    BY EntriesOf
  <2> QED  BY <2>1, RefsAre
<1>3. Cardinality(References) \in Nat /\ Cardinality(References) < 2 * n
  <2>1. /\ Cardinality(References) \in Nat /\ Cardinality(References) <= Cardinality(P)
        /\ Cardinality(P) = Cardinality(References) => P = References
    BY <1>1, FS_Subset, FS_CardinalityType
  <2>2. Cardinality(P) # Cardinality(References)
    BY <1>2, <2>1
  <2> HIDE DEF P, n
  <2> QED  BY <1>1, <2>1, <2>2
<1>4. IsFiniteSet(T) /\ Cardinality(T) <= Cardinality(References)
  <2>1. f \in Surjection(References, T)
    BY DEF Surjection
  <2> HIDE DEF f, T
  <2> QED  BY <1>1, <2>1, FS_Surjection
<1>5. Cardinality(Gates) = 2 * n
  <2> DEFINE m == 2 * n
  <2>1. m \in Nat
    BY <1>1
  <2> HIDE DEF m
  <2>2. Cardinality(1 .. m) = m
    BY <2>1, FS_Interval
  <2> QED  BY <2>2 DEF Gates, m
<1>6. PICK g \in Gates : g \notin T
  <2> SUFFICES ASSUME Gates \subseteq T PROVE FALSE
    OBVIOUS
  <2> HIDE DEF T
  <2>1. Cardinality(Gates) <= Cardinality(T)
    BY <1>4, FS_Subset
  <2>2. Cardinality(T) \in Nat
    BY <1>4, FS_CardinalityType
  <2> HIDE DEF n
  <2> QED  BY <1>1, <1>3, <1>4, <1>5, <2>1, <2>2
<1>7. \A d \in Coroutine : \A i \in DOMAIN Entries(d) : Entries(d)[i].lock \in T
  <2> SUFFICES ASSUME NEW d \in Coroutine, NEW i \in DOMAIN Entries(d)
               PROVE  Entries(d)[i].lock \in T
    OBVIOUS
  <2>1. <<d, i>> \in References
    BY RefsAre
  <2>2. f[<<d, i>>] = Entries(d)[i].lock
    BY <2>1
  <2> HIDE DEF f
  <2> QED  BY <2>1, <2>2
<1>8. \A p \in Proc, k \in Entity : table[p][k].lock \in T \cup {NoGate}
  <2> SUFFICES ASSUME NEW p \in Proc, NEW k \in Entity, table[p][k].lock # NoGate
               PROVE  table[p][k].lock \in T
    OBVIOUS
  <2>1. TableOK(p, k)
    BY DEF IInv
  <2>2. Cardinality(RefsTo(p, k)) # 0
    BY <2>1 DEF TableOK
  <2>3. PICK r : r \in RefsTo(p, k)
    BY <2>2, FS_EmptySet
  <2>4. Entries(r[1])[r[2]].lock = table[p][k].lock
    BY <2>1, <2>3 DEF TableOK
  <2>5. PICK d \in Coroutine : \E i \in DOMAIN Entries(d) : r = <<d, i>>
    BY <2>3, RefsAre
  <2> HIDE DEF T
  <2> QED  BY <1>7, <2>4, <2>5
<1>9. NoGate \notin Gates
  BY DEF NoGate, Gates
<1> HIDE DEF T, f
<1>10. /\ \A p \in Proc, k \in Entity : table[p][k].lock # g
       /\ \A d \in Coroutine : \A i \in DOMAIN Entries(d) : Entries(d)[i].lock # g
  BY <1>6, <1>7, <1>8, <1>9
<1> QED  BY <1>6, <1>10 DEF FreshGate

\* One more entry, of k.
LEMMA RefsAdded ==
  ASSUME NEW c \in Coroutine, OthersSame(c), NEW p, p = home[c], NEW k, NEW m,
         m \notin DOMAIN Entries(c), DOMAIN Entries(c)' = DOMAIN Entries(c) \cup {m},
         Entries(c)'[m].key = k,
         \A i \in DOMAIN Entries(c) : /\ Entries(c)'[i].key = Entries(c)[i].key
                                      /\ Entries(c)'[i].lock = Entries(c)[i].lock
  PROVE  /\ RefsTo(p, k)' = RefsTo(p, k) \cup {<<c, m>>} /\ <<c, m>> \notin RefsTo(p, k)
         /\ \A q, j : q # p \/ j # k => RefsTo(q, j)' = RefsTo(q, j)
         /\ \A q, j : \A r \in RefsTo(q, j) : Entries(r[1])'[r[2]].lock = Entries(r[1])[r[2]].lock
<1>1. \A d \in Coroutine : d # c => Entries(d)' = Entries(d)
  BY DEF OthersSame, Entries
<1>2. \A r : r \in References <=> \E d \in Coroutine : \E i \in DOMAIN Entries(d) : r = <<d, i>>
  BY DEF References
<1>3. \A r : r \in References' <=> \E d \in Coroutine : \E i \in DOMAIN Entries(d)' : r = <<d, i>>
  BY DEF References
<1>4. <<c, m>> \notin References
  BY <1>2
<1>5. References' = References \cup {<<c, m>>}
  <2>1. \A r : r \in References' <=> r \in References \/ r = <<c, m>>
    BY <1>1, <1>2, <1>3
  <2> QED  BY <2>1
<1>6. \A r \in References : /\ Entries(r[1])'[r[2]].key = Entries(r[1])[r[2]].key
                            /\ Entries(r[1])'[r[2]].lock = Entries(r[1])[r[2]].lock
  BY <1>1, <1>2
<1>7. ASSUME NEW q, NEW j, NEW r
      PROVE  r \in RefsTo(q, j)' <=> r \in RefsTo(q, j) \/ (r = <<c, m>> /\ q = p /\ j = k)
  <2>1. home' = home
    BY DEF OthersSame
  <2>2. r \in RefsTo(q, j)' <=>
          r \in References' /\ home[r[1]] = q /\ Entries(r[1])'[r[2]].key = j
    BY <2>1 DEF RefsTo
  <2>3. r \in RefsTo(q, j) <=>
          r \in References /\ home[r[1]] = q /\ Entries(r[1])[r[2]].key = j
    BY DEF RefsTo
  <2>4. CASE r = <<c, m>>
    <3>1. r \in References' /\ r \notin References
      BY <1>4, <1>5, <2>4
    <3>2. Entries(r[1])'[r[2]].key = k /\ home[r[1]] = p
      BY <2>4
    <3> QED  BY <2>2, <2>3, <2>4, <3>1, <3>2
  <2>5. CASE r # <<c, m>>
    BY <1>5, <1>6, <2>2, <2>3, <2>5
  <2> QED  BY <2>4, <2>5
<1>8. RefsTo(p, k)' = RefsTo(p, k) \cup {<<c, m>>}
  <2>1. \A r : r \in RefsTo(p, k)' <=> r \in RefsTo(p, k) \/ r = <<c, m>>
    BY <1>7
  <2> QED  BY <2>1
<1>9. \A q, j : q # p \/ j # k => RefsTo(q, j)' = RefsTo(q, j)
  <2> SUFFICES ASSUME NEW q, NEW j, q # p \/ j # k
               PROVE  RefsTo(q, j)' = RefsTo(q, j)
    OBVIOUS
  <2>1. \A r : r \in RefsTo(q, j)' <=> r \in RefsTo(q, j)
    BY <1>7
  <2> QED  BY <2>1
<1>10. <<c, m>> \notin RefsTo(p, k)
  BY <1>4 DEF RefsTo
<1>11. \A q, j : \A r \in RefsTo(q, j) : r \in References
  BY DEF RefsTo
<1> QED  BY <1>6, <1>8, <1>9, <1>10, <1>11

\* One entry less, of k.
LEMMA RefsRemoved ==
  ASSUME NEW c \in Coroutine, OthersSame(c), NEW p, p = home[c], NEW k, NEW m,
         m \notin DOMAIN Entries(c)', DOMAIN Entries(c) = DOMAIN Entries(c)' \cup {m},
         Entries(c)[m].key = k,
         \A i \in DOMAIN Entries(c)' : /\ Entries(c)'[i].key = Entries(c)[i].key
                                       /\ Entries(c)'[i].lock = Entries(c)[i].lock
  PROVE  /\ RefsTo(p, k)' = RefsTo(p, k) \ {<<c, m>>} /\ <<c, m>> \in RefsTo(p, k)
         /\ \A q, j : q # p \/ j # k => RefsTo(q, j)' = RefsTo(q, j)
         /\ \A q, j : \A r \in RefsTo(q, j)' : Entries(r[1])'[r[2]].lock = Entries(r[1])[r[2]].lock
<1>1. \A d \in Coroutine : d # c => Entries(d)' = Entries(d)
  BY DEF OthersSame, Entries
<1>2. \A r : r \in References <=> \E d \in Coroutine : \E i \in DOMAIN Entries(d) : r = <<d, i>>
  BY DEF References
<1>3. \A r : r \in References' <=> \E d \in Coroutine : \E i \in DOMAIN Entries(d)' : r = <<d, i>>
  BY DEF References
<1>4. <<c, m>> \in References
  BY <1>2
<1>5. References' = References \ {<<c, m>>}
  <2>1. \A r : r \in References' <=> r \in References /\ r # <<c, m>>
    BY <1>1, <1>2, <1>3
  <2> QED  BY <2>1
<1>6. \A r \in References' : /\ Entries(r[1])'[r[2]].key = Entries(r[1])[r[2]].key
                             /\ Entries(r[1])'[r[2]].lock = Entries(r[1])[r[2]].lock
  BY <1>1, <1>3
<1>7. ASSUME NEW q, NEW j, NEW r
      PROVE  r \in RefsTo(q, j) <=> r \in RefsTo(q, j)' \/ (r = <<c, m>> /\ q = p /\ j = k)
  <2>1. home' = home
    BY DEF OthersSame
  <2>2. r \in RefsTo(q, j)' <=>
          r \in References' /\ home[r[1]] = q /\ Entries(r[1])'[r[2]].key = j
    BY <2>1 DEF RefsTo
  <2>3. r \in RefsTo(q, j) <=>
          r \in References /\ home[r[1]] = q /\ Entries(r[1])[r[2]].key = j
    BY DEF RefsTo
  <2>4. CASE r = <<c, m>>
    <3>1. r \notin References' /\ r \in References
      BY <1>4, <1>5, <2>4
    <3>2. Entries(r[1])[r[2]].key = k /\ home[r[1]] = p
      BY <2>4
    <3> QED  BY <2>2, <2>3, <2>4, <3>1, <3>2
  <2>5. CASE r # <<c, m>>
    BY <1>5, <1>6, <2>2, <2>3, <2>5
  <2> QED  BY <2>4, <2>5
<1>8. <<c, m>> \notin RefsTo(p, k)'
  BY <1>5 DEF RefsTo
<1>9. RefsTo(p, k)' = RefsTo(p, k) \ {<<c, m>>} /\ <<c, m>> \in RefsTo(p, k)
  <2>1. \A r : r \in RefsTo(p, k) <=> r \in RefsTo(p, k)' \/ r = <<c, m>>
    BY <1>7
  <2> QED  BY <1>8, <2>1
<1>10. \A q, j : q # p \/ j # k => RefsTo(q, j)' = RefsTo(q, j)
  <2> SUFFICES ASSUME NEW q, NEW j, q # p \/ j # k
               PROVE  RefsTo(q, j)' = RefsTo(q, j)
    OBVIOUS
  <2>1. \A r : r \in RefsTo(q, j)' <=> r \in RefsTo(q, j)
    BY <1>7
  <2> QED  BY <2>1
<1>11. \A q, j : \A r \in RefsTo(q, j)' : r \in References'
  BY DEF RefsTo
<1> QED  BY <1>6, <1>9, <1>10, <1>11

-----------------------------------------------------------------------------
(* 6. Entries come and go.                                                 *)

\* The next key: one entry more, of the lock of its table, which is made when it is not
\* there.
LEMMA TakeKeyStep ==
  ASSUME IInv, NEW c \in Coroutine, TakeKey(c)
  PROVE  IInv'
<1> DEFINE y == ctx[c]
           n == Len(ctx[c].ul)
<1>1. /\ y \in Context /\ ContextOK(c) /\ TypeOK /\ y.at = "next" /\ n < Len(y.keys)
      /\ UNCHANGED <<multi, home, lease, budget>>
  BY EntriesOf DEF IInv, TakeKey, At
<1>2. /\ Entries(c) = y.ul /\ y.cleanup = <<>> /\ y.ul \in Seq(Entry) /\ y.keys \in Seq(Entity)
      /\ n \in Nat /\ DOMAIN y.ul = 1 .. n /\ Len(y.keys) \in Nat /\ Len(y.keys) <= 2
      /\ n + 1 \in 1 .. Len(y.keys)
  <2>1. y.ul \in Seq(Entry) /\ y.keys \in Seq(Entity)
    BY <1>1 DEF Context
  <2>2. Entries(c) = y.ul /\ y.cleanup = <<>> /\ Len(y.keys) <= 2
    BY <1>1, EntriesOf DEF ContextOK, CleaningUp
  <2>3. n \in Nat /\ DOMAIN y.ul = 1 .. n /\ Len(y.keys) \in Nat
    BY <2>1, LenProperties
  <2> DEFINE l == Len(y.keys)
  <2>4. l \in Nat /\ n < l
    BY <1>1, <2>3
  <2> HIDE DEF l, n
  <2>5. n + 1 \in 1 .. l
    BY <2>3, <2>4
  <2> QED  BY <2>1, <2>2, <2>3, <2>5 DEF l
<1>m. PICK m \in Nat : m = n + 1
  BY <1>2
<1>n. m \in 1 .. Len(y.keys)
  BY <1>2, <1>m
<1>3. PICK p \in Proc, k \in Entity : p = home[c] /\ k = y.keys[m]
  <2>1. home[c] \in Proc
    BY <1>1 DEF TypeOK
  <2>2. y.keys[m] \in Entity
    BY <1>2, <1>n, ElementOfSeq
  <2> QED  BY <2>1, <2>2
<1>4. PICK e \in [lock : Gates, count : Nat] :
        /\ e = GetOrCreate(table[p][k])
        /\ e.count = table[p][k].count + 1
        /\ table[p][k].lock # NoGate => e.lock = table[p][k].lock
  <2>1. table[p][k] \in [lock : Gates \cup {NoGate}, count : Nat]
    BY <1>1 DEF TypeOK
  <2>2. FreshGate \in Gates
    <3>1. n < 2
      <4> DEFINE l == Len(y.keys)
      <4>1. l \in Nat /\ l <= 2 /\ n < l /\ n \in Nat
        BY <1>1, <1>2
      <4> HIDE DEF l, n
      <4> QED  BY <4>1
    <3>2. Len(Entries(c)) < 2
      BY <1>2, <3>1
    <3> QED  BY <3>2, Fresh
  <2>3. GetOrCreate(table[p][k]) \in [lock : Gates, count : Nat]
    BY <2>1, <2>2 DEF GetOrCreate
  <2> QED  BY <2>1, <2>3 DEF GetOrCreate
<1>5. PICK g \in Gates : g = e.lock
  OBVIOUS
<1> DEFINE new == [key |-> k, lock |-> g, entered |-> FALSE]
           after == [y EXCEPT !.ul = Append(y.ul, new)]
           free == FreeGate(gate[g])
           x == IF free THEN IF multi THEN [after EXCEPT !.at = "lease"] ELSE Enter(after)
                        ELSE [after EXCEPT !.at = "gate"]
<1>6. /\ table' = [table EXCEPT ![p][k] = e]
      /\ gate' = IF free THEN [gate EXCEPT ![g].holder = c]
                         ELSE [gate EXCEPT ![g].waiters = Append(@, c)]
      /\ ctx' = [ctx EXCEPT ![c] = x]
      /\ Continue(c) \/ Suspend(c)
  BY <1>m, <1>3, <1>4, <1>5 DEF TakeKey
<1>7. /\ after \in Context /\ after.keys = y.keys /\ after.cleanup = <<>> /\ after.ul # <<>>
      /\ Len(after.ul) = m /\ DOMAIN after.ul = 1 .. m /\ after.ul[m] = new
      /\ \A i \in 1 .. n : after.ul[i] = y.ul[i]
  <2> DEFINE u == Append(y.ul, new)
  <2>1. new \in Entry
    BY DEF Entry
  <2> HIDE DEF new
  <2>2. /\ u \in Seq(Entry) /\ u # <<>> /\ Len(u) = m /\ u[m] = new
        /\ \A i \in 1 .. n : u[i] = y.ul[i]
    BY <1>m, <1>2, <2>1, AppendProperties
  <2>3. DOMAIN u = 1 .. m
    BY <2>2, LenProperties
  <2> HIDE DEF u
  <2>4. /\ [y EXCEPT !.ul = u] \in Context /\ [y EXCEPT !.ul = u].ul = u
        /\ [y EXCEPT !.ul = u].keys = y.keys /\ [y EXCEPT !.ul = u].cleanup = y.cleanup
    BY <1>1, <2>2 DEF Context
  <2> QED  BY <1>2, <2>2, <2>3, <2>4 DEF u
<1> HIDE DEF after
<1>8. /\ x \in Context /\ x.keys = y.keys /\ x.cleanup = <<>> /\ x.ul # <<>>
      /\ x.at = IF free THEN IF multi THEN "lease" ELSE "next" ELSE "gate"
      /\ Len(x.ul) = m /\ DOMAIN x.ul = 1 .. m
      /\ x.ul[m].key = k /\ x.ul[m].lock = g /\ (x.ul[m].entered <=> free /\ ~ multi)
      /\ \A i \in 1 .. n : /\ x.ul[i].key = y.ul[i].key /\ x.ul[i].lock = y.ul[i].lock
                           /\ x.ul[i].entered <=> y.ul[i].entered
  <2>1. ASSUME NEW a \in {"lease", "gate"}, x = [after EXCEPT !.at = a]
        PROVE  x \in Context /\ x.at = a /\ x.keys = y.keys /\ x.cleanup = <<>> /\ x.ul = after.ul
    <3>1. a \in Place
      BY DEF Place
    <3> HIDE DEF x
    <3>2. x \in Context /\ x = [at |-> a, keys |-> after.keys, ul |-> after.ul, cleanup |-> after.cleanup]
      <4>1. after \in Context
        BY <1>7
      <4>2. /\ [after EXCEPT !.at = a] \in Context
            /\ [after EXCEPT !.at = a] =
                 [at |-> a, keys |-> after.keys, ul |-> after.ul, cleanup |-> after.cleanup]
        BY <3>1, <4>1, Updated
      <4> QED  BY <2>1, <4>2
    <3> QED  BY <1>7, <3>2
  <2>2. CASE ~ free
    <3>1. x = [after EXCEPT !.at = "gate"]
      BY <2>2
    <3>2. x \in Context /\ x.at = "gate" /\ x.keys = y.keys /\ x.cleanup = <<>> /\ x.ul = after.ul
      BY <2>1, <3>1
    <3> HIDE DEF x, free
    <3> QED  BY <1>7, <2>2, <3>2
  <2>3. CASE free /\ multi
    <3>1. x = [after EXCEPT !.at = "lease"]
      BY <2>3
    <3>2. x \in Context /\ x.at = "lease" /\ x.keys = y.keys /\ x.cleanup = <<>> /\ x.ul = after.ul
      BY <2>1, <3>1
    <3> HIDE DEF x, free
    <3> QED  BY <1>7, <2>3, <3>2
  <2>4. CASE free /\ ~ multi
    <3>1. x = Enter(after)
      BY <2>4
    <3> HIDE DEF x, free
    <3>2. /\ x \in Context /\ x.at = "next" /\ x.keys = after.keys
          /\ x.cleanup = after.cleanup /\ x.ul # <<>>
          /\ Len(x.ul) = Len(after.ul) /\ DOMAIN x.ul = DOMAIN after.ul
          /\ \A i \in DOMAIN after.ul : /\ x.ul[i].key = after.ul[i].key
                                        /\ x.ul[i].lock = after.ul[i].lock
                                        /\ x.ul[i].entered <=> after.ul[i].entered \/ i = Len(after.ul)
      BY <1>7, <3>1, Entered
    <3>3. m \in 1 .. m /\ \A i \in 1 .. n : i \in 1 .. m /\ i # m
      BY <1>m, <1>2
    <3>4. new.key = k /\ new.lock = g
      OBVIOUS
    <3> HIDE DEF n, new
    <3> QED  BY <1>7, <2>4, <3>2, <3>3, <3>4
  <2> QED  BY <2>2, <2>3, <2>4
<1> HIDE DEF x, free, new
<1>9. /\ ctx' \in [Coroutine -> Context] /\ ctx'[c] = x
      /\ \A d \in Coroutine : d # c => ctx'[d] = ctx[d]
  BY <1>1, <1>6, <1>8, SetContext
<1>10. OthersSame(c)
  BY <1>1, <1>9 DEF OthersSame
<1>11. Entries(c)' = x.ul
  <2>1. Entries(c)' = x.ul \o <<>> /\ x.ul \in Seq(Entry)
    BY <1>8, <1>9 DEF Entries, Context
  <2> QED  BY <2>1, Joined
<1>12. gate[g] \in [holder : Coroutine \cup {Nobody}, waiters : Seq(Coroutine)] /\ GateOK(g)
  BY <1>1 DEF IInv, TypeOK
<1> DEFINE s == gate[g].waiters
<1>13. /\ Append(s, c) \in Seq(Coroutine)
       /\ ~ In(c, s) => NoRepeat(Append(s, c))
       /\ \A d : In(d, Append(s, c)) <=> In(d, s) \/ d = c
  <2>1. s \in Seq(Coroutine) /\ Len(s) \in Nat /\ DOMAIN s = 1 .. Len(s) /\ NoRepeat(s)
    BY <1>12, LenProperties DEF GateOK
  <2> DEFINE t == Append(s, c)
             l == Len(s)
  <2>2. /\ t \in Seq(Coroutine) /\ Len(t) = l + 1 /\ t[l + 1] = c
        /\ \A i \in 1 .. l : t[i] = s[i]
    BY <2>1, AppendProperties
  <2>3. DOMAIN t = 1 .. (l + 1)
    BY <2>2, LenProperties
  <2>4. l \in Nat /\ DOMAIN s = 1 .. l
    BY <2>1
  <2> HIDE DEF t, l, s
  <2>5. \A i : i \in DOMAIN t <=> i \in DOMAIN s \/ i = l + 1
    BY <2>3, <2>4
  <2>6. \A d : In(d, t) <=> In(d, s) \/ d = c
    BY <2>2, <2>4, <2>5 DEF In
  <2>7. ~ In(c, s) => NoRepeat(t)
    BY <2>1, <2>2, <2>4, <2>5 DEF In, NoRepeat
  <2> QED  BY <2>2, <2>6, <2>7 DEF t
<1>14. /\ gate'[g].holder = IF free THEN c ELSE gate[g].holder
       /\ gate'[g].waiters = IF free THEN s ELSE Append(s, c)
       /\ \A h \in Gates : h # g => gate'[h] = gate[h]
  BY <1>1, <1>6 DEF TypeOK
<1>15. gate' \in [Gates -> [holder : Coroutine \cup {Nobody}, waiters : Seq(Coroutine)]]
  <2>1. CASE free
    BY <1>1, <1>6, <2>1 DEF TypeOK
  <2>2. CASE ~ free
    <3> DEFINE t == Append(s, c)
    <3>1. gate' = [gate EXCEPT ![g].waiters = t] /\ t \in Seq(Coroutine)
      BY <1>6, <1>13, <2>2
    <3> HIDE DEF t
    <3> QED  BY <1>1, <3>1 DEF TypeOK
  <2> QED  BY <2>1, <2>2
<1>16. table' \in [Proc -> [Entity -> [lock : Gates \cup {NoGate}, count : Nat]]]
  <2>1. e \in [lock : Gates \cup {NoGate}, count : Nat]
    OBVIOUS
  <2> QED  BY <1>1, <1>6, <2>1 DEF TypeOK
<1>17. running' \in [Proc -> Coroutine \cup {Nobody}]
  BY <1>1, <1>6 DEF Continue, Suspend, TypeOK
<1>18. TypeOK'
  BY <1>1, <1>9, <1>15, <1>16, <1>17 DEF TypeOK
<1>19. ContextOK(c)'
  <2>1. x.at \notin CleaningUp /\ x.at # "new"
    BY <1>8 DEF CleaningUp
  <2>2. x.at \in {"gate", "lease"} => ~ x.ul[m].entered
    BY <1>8
  <2>3. LastEntry(c)' = x.ul[m]
    BY <1>8, <1>9 DEF LastEntry, Last
  <2>4. Len(x.keys) <= 2 /\ Len(x.ul) <= Len(x.keys)
    BY <1>m, <1>2, <1>8
  <2>5. x.at = "lease" => multi
    BY <1>8
  <2> QED  BY <1>1, <1>8, <1>9, <2>1, <2>2, <2>3, <2>4, <2>5 DEF ContextOK, At
<1>20. /\ DOMAIN Entries(c) = 1 .. n /\ DOMAIN Entries(c)' = 1 .. m
       /\ m \in 1 .. m /\ m \notin 1 .. n /\ 1 .. m = (1 .. n) \cup {m}
  BY <1>m, <1>2, <1>8, <1>11
<1>21. /\ \A i \in 1 .. n : Owning(c, i)' <=> Owning(c, i)
       /\ Owning(c, m)' <=> free
  <2>1. \A i \in 1 .. n : i # m
    BY <1>20
  <2>2. \A i \in 1 .. n : Owning(c, i) <=> y.ul[i].entered
    BY <1>1, <1>2 DEF Owning, At
  <2>3. \A i \in 1 .. m : Owning(c, i)' <=> x.ul[i].entered \/ (x.at = "lease" /\ i = m)
    BY <1>8, <1>9, <1>11 DEF Owning, At
  <2>4. \A i \in 1 .. n : i \in 1 .. m
    BY <1>20
  <2> HIDE DEF n
  <2>5. \A i \in 1 .. n : Owning(c, i)' <=> Owning(c, i)
    BY <1>8, <2>1, <2>2, <2>3, <2>4
  <2>6. Owning(c, m)' <=> free
    <3>1. Owning(c, m)' <=> x.ul[m].entered \/ x.at = "lease"
      BY <1>20, <2>3
    <3>2. (x.at = "lease" <=> free /\ multi) /\ (x.ul[m].entered <=> free /\ ~ multi)
      BY <1>8
    <3> QED  BY <3>1, <3>2
  <2> QED  BY <2>5, <2>6
<1>22. \A i \in 1 .. n : free /\ Owning(c, i) => Entries(c)[i].lock # g
  <2>1. free => ~ Owns(c, g)
    BY <1>12, Consts DEF GateOK, free, FreeGate
  <2> QED  BY <1>20, <2>1 DEF Owns
<1>23. OwnsOnce(c)'
  <2> SUFFICES ASSUME NEW i \in 1 .. m, NEW j \in 1 .. m, Owning(c, i)', Owning(c, j)',
                      x.ul[i].lock = x.ul[j].lock
               PROVE  i = j
    BY <1>11, <1>20 DEF OwnsOnce
  <2> HIDE DEF n
  <2>1. CASE i \in 1 .. n /\ j \in 1 .. n
    BY <1>2, <1>8, <1>20, <1>21, <2>1 DEF IInv, OwnsOnce
  <2>a. ASSUME NEW h \in 1 .. n, Owning(c, h)', Owning(c, m)' PROVE x.ul[h].lock # x.ul[m].lock
    <3>1. free /\ Owning(c, h)
      BY <1>21, <2>a
    <3>2. Entries(c)[h].lock # g
      BY <1>22, <3>1
    <3>3. x.ul[h].lock = Entries(c)[h].lock /\ x.ul[m].lock = g
      BY <1>2, <1>8
    <3> QED  BY <3>2, <3>3
  <2>2. CASE i = m /\ j \in 1 .. n
    BY <2>2, <2>a
  <2>3. CASE j = m /\ i \in 1 .. n
    BY <2>3, <2>a
  <2> QED  BY <1>20, <2>1, <2>2, <2>3
<1>24. ~ Waits(c, g) /\ \A h \in Gates : ~ Waits(c, h)
  BY <1>1 DEF Waits, At
<1>25. \A h \in Gates : Waits(c, h)' <=> ~ free /\ h = g
  <2>1. LastEntry(c)' = x.ul[m]
    BY <1>8, <1>9 DEF LastEntry, Last
  <2>2. x.at = "gate" <=> ~ free
    BY <1>8
  <2> QED  BY <1>8, <1>9, <2>1, <2>2 DEF Waits, At
<1>26. \A h \in Gates : Owns(c, h)' <=> Owns(c, h) \/ (free /\ h = g)
  <2> SUFFICES ASSUME NEW h \in Gates
               PROVE  Owns(c, h)' <=> Owns(c, h) \/ (free /\ h = g)
    OBVIOUS
  <2>1. Owns(c, h)' <=> \E i \in 1 .. m : x.ul[i].lock = h /\ Owning(c, i)'
    BY <1>11, <1>20 DEF Owns
  <2>2. Owns(c, h) <=> \E i \in 1 .. n : y.ul[i].lock = h /\ Owning(c, i)
    BY <1>2, <1>20 DEF Owns
  <2>3. x.ul[m].lock = g /\ \A i \in 1 .. n : x.ul[i].lock = y.ul[i].lock
    BY <1>8
  <2> HIDE DEF n, y
  <2>4. \A i : i \in 1 .. m <=> i \in 1 .. n \/ i = m
    BY <1>20
  <2> QED  BY <1>21, <2>1, <2>2, <2>3, <2>4
<1>27. \A h \in Gates : GateOK(h)'
  <2>1. \A d \in Coroutine : d # c =>
            /\ gate'[g].holder = d <=> gate[g].holder = d
            /\ In(d, gate'[g].waiters) <=> In(d, gate[g].waiters)
    BY <1>13, <1>14, Consts DEF free, FreeGate
  <2>2. gate'[g].holder = c <=> Owns(c, g)'
    BY <1>12, <1>14, <1>26 DEF GateOK
  <2>3. ~ In(c, s)
    BY <1>12, <1>24 DEF GateOK
  <2>4. In(c, gate'[g].waiters) <=> Waits(c, g)'
    BY <1>13, <1>14, <1>25, <2>3
  <2>5. NoRepeat(gate'[g].waiters)
    BY <1>12, <1>13, <1>14, <2>3 DEF GateOK
  <2>6. \A h \in Gates : h # g => /\ gate'[h] = gate[h]
                                  /\ Owns(c, h)' <=> Owns(c, h)
                                  /\ Waits(c, h)' <=> Waits(c, h)
    BY <1>14, <1>24, <1>25, <1>26
  <2>7. \A h \in Gates : GateOK(h)
    BY DEF IInv
  <2> HIDE DEF s, y, n
  <2> QED  BY <1>10, <2>1, <2>2, <2>4, <2>5, <2>6, <2>7, GateStep
<1>28. \A j \in Entity : LeaseOK(j)'
  <2>1. CASE multi
    <3> SUFFICES ASSUME NEW j \in Entity PROVE Holding(c, j)' <=> Holding(c, j)
      BY <1>1, <1>10, <2>1, LeaseSame DEF IInv
    <3>1. Holding(c, j)' <=> \E i \in 1 .. m : x.ul[i].key = j /\ x.ul[i].entered
      BY <1>11, <1>20 DEF Holding
    <3>2. Holding(c, j) <=> \E i \in 1 .. n : y.ul[i].key = j /\ y.ul[i].entered
      BY <1>2, <1>20 DEF Holding
    <3> HIDE DEF n
    <3> QED  BY <1>8, <1>20, <2>1, <3>1, <3>2
  <2>2. CASE ~ multi
    BY <1>1, <2>2 DEF IInv, LeaseOK
  <2> QED  BY <2>1, <2>2
<1>29. ASSUME NEW q \in Proc, NEW j \in Entity PROVE TableOK(q, j)'
  <2>1. /\ RefsTo(p, k)' = RefsTo(p, k) \cup {<<c, m>>} /\ <<c, m>> \notin RefsTo(p, k)
        /\ q # p \/ j # k => RefsTo(q, j)' = RefsTo(q, j)
        /\ \A r \in RefsTo(q, j) : Entries(r[1])'[r[2]].lock = Entries(r[1])[r[2]].lock
    <3>1. /\ m \notin DOMAIN Entries(c) /\ DOMAIN Entries(c)' = DOMAIN Entries(c) \cup {m}
          /\ Entries(c)'[m].key = k
          /\ \A i \in DOMAIN Entries(c) : /\ Entries(c)'[i].key = Entries(c)[i].key
                                          /\ Entries(c)'[i].lock = Entries(c)[i].lock
      BY <1>2, <1>8, <1>11, <1>20
    <3> QED  BY <1>3, <1>10, <3>1, RefsAdded
  <2>2. TableOK(q, j) /\ TableOK(p, k)
    BY DEF IInv
  <2>3. CASE q # p \/ j # k
    <3>1. table'[q][j] = table[q][j]
      BY <1>1, <1>6, <2>3 DEF TypeOK
    <3> QED  BY <2>1, <2>2, <2>3, <3>1 DEF TableOK
  <2>4. CASE q = p /\ j = k
    <3>1. table'[p][k] = e
      BY <1>1, <1>6 DEF TypeOK
    <3>2. Cardinality(RefsTo(p, k)') = Cardinality(RefsTo(p, k)) + 1
      <4>1. IsFiniteSet(RefsTo(p, k))
        BY RefsFinite
      <4> QED  BY <2>1, <4>1, FS_AddElement
    <3>3. e.count = Cardinality(RefsTo(p, k)')
      BY <1>4, <2>2, <3>2 DEF TableOK
    <3>4. e.count # 0 /\ e.lock # NoGate
      <4>1. table[p][k].count \in Nat
        BY <1>1 DEF TypeOK
      <4> QED  BY <1>4, <4>1 DEF Gates, NoGate
    <3>5. ASSUME NEW r \in RefsTo(p, k)' PROVE Entries(r[1])'[r[2]].lock = e.lock
      <4>1. CASE r = <<c, m>>
        BY <1>5, <1>8, <1>11, <4>1
      <4>2. CASE r \in RefsTo(p, k)
        <5>1. table[p][k].lock # NoGate
          <6>1. RefsTo(p, k) # {} /\ IsFiniteSet(RefsTo(p, k))
            BY <4>2, RefsFinite
          <6>2. Cardinality(RefsTo(p, k)) # 0
            BY <6>1, FS_EmptySet
          <6> QED  BY <2>2, <6>2 DEF TableOK
        <5>2. Entries(r[1])'[r[2]].lock = table[p][k].lock
          BY <2>1, <2>2, <2>4, <4>2 DEF TableOK
        <5> QED  BY <1>4, <5>1, <5>2
      <4> QED  BY <2>1, <4>1, <4>2
    <3> QED  BY <2>4, <3>1, <3>3, <3>4, <3>5 DEF TableOK
  <2> QED  BY <2>3, <2>4
<1> QED  BY <1>10, <1>18, <1>19, <1>23, <1>27, <1>28, <1>29, ContextStep

LEMMA FrontOf ==
  ASSUME NEW S, NEW s \in Seq(S), s # <<>>
  PROVE  \E n \in Nat : /\ Len(s) = n + 1 /\ DOMAIN s = 1 .. (n + 1) /\ Last(s) = s[n + 1]
                        /\ Front(s) \in Seq(S) /\ Len(Front(s)) = n /\ DOMAIN Front(s) = 1 .. n
                        /\ \A i \in 1 .. n : Front(s)[i] = s[i]
<1> DEFINE l == Len(s)
           t == SubSeq(s, 1, l - 1)
<1>1. l \in Nat \ {0} /\ DOMAIN s = 1 .. l
  BY EmptySeq, LenProperties
<1>2. \A i \in 1 .. l : s[i] \in S
  BY <1>1, ElementOfSeq
<1> HIDE DEF l
<1>3. 1 \in Int /\ l - 1 \in Int /\ \A i \in 1 .. (l - 1) : s[i] \in S
  BY <1>1, <1>2
<1>4. /\ t \in Seq(S)
      /\ Len(t) = IF 1 <= l - 1 THEN (l - 1) - 1 + 1 ELSE 0
      /\ \A i \in 1 .. ((l - 1) - 1 + 1) : t[i] = s[1 + i - 1]
  BY <1>3, SubSeqProperties
<1> HIDE DEF t
<1>5. Len(t) = l - 1 /\ DOMAIN t = 1 .. (l - 1)
  BY <1>1, <1>4, LenProperties
<1>6. \A i \in 1 .. (l - 1) : t[i] = s[i]
  BY <1>1, <1>4
<1>7. l - 1 \in Nat /\ (l - 1) + 1 = l
  BY <1>1
<1>8. Last(s) = s[l] /\ Front(s) = t /\ Len(s) = l
  BY DEF Last, Front, l, t
<1> QED  BY <1>1, <1>4, <1>5, <1>6, <1>7, <1>8

\* The last entry goes: its lease, its gate, its reference.
LEMMA CleanUpStep ==
  ASSUME IInv, NEW c \in Coroutine, NEW raised, CleanUp(c, raised),
         budget' \in 0 .. MaxTroubles
  PROVE  IInv'
<1> DEFINE y == ctx[c]
           z == ctx[c].cleanup
           rest == Front(z)
           x == [y EXCEPT !.cleanup = rest]
<1>1. y \in Context /\ ContextOK(c) /\ TypeOK /\ z # <<>> /\ UNCHANGED <<multi, home>>
  BY EntriesOf DEF IInv, CleanUp
<1>2. /\ y.at \in CleaningUp /\ y.ul = <<>> /\ Len(z) <= 2 /\ Entries(c) = z /\ z \in Seq(Entry)
  <2>1. y.at \in CleaningUp
    BY <1>1 DEF ContextOK
  <2> QED  BY <1>1, <2>1, EntriesOf DEF ContextOK, Context
<1>3. PICK n \in Nat : /\ Len(z) = n + 1 /\ DOMAIN z = 1 .. (n + 1) /\ Last(z) = z[n + 1]
                       /\ rest \in Seq(Entry) /\ Len(rest) = n /\ DOMAIN rest = 1 .. n
                       /\ \A i \in 1 .. n : rest[i] = z[i]
  BY <1>1, <1>2, FrontOf
<1>4. PICK m \in Nat : m = n + 1
  OBVIOUS
<1>5. m \in 1 .. m /\ m \notin 1 .. n /\ 1 .. m = (1 .. n) \cup {m} /\ n <= 2 /\ Len(z) = m
  BY <1>2, <1>3, <1>4
<1>6. PICK e \in Entry : e = z[m]
  BY <1>2, <1>3, <1>4, <1>5, ElementOfSeq
<1>7. PICK k \in Entity, g \in Gates, p \in Proc : k = e.key /\ g = e.lock /\ p = home[c]
  BY <1>1 DEF Entry, TypeOK
<1>8. /\ gate' = IF e.entered THEN [gate EXCEPT ![g].holder = Nobody] ELSE gate
      /\ lease' = IF ~ (e.entered /\ multi) THEN lease
                  ELSE [lease EXCEPT ![k] = IF raised THEN Lost ELSE Nobody]
      /\ table' = [table EXCEPT ![p][k] = ReleaseRef(table[p][k])]
      /\ ctx' = [ctx EXCEPT ![c].cleanup = rest]
      /\ Continue(c) \/ Suspend(c)
  <2>1. Last(z) = e
    BY <1>3, <1>4, <1>6
  <2> HIDE DEF rest
  <2> QED  BY <1>7, <2>1 DEF CleanUp, rest
<1> HIDE DEF rest
<1>9. /\ x \in Context /\ x.at = y.at /\ x.keys = y.keys /\ x.ul = <<>> /\ x.cleanup = rest
      /\ ctx' = [ctx EXCEPT ![c] = x]
  BY <1>1, <1>2, <1>3, <1>8 DEF Context, TypeOK
<1> HIDE DEF x
<1>10. /\ ctx' \in [Coroutine -> Context] /\ ctx'[c] = x
       /\ \A d \in Coroutine : d # c => ctx'[d] = ctx[d]
  BY <1>1, <1>9, SetContext
<1>11. OthersSame(c)
  BY <1>1, <1>10 DEF OthersSame
<1>12. Entries(c)' = rest
  <2>1. Entries(c)' = <<>> \o rest
    BY <1>9, <1>10 DEF Entries
  <2> QED  BY <1>3, <2>1, Joined
<1>13. /\ DOMAIN Entries(c) = 1 .. m /\ DOMAIN Entries(c)' = 1 .. n
       /\ Entries(c)[m] = e /\ \A i \in 1 .. n : Entries(c)'[i] = Entries(c)[i]
  BY <1>2, <1>3, <1>4, <1>6, <1>12
<1>14. /\ \A i : Owning(c, i) <=> Entries(c)[i].entered
       /\ \A i : Owning(c, i)' <=> Entries(c)'[i].entered
  BY <1>2, <1>9, <1>10 DEF Owning, At, CleaningUp
<1>15. ContextOK(c)'
  <2>1. Len(x.ul) <= Len(x.keys) /\ Len(x.keys) <= 2
    BY <1>1, <1>2, <1>9 DEF ContextOK
  <2>2. x.at \notin {"new", "gate", "lease"} /\ x.at \in CleaningUp
    BY <1>2, <1>9 DEF CleaningUp
  <2>3. Len(x.cleanup) <= 2
    BY <1>3, <1>5, <1>9
  <2> QED  BY <1>9, <1>10, <2>1, <2>2, <2>3 DEF ContextOK, At
<1>16. OwnsOnce(c)'
  <2>1. OwnsOnce(c)
    BY DEF IInv
  <2> QED  BY <1>5, <1>13, <1>14, <2>1 DEF OwnsOnce
<1>17. e.entered => \A i \in 1 .. n : Entries(c)[i].entered => Entries(c)[i].lock # g
  <2>1. OwnsOnce(c)
    BY DEF IInv
  <2> QED  BY <1>5, <1>7, <1>13, <1>14, <2>1 DEF OwnsOnce
<1>18. running' \in [Proc -> Coroutine \cup {Nobody}]
  BY <1>1, <1>8 DEF Continue, Suspend, TypeOK
<1>19. gate' \in [Gates -> [holder : Coroutine \cup {Nobody}, waiters : Seq(Coroutine)]]
  BY <1>1, <1>8 DEF TypeOK
<1>20. lease' \in [Entity -> Coroutine \cup {Nobody, Lost}]
  BY <1>1, <1>8 DEF TypeOK
<1>21. /\ ReleaseRef(table[p][k]) \in [lock : Gates \cup {NoGate}, count : Nat]
       /\ table' \in [Proc -> [Entity -> [lock : Gates \cup {NoGate}, count : Nat]]]
  <2>1. table[p][k] \in [lock : Gates \cup {NoGate}, count : Nat]
    BY <1>1 DEF TypeOK
  <2>2. ReleaseRef(table[p][k]) \in [lock : Gates \cup {NoGate}, count : Nat]
    <3> DEFINE t == table[p][k]
    <3>1. t \in [lock : Gates \cup {NoGate}, count : Nat]
      BY <2>1
    <3> HIDE DEF t
    <3>2. ReleaseRef(t) \in [lock : Gates \cup {NoGate}, count : Nat]
      BY <3>1 DEF ReleaseRef, NoEntry
    <3> QED  BY <3>2 DEF t
  <2> DEFINE r == ReleaseRef(table[p][k])
  <2>3. r \in [lock : Gates \cup {NoGate}, count : Nat] /\ table' = [table EXCEPT ![p][k] = r]
    BY <1>8, <2>2
  <2> HIDE DEF r
  <2>4. table' \in [Proc -> [Entity -> [lock : Gates \cup {NoGate}, count : Nat]]]
    BY <1>1, <2>3 DEF TypeOK
  <2> QED  BY <2>2, <2>4
<1>22. TypeOK'
  BY <1>1, <1>10, <1>18, <1>19, <1>20, <1>21 DEF TypeOK
<1>23. \A h \in Gates : ~ Waits(c, h) /\ ~ Waits(c, h)'
  BY <1>2, <1>9, <1>10 DEF Waits, At, CleaningUp
<1>24. ASSUME NEW h \in Gates PROVE Owns(c, h) <=> Owns(c, h)' \/ (e.entered /\ h = g)
  <2>1. Owns(c, h) <=> \E i \in 1 .. m : Entries(c)[i].lock = h /\ Entries(c)[i].entered
    BY <1>13, <1>14 DEF Owns
  <2>2. Owns(c, h)' <=> \E i \in 1 .. n : Entries(c)[i].lock = h /\ Entries(c)[i].entered
    BY <1>13, <1>14 DEF Owns
  <2>3. \A i : i \in 1 .. m <=> i \in 1 .. n \/ i = m
    BY <1>5
  <2> QED  BY <1>7, <1>13, <2>1, <2>2, <2>3
<1>25. \A h \in Gates : GateOK(h)'
  <2>1. \A h \in Gates : GateOK(h)
    BY DEF IInv
  <2>2. CASE ~ e.entered
    BY <1>8, <1>11, <1>23, <1>24, <2>1, <2>2, GateSame
  <2>3. CASE e.entered
    <3>1. /\ gate'[g].holder = Nobody /\ gate'[g].waiters = gate[g].waiters
          /\ \A h \in Gates : h # g => gate'[h] = gate[h]
      BY <1>1, <1>8, <2>3 DEF TypeOK
    <3>2. gate[g].holder = c
      BY <1>24, <2>1, <2>3 DEF GateOK
    <3>3. ~ Owns(c, g)'
      BY <1>13, <1>14, <1>17, <2>3 DEF Owns
    <3>4. gate'[g].holder = c <=> Owns(c, g)'
      BY <3>1, <3>3, Consts
    <3>5. In(c, gate'[g].waiters) <=> Waits(c, g)'
      BY <1>23, <2>1, <3>1 DEF GateOK
    <3>6. NoRepeat(gate'[g].waiters)
      BY <2>1, <3>1 DEF GateOK
    <3>7. \A d \in Coroutine : d # c =>
            /\ gate'[g].holder = d <=> gate[g].holder = d
            /\ In(d, gate'[g].waiters) <=> In(d, gate[g].waiters)
      BY <3>1, <3>2, Consts
    <3>8. \A h \in Gates : h # g => /\ gate'[h] = gate[h]
                                    /\ Owns(c, h)' <=> Owns(c, h)
                                    /\ Waits(c, h)' <=> Waits(c, h)
      BY <1>23, <1>24, <3>1
    <3> QED  BY <1>11, <2>1, <3>4, <3>5, <3>6, <3>7, <3>8, GateStep
  <2> QED  BY <2>2, <2>3
<1>26. \A i \in 1 .. n : Entries(c)[i].key = k => Entries(c)[i].lock = g
  <2>1. m \in DOMAIN Entries(c) /\ \A i \in 1 .. n : i \in DOMAIN Entries(c)
    BY <1>5, <1>13
  <2>2. g = table[p][k].lock
    <3>1. Entries(c)[m].lock = table[home[c]][Entries(c)[m].key].lock
      BY <2>1, Referred
    <3> QED  BY <1>7, <1>13, <3>1
  <2>3. \A i \in 1 .. n : Entries(c)[i].lock = table[home[c]][Entries(c)[i].key].lock
    BY <2>1, Referred
  <2> QED  BY <1>7, <2>2, <2>3
<1>27. ASSUME NEW j \in Entity PROVE LeaseOK(j)'
  <2>1. LeaseOK(j) /\ multi' = multi
    BY <1>1 DEF IInv
  <2>2. \A d \in Coroutine : d # c => (Holding(d, j)' <=> Holding(d, j))
    BY <1>11 DEF OthersSame, Holding, Entries
  <2>3. Holding(c, j)' <=> \E i \in 1 .. n : Entries(c)[i].key = j /\ Entries(c)[i].entered
    BY <1>13 DEF Holding
  <2>4. Holding(c, j) <=> Holding(c, j)' \/ (e.entered /\ j = k)
    <3>1. Holding(c, j) <=> \E i \in 1 .. m : Entries(c)[i].key = j /\ Entries(c)[i].entered
      BY <1>13 DEF Holding
    <3>2. \A i : i \in 1 .. m <=> i \in 1 .. n \/ i = m
      BY <1>5
    <3> QED  BY <1>7, <1>13, <2>3, <3>1, <3>2
  <2>5. lease[j] \in Coroutine \cup {Nobody, Lost}
    BY <1>1 DEF TypeOK
  <2>6. CASE e.entered /\ multi /\ j = k
    <3>1. lease'[j] \notin Coroutine
      <4>1. lease'[j] = IF raised THEN Lost ELSE Nobody
        BY <1>1, <1>8, <2>6 DEF TypeOK
      <4> QED  BY <4>1, Consts
    <3>2. lease[j] = c
      BY <2>1, <2>4, <2>6 DEF LeaseOK
    <3>3. \A d \in Coroutine : d # c => ~ Holding(d, j)
      BY <2>1, <2>6, <3>2 DEF LeaseOK
    <3>4. ~ Holding(c, j)'
      BY <1>17, <1>26, <2>3, <2>6
    <3> QED  BY <2>2, <3>1, <3>3, <3>4 DEF LeaseOK
  <2>7. CASE ~ (e.entered /\ multi /\ j = k)
    <3>1. lease'[j] = lease[j]
      BY <1>1, <1>8, <2>7 DEF TypeOK
    <3>2. multi => (Holding(c, j)' <=> Holding(c, j))
      BY <2>4, <2>7
    <3> QED  BY <2>1, <2>2, <3>1, <3>2 DEF LeaseOK
  <2> QED  BY <2>6, <2>7
<1>28. ASSUME NEW q \in Proc, NEW j \in Entity PROVE TableOK(q, j)'
  <2>1. /\ RefsTo(p, k)' = RefsTo(p, k) \ {<<c, m>>} /\ <<c, m>> \in RefsTo(p, k)
        /\ q # p \/ j # k => RefsTo(q, j)' = RefsTo(q, j)
        /\ \A r \in RefsTo(q, j)' : Entries(r[1])'[r[2]].lock = Entries(r[1])[r[2]].lock
    <3>1. /\ m \notin DOMAIN Entries(c)' /\ DOMAIN Entries(c) = DOMAIN Entries(c)' \cup {m}
          /\ Entries(c)[m].key = k
          /\ \A i \in DOMAIN Entries(c)' : /\ Entries(c)'[i].key = Entries(c)[i].key
                                           /\ Entries(c)'[i].lock = Entries(c)[i].lock
      BY <1>5, <1>7, <1>13
    <3> QED  BY <1>7, <1>11, <3>1, RefsRemoved
  <2>2. TableOK(q, j) /\ TableOK(p, k)
    BY DEF IInv
  <2>3. CASE q # p \/ j # k
    <3>1. table'[q][j] = table[q][j]
      BY <1>1, <1>8, <2>3 DEF TypeOK
    <3> QED  BY <2>1, <2>2, <2>3, <3>1 DEF TableOK
  <2>4. CASE q = p /\ j = k
    <3> DEFINE t == table[p][k]
               u == table'[p][k]
    <3>1. u = ReleaseRef(t)
      BY <1>1, <1>8 DEF TypeOK
    <3>2. t \in [lock : Gates \cup {NoGate}, count : Nat]
      BY <1>1 DEF TypeOK
    <3>3. IsFiniteSet(RefsTo(p, k))
      BY RefsFinite
    <3>4. IsFiniteSet(RefsTo(p, k)') /\ Cardinality(RefsTo(p, k)') = t.count - 1
      <4>1. t.count = Cardinality(RefsTo(p, k))
        BY <2>2 DEF TableOK
      <4> HIDE DEF t
      <4> QED  BY <2>1, <3>3, <4>1, FS_RemoveElement
    <3>5. Cardinality(RefsTo(p, k)') \in Nat /\ (Cardinality(RefsTo(p, k)') = 0 <=> RefsTo(p, k)' = {})
      BY <3>4, FS_CardinalityType, FS_EmptySet
    <3>6. \A r \in RefsTo(p, k) : Entries(r[1])[r[2]].lock = t.lock
      BY <2>2 DEF TableOK
    <3>7. (t.lock = NoGate <=> t.count = 0) /\ t.count \in Nat
      BY <2>2, <3>2 DEF TableOK
    <3> HIDE DEF t, u
    <3>8. u.count = Cardinality(RefsTo(p, k)') /\ (u.lock = NoGate <=> u.count = 0)
      <4>1. CASE t.count <= 1
        <5>1. t.count = 1
          BY <3>4, <3>5, <3>7, <4>1
        <5> QED  BY <3>1, <3>4, <4>1, <5>1 DEF ReleaseRef, NoEntry
      <4>2. CASE ~ (t.count <= 1)
        <5>1. u.count = t.count - 1 /\ u.lock = t.lock
          BY <3>1, <3>2, <4>2 DEF ReleaseRef
        <5> QED  BY <3>4, <3>7, <4>2, <5>1
      <4> QED  BY <4>1, <4>2
    <3>9. ASSUME NEW r \in RefsTo(p, k)' PROVE Entries(r[1])'[r[2]].lock = u.lock
      <4>1. r \in RefsTo(p, k) /\ Entries(r[1])'[r[2]].lock = t.lock
        BY <2>1, <2>4, <3>6
      <4>2. t.count - 1 # 0
        BY <3>4, <3>5
      <4>3. ~ (t.count <= 1)
        BY <3>4, <3>5, <3>7, <4>2
      <4>4. u.lock = t.lock
        BY <3>1, <3>2, <4>3 DEF ReleaseRef
      <4> QED  BY <4>1, <4>4
    <3> QED  BY <2>4, <3>8, <3>9 DEF TableOK, u
  <2> QED  BY <2>3, <2>4
<1> QED  BY <1>11, <1>15, <1>16, <1>22, <1>25, <1>27, <1>28, ContextStep

LEMMA ReleaseSteps ==
  ASSUME IInv, NEW c \in Coroutine, ReleaseEntry(c) \/ ReleaseFails(c)
  PROVE  IInv'
<1>1. budget \in 0 .. MaxTroubles /\ MaxTroubles \in Nat
  BY Consts DEF IInv, TypeOK
<1>2. budget' = budget \/ (budget > 0 /\ budget' = budget - 1)
  BY DEF ReleaseEntry, ReleaseFails
<1>3. budget' \in 0 .. MaxTroubles
  BY <1>1, <1>2
<1>4. CleanUp(c, FALSE) \/ CleanUp(c, TRUE)
  BY DEF ReleaseEntry, ReleaseFails
<1> QED  BY <1>3, <1>4, CleanUpStep

-----------------------------------------------------------------------------
(* 7. The theorems.                                                        *)

LEMMA InitLemma == Init => IInv
<1> SUFFICES ASSUME Init PROVE IInv
  OBVIOUS
<1>1. ctx = [c \in Coroutine |-> NewContext] /\ NewContext \in Context
  BY EmptySeq DEF Init, Context, NewContext, Place
<1>2. \A c \in Coroutine : ctx[c] = NewContext
  BY <1>1
<1>3. \A c \in Coroutine : Entries(c) = <<>> /\ DOMAIN Entries(c) = {}
  <2>1. <<>> \in Seq(Entry) /\ DOMAIN <<>> = {}
    BY EmptySeq
  <2>2. <<>> \o <<>> = <<>>
    BY <2>1, Joined
  <2>3. \A c \in Coroutine : ctx[c].ul = <<>> /\ ctx[c].cleanup = <<>>
    BY <1>2 DEF NewContext
  <2> QED  BY <2>1, <2>2, <2>3 DEF Entries
<1>4. TypeOK
  <2>1. Unlocked \in [holder : Coroutine \cup {Nobody}, waiters : Seq(Coroutine)]
    BY EmptySeq DEF Unlocked
  <2>2. NoEntry \in [lock : Gates \cup {NoGate}, count : Nat]
    BY DEF NoEntry
  <2>3. home \in [Coroutine -> Proc]
    BY Consts DEF Init
  <2>4. budget \in 0 .. MaxTroubles
    BY Consts DEF Init
  <2>5. ctx \in [Coroutine -> Context]
    BY <1>1
  <2>6. gate \in [Gates -> [holder : Coroutine \cup {Nobody}, waiters : Seq(Coroutine)]]
    BY <2>1 DEF Init
  <2>7. table \in [Proc -> [Entity -> [lock : Gates \cup {NoGate}, count : Nat]]]
    BY <2>2 DEF Init
  <2>8. /\ multi \in BOOLEAN /\ running \in [Proc -> Coroutine \cup {Nobody}]
        /\ lease \in [Entity -> Coroutine \cup {Nobody, Lost}]
    BY DEF Init
  <2> QED  BY <2>3, <2>4, <2>5, <2>6, <2>7, <2>8 DEF TypeOK
<1>5. HomeOK
  BY DEF Init, HomeOK
<1>6. ASSUME NEW c \in Coroutine PROVE ContextOK(c) /\ OwnsOnce(c)
  <2>1. ctx[c].at = "new" /\ ctx[c].ul = <<>> /\ ctx[c].cleanup = <<>> /\ ctx[c].keys = <<>>
    BY <1>2 DEF NewContext
  <2>2. ContextOK(c)
    BY <2>1 DEF ContextOK, At, CleaningUp
  <2> QED  BY <1>3, <2>2 DEF OwnsOnce
<1>7. ASSUME NEW g \in Gates PROVE GateOK(g)
  <2>1. gate[g].holder = Nobody /\ gate[g].waiters = <<>> /\ DOMAIN <<>> = {}
    BY EmptySeq DEF Init, Unlocked
  <2>2. \A c \in Coroutine : ~ Owns(c, g)
    BY <1>3 DEF Owns
  <2>3. \A c \in Coroutine : ~ Waits(c, g)
    BY <1>2 DEF Waits, At, NewContext
  <2> QED  BY <2>1, <2>2, <2>3, Consts DEF GateOK, NoRepeat, In
<1>8. ASSUME NEW k \in Entity PROVE LeaseOK(k)
  BY <1>3, Consts DEF LeaseOK, Holding, Init
<1>9. ASSUME NEW k \in Entity, NEW p \in Proc PROVE TableOK(p, k)
  <2>1. References = {}
    BY <1>3 DEF References
  <2>2. RefsTo(p, k) = {}
    BY <2>1 DEF RefsTo
  <2>3. Cardinality({}) = 0
    BY FS_EmptySet
  <2>4. table[p][k] = NoEntry
    BY DEF Init
  <2> QED  BY <2>2, <2>3, <2>4 DEF TableOK, NoEntry
<1> QED  BY <1>4, <1>5, <1>6, <1>7, <1>8, <1>9 DEF IInv

LEMMA IInvStep == IInv /\ [Next]_vars => IInv'
<1> SUFFICES ASSUME IInv, [Next]_vars PROVE IInv'
  OBVIOUS
<1>1. CASE UNCHANGED vars
  BY <1>1, IdleSteps
<1>2. ASSUME NEW c \in Coroutine, Start(c) PROVE IInv'
  BY <1>2, StartStep
<1>3. ASSUME NEW c \in Coroutine, Step(c) PROVE IInv'
  BY <1>3, TakeKeyStep, TakeGateStep, PollLeaseStep, QuietSteps, ReleaseSteps DEF Step
<1>4. ASSUME NEW c \in Coroutine, Trouble(c) PROVE IInv'
  <2>1. CASE PollFails(c)
    BY <2>1, GiveUpSteps
  <2>2. CASE ReleaseFails(c)
    BY <2>2, ReleaseSteps
  <2>3. CASE Cancel(c)
    <3>1. CancelWaiter(c) \/ CancelPoll(c) \/ CancelRollback(c) \/ CancelExit(c)
      BY <2>3 DEF Cancel
    <3>2. CASE CancelWaiter(c) \/ CancelPoll(c)
      BY <2>3, <3>2, GiveUpSteps
    <3>3. CASE CancelRollback(c)
      BY <2>3, <3>3, QuietSteps
    <3>4. CASE CancelExit(c)
      BY <2>3, <3>4, IdleSteps
    <3> QED  BY <3>1, <3>2, <3>3, <3>4
  <2> QED  BY <1>4, <2>1, <2>2, <2>3 DEF Trouble
<1> QED  BY <1>1, <1>2, <1>3, <1>4 DEF Next, Finished

LEMMA Invariance == Spec => []IInv
<1>1. Init => IInv
  BY InitLemma
<1>2. IInv /\ [Next]_vars => IInv'
  BY IInvStep
<1> QED  BY <1>1, <1>2, PTL DEF Spec

\* An entry of the table of gates (get_lock, release of KeyedUnifiedLock) lives exactly as
\* long as a context refers to it, its count is that of the contexts' entries, and all of
\* them share its asyncio.Lock: for any number of processes, coroutines and names (at most two
\* in a context), whoever is cancelled, fails, or is half rolled back.
THEOREM ReferencesCounted == Spec => []CountsMatch
<1>1. IInv => CountsMatch
  BY DEF IInv, CountsMatch, TableOK
<1> QED  BY <1>1, Invariance, PTL

\* The lock of one name is in one coroutine's hands, in one process by its gate, between
\* processes by its lease: the keyed lock excludes, also around rollbacks and failed releases.
THEOREM KeysExclude == Spec => []KeyExclusion
<1>1. ASSUME IInv, NEW c \in Coroutine, NEW d \in Coroutine, NEW k \in Entity,
             Holding(c, k), Holding(d, k)
      PROVE  c = d
  <2>1. CASE multi
    BY <1>1, <2>1 DEF IInv, LeaseOK
  <2>2. CASE ~ multi
    <3>1. home[c] = home[d]
      BY <1>1, <2>2 DEF IInv, HomeOK
    <3>2. ASSUME NEW b \in Coroutine, Holding(b, k)
          PROVE  \E h \in Gates : h = table[home[b]][k].lock /\ gate[h].holder = b
      <4>1. PICK i \in DOMAIN Entries(b) : Entries(b)[i].key = k /\ Entries(b)[i].entered
        BY <3>2 DEF Holding
      <4>2. PICK h \in Gates : h = Entries(b)[i].lock
        <5>1. Entries(b)[i] \in Entry
          BY <1>1, <4>1, EntriesOf
        <5> QED  BY <5>1 DEF Entry
      <4>3. h = table[home[b]][k].lock
        BY <1>1, <4>1, <4>2, Referred
      <4>4. Owns(b, h)
        BY <4>1, <4>2 DEF Owns, Owning
      <4>5. gate[h].holder = b
        BY <1>1, <4>4 DEF IInv, GateOK
      <4> QED  BY <4>3, <4>5
    <3>3. PICK g \in Gates : g = table[home[c]][k].lock /\ gate[g].holder = c
      BY <1>1, <3>2
    <3>4. PICK h \in Gates : h = table[home[d]][k].lock /\ gate[h].holder = d
      BY <1>1, <3>2
    <3> QED  BY <3>1, <3>3, <3>4
  <2> QED  BY <2>1, <2>2
<1>2. IInv => KeyExclusion
  BY <1>1 DEF KeyExclusion
<1> QED  BY <1>2, Invariance, PTL

\* __aexit__ goes on, after however many cancellations, only when its context has given back
\* every gate, every lease and every reference.
THEOREM ExitReleasesAll == Spec => ExitReleases
<1> DEFINE Released ==
      \A c \in Coroutine : At(c, "exit") /\ ctx'[c].at # "exit" =>
         /\ Entries(c)' = <<>>
         /\ \A g \in Gates : gate'[g].holder # c
         /\ \A k \in Entity : lease'[k] # c
<1>1. ASSUME IInv, IInv', [Next]_vars, NEW c \in Coroutine, At(c, "exit"), ctx'[c].at # "exit"
      PROVE  ctx[c].cleanup = <<>> /\ ctx'[c].at = "over" /\ ctx'[c].cleanup = <<>>
  <2>1. ctx \in [Coroutine -> Context]
    BY <1>1 DEF IInv, TypeOK
  <2>2. PICK d \in Coroutine : Start(d) \/ Step(d) \/ Trouble(d)
    BY <1>1 DEF Next, Finished, vars, At
  <2>3. CASE d # c
    <3>1. ctx'[c] = ctx[c]
      BY <2>1, <2>2, <2>3
      DEF Start, Step, Trouble, TakeKey, TakeGate, PollLease, EnterBody, Leave, ReleaseEntry,
          GoOn, PollFails, ReleaseFails, CleanUp, RollBack, Cancel, CancelWaiter, CancelPoll,
          CancelRollback, CancelExit
    <3> QED  BY <1>1, <3>1 DEF At
  <2>4. CASE d = c
    <3>1. ~ (Start(c) \/ TakeKey(c) \/ TakeGate(c) \/ PollLease(c) \/ EnterBody(c) \/ Leave(c)
             \/ PollFails(c))
      BY <1>1
      DEF At, Start, TakeKey, TakeGate, PollLease, EnterBody, Leave, PollFails
    <3>2. ~ Cancel(c)
      BY <1>1 DEF At, Cancel, CancelWaiter, CancelPoll, CancelRollback, CancelExit
    <3>3. ~ (ReleaseEntry(c) \/ ReleaseFails(c))
      <4> SUFFICES ASSUME NEW raised, CleanUp(c, raised) PROVE FALSE
        BY DEF ReleaseEntry, ReleaseFails
      <4>1. ctx' = [ctx EXCEPT ![c].cleanup = Front(ctx[c].cleanup)]
        BY DEF CleanUp
      <4>2. ctx'[c].at = ctx[c].at
        <5>1. ctx[c] \in Context
          BY <2>1
        <5> QED  BY <2>1, <4>1, <5>1 DEF Context
      <4> QED  BY <1>1, <4>2 DEF At
    <3>4. GoOn(c)
      BY <2>2, <2>4, <3>1, <3>2, <3>3 DEF Step, Trouble
    <3>5. ctx[c] \in Context /\ ctx' = [ctx EXCEPT ![c].at = "over"] /\ ctx[c].cleanup = <<>>
      BY <2>1, <3>4 DEF GoOn
    <3> QED  BY <2>1, <3>5 DEF Context
  <2> QED  BY <2>3, <2>4
<1>2. ASSUME IInv, IInv', [Next]_vars, NEW c \in Coroutine, At(c, "exit"), ctx'[c].at # "exit"
      PROVE  /\ Entries(c)' = <<>>
             /\ \A g \in Gates : gate'[g].holder # c
             /\ \A k \in Entity : lease'[k] # c
  <2>1. ctx'[c].at = "over" /\ ctx'[c].cleanup = <<>>
    BY <1>1, <1>2
  <2>2. Entries(c)' = <<>>
    <3>1. ctx'[c].ul = <<>>
      BY <1>2, <2>1 DEF IInv, ContextOK, CleaningUp
    <3>2. Entries(c)' = <<>> \o <<>> /\ <<>> \in Seq(Entry)
      BY <2>1, <3>1, EmptySeq DEF Entries
    <3> QED  BY <3>2, Joined
  <2>3. DOMAIN Entries(c)' = {}
    BY <2>2, EmptySeq
  <2>4. \A g \in Gates : gate'[g].holder # c
    <3>1. \A g \in Gates : ~ Owns(c, g)'
      BY <2>3 DEF Owns
    <3>2. \A g \in Gates : gate'[g].holder = c <=> Owns(c, g)'
      BY <1>2 DEF IInv, GateOK
    <3> QED  BY <3>1, <3>2
  <2>5. \A k \in Entity : lease'[k] # c
    <3>1. \A k \in Entity : ~ Holding(c, k)'
      BY <2>3 DEF Holding
    <3>2. \A k \in Entity : lease'[k] = c => Holding(c, k)'
      BY <1>2 DEF IInv, LeaseOK
    <3> QED  BY <3>1, <3>2
  <2> QED  BY <2>2, <2>4, <2>5
<1>3. IInv /\ IInv' /\ [Next]_vars => Released
  BY <1>2
<1>4. IInv /\ IInv' /\ [Next]_vars => [Released]_vars
  BY <1>3
<1> HIDE DEF Released
<1>5. Spec => [][Released]_vars
  BY <1>4, Invariance, PTL DEF Spec
<1> QED  BY <1>5 DEF ExitReleases, Released
=============================================================================

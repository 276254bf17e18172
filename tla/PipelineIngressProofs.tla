------------------------ MODULE PipelineIngressProofs ------------------------
(***************************************************************************)
(* First, no announced document is ever lost in the mailbox: what does not *)
(* fit the document channel is covered by the rescan flag, in every        *)
(* interleaving and for every capacity.  The invariant adds to the         *)
(* property only that the channel is a sequence, which its head, tail and  *)
(* prefixes are taken of.  Second, the list of retired requests is exactly *)
(* the window of the history: what became of a request stays, and no       *)
(* request is queued again within the window.                              *)
(***************************************************************************)
EXTENDS PipelineIngress, SequenceTheorems, SequenceFilterProofs, TLAPS

\* The document side of the mailbox.
Channel == /\ mailbox = [documents |-> mailbox.documents, auto |-> mailbox.auto,
                         manual |-> mailbox.manual, terminal |-> mailbox.terminal]
           /\ mailbox.documents \in Seq(Document) /\ mailbox.auto \in BOOLEAN

AnnounceInv == Channel /\ NothingUnannounced

\* A batch that is put is in the channel, or the flag is armed.
LEMMA PutStep ==
  ASSUME AnnounceInv, NEW docs \in Seq(Document), Announce(docs)
  PROVE  AnnounceInv'
<1> DEFINE all == mailbox.documents \o docs
<1>1. mailbox.documents \in Seq(Document) /\ mailbox.auto \in BOOLEAN
  BY DEF AnnounceInv, Channel
<1>2. /\ all \in Seq(Document) /\ Len(all) = Len(mailbox.documents) + Len(docs)
      /\ \A i \in DOMAIN mailbox.documents : i \in DOMAIN all /\ all[i] = mailbox.documents[i]
      /\ \A i \in DOMAIN docs : /\ Len(mailbox.documents) + i \in DOMAIN all
                                /\ all[Len(mailbox.documents) + i] = docs[i]
  BY <1>1
<1>3. open' = open \cup {docs[i] : i \in DOMAIN docs}
  BY DEF Announce
<1>4. CASE Len(all) <= DocumentCapacity
  <2>1. mailbox' = [mailbox EXCEPT !.documents = all]
    BY <1>4 DEF Announce, PutDocuments
  <2>2. /\ mailbox'.documents = all /\ mailbox'.auto = mailbox.auto
        /\ mailbox' = [documents |-> mailbox'.documents, auto |-> mailbox'.auto,
                       manual |-> mailbox'.manual, terminal |-> mailbox'.terminal]
    BY <2>1 DEF AnnounceInv, Channel
  <2>3. \A d : Occurs(mailbox.documents, d) => Occurs(all, d)
    BY <1>2 DEF Occurs
  <2>4. \A i \in DOMAIN docs : Occurs(all, docs[i])
    BY <1>2 DEF Occurs
  <2>5. \A d \in open' : Occurs(all, d) \/ mailbox.auto
    BY <1>3, <2>3, <2>4 DEF AnnounceInv, NothingUnannounced
  <2> QED  BY <1>1, <1>2, <2>2, <2>5 DEF AnnounceInv, Channel, NothingUnannounced
<1>5. CASE ~ (Len(all) <= DocumentCapacity)
  <2>1. mailbox' = [mailbox EXCEPT !.documents = SubSeq(all, 1, DocumentCapacity), !.auto = TRUE]
    BY <1>5 DEF Announce, PutDocuments
  <2>2. /\ mailbox'.documents = SubSeq(all, 1, DocumentCapacity) /\ mailbox'.auto = TRUE
        /\ mailbox' = [documents |-> mailbox'.documents, auto |-> mailbox'.auto,
                       manual |-> mailbox'.manual, terminal |-> mailbox'.terminal]
    BY <2>1 DEF AnnounceInv, Channel
  <2>3. SubSeq(all, 1, DocumentCapacity) \in Seq(Document)
    BY <1>2, <1>5, CapacityAssumption
  <2> QED  BY <2>2, <2>3 DEF AnnounceInv, Channel, NothingUnannounced
<1> QED  BY <1>4, <1>5

\* What a step keeps of the channel, if it takes nothing out but what it accounts for.
LEMMA TakeStep ==
  ASSUME AnnounceInv, mailbox.documents # <<>>, DrainForSweep \/ TakeNext
  PROVE  AnnounceInv'
<1> DEFINE s == mailbox.documents
<1>1. /\ s \in Seq(Document) /\ mailbox.auto \in BOOLEAN
      /\ Head(s) = s[1] /\ Tail(s) \in Seq(Document)
      /\ \A i \in DOMAIN s : i # 1 => i - 1 \in DOMAIN Tail(s) /\ Tail(s)[i - 1] = s[i]
  <2>1. s \in Seq(Document) /\ mailbox.auto \in BOOLEAN
    BY DEF AnnounceInv, Channel
  <2>2. Head(s) = s[1]
    OBVIOUS
  <2> QED  BY <2>1, <2>2
<1>2. CASE DrainForSweep
  <2>1. /\ mailbox'.documents = <<>> /\ mailbox'.auto = mailbox.auto
        /\ mailbox' = [documents |-> mailbox'.documents, auto |-> mailbox'.auto,
                       manual |-> mailbox'.manual, terminal |-> mailbox'.terminal]
    BY <1>2 DEF DrainForSweep, DrainDocuments, AnnounceInv, Channel
  <2>2. \A d \in open' : mailbox.auto
    BY <1>2 DEF DrainForSweep, AnnounceInv, NothingUnannounced
  <2> QED  BY <1>1, <2>1, <2>2 DEF AnnounceInv, Channel, NothingUnannounced
<1>3. CASE TakeNext
  <2>1. /\ mailbox'.documents = Tail(s) /\ mailbox'.auto = mailbox.auto
        /\ mailbox' = [documents |-> mailbox'.documents, auto |-> mailbox'.auto,
                       manual |-> mailbox'.manual, terminal |-> mailbox'.terminal]
    BY <1>3 DEF TakeNext, NextDocumentTaken, AnnounceInv, Channel
  <2>2. ASSUME NEW d \in open' PROVE Occurs(Tail(s), d) \/ mailbox.auto
    <3>1. d \in open /\ d # s[1]
      BY <1>1, <1>3, <2>2 DEF TakeNext
    <3>2. Occurs(s, d) \/ mailbox.auto
      BY <3>1 DEF AnnounceInv, NothingUnannounced
    <3> QED  BY <1>1, <3>1, <3>2 DEF Occurs
  <2> QED  BY <1>1, <2>1, <2>2 DEF AnnounceInv, Channel, NothingUnannounced
<1> QED  BY <1>2, <1>3

\* A step that leaves the channel alone, and opens nothing.
LEMMA KeepStep ==
  ASSUME AnnounceInv, open' \subseteq open,
         mailbox' = [documents |-> mailbox.documents, auto |-> mailbox'.auto,
                     manual |-> mailbox'.manual, terminal |-> mailbox'.terminal],
         mailbox'.auto \in {mailbox.auto, TRUE}
  PROVE  AnnounceInv'
<1>1. mailbox'.documents = mailbox.documents
  OBVIOUS
<1> QED  BY <1>1 DEF AnnounceInv, Channel, NothingUnannounced

\* A step that settles every open document.
LEMMA SettleStep ==
  ASSUME AnnounceInv, open' = {}, mailbox'.documents \in {<<>>, mailbox.documents},
         mailbox' = [documents |-> mailbox'.documents, auto |-> FALSE,
                     manual |-> mailbox'.manual, terminal |-> mailbox'.terminal]
  PROVE  AnnounceInv'
<1>1. mailbox'.auto = FALSE
  OBVIOUS
<1>2. mailbox'.documents \in Seq(Document)
  <2>1. mailbox.documents \in Seq(Document) /\ <<>> \in Seq(Document)
    BY DEF AnnounceInv, Channel
  <2> QED  BY <2>1
<1>3. mailbox' = [documents |-> mailbox'.documents, auto |-> mailbox'.auto,
                  manual |-> mailbox'.manual, terminal |-> mailbox'.terminal]
  BY <1>1
<1> QED  BY <1>1, <1>2, <1>3 DEF AnnounceInv, Channel, NothingUnannounced

\* What is announced stays in the channel, or the rescan flag is armed, until it is
\* taken or rescanned: for any number of publishers, any capacity and any clears.
THEOREM AnnouncementsKept == Spec => []NothingUnannounced
<1>1. Init => AnnounceInv
  BY DEF Init, EmptyMailbox, AnnounceInv, Channel, NothingUnannounced
<1>2. ASSUME AnnounceInv, [Next]_vars PROVE AnnounceInv'
  <2>1. ASSUME NEW docs \in Batches, Announce(docs) PROVE AnnounceInv'
    <3>1. /\ \A d \in Document : <<d>> \in Seq(Document)
          /\ \A d, e \in Document : <<d, e>> \in Seq(Document)
      OBVIOUS
    <3>2. docs \in Seq(Document)
      <4>1. (\E d \in Document : docs = <<d>>) \/ (\E d, e \in Document : docs = <<d, e>>)
        BY DEF Batches
      <4> QED  BY <3>1, <4>1
    <3> QED  BY <1>2, <2>1, <3>2, PutStep
  <2>2. CASE DrainForSweep \/ TakeNext
    BY <1>2, <2>2, TakeStep DEF DrainForSweep, TakeNext
  <2>3. CASE ArmRescan
    BY <1>2, <2>3, KeepStep DEF ArmRescan, RequestAutoRescan, AnnounceInv, Channel
  <2>4. ASSUME NEW r \in Request, PublishRetry(r) PROVE AnnounceInv'
    BY <1>2, <2>4, KeepStep DEF PublishRetry, RequestManualRetry, AnnounceInv, Channel
  <2>5. CASE Peek \/ Abandon \/ UNCHANGED vars
    BY <1>2, <2>5, KeepStep DEF Peek, Abandon, vars, AnnounceInv, Channel
  <2>6. CASE Acknowledge
    BY <1>2, <2>6, KeepStep DEF Acknowledge, AckManualRetry, AnnounceInv, Channel
  <2>7. CASE ForceResetRequests
    BY <1>2, <2>7, KeepStep DEF ForceResetRequests, CancelManualRetries, AnnounceInv, Channel
  <2>8. CASE Rescan
    BY <1>2, <2>8, SettleStep DEF Rescan, ConsumeAutoRescan, AnnounceInv, Channel
  <2>9. CASE ClearAll
    BY <1>2, <2>9, SettleStep DEF ClearAll, ClearMailbox, EmptyMailbox, AnnounceInv, Channel
  <2> QED  BY <1>2, <2>1, <2>2, <2>3, <2>4, <2>5, <2>6, <2>7, <2>8, <2>9 DEF Next
<1>3. AnnounceInv => NothingUnannounced
  BY DEF AnnounceInv
<1> QED  BY <1>1, <1>2, <1>3, PTL DEF Spec

-----------------------------------------------------------------------------
(* What became of a request.                                               *)

State == {"acked", "cancelled"}
NoRepeats(s) == \A i, j \in DOMAIN s : s[i] = s[j] => i = j

\* The consumer acknowledges a request, the queue holds each once, the list of
\* the retired is within its capacity,
RequestTypes ==
    /\ mailbox = [documents |-> mailbox.documents, auto |-> mailbox.auto,
                  manual |-> mailbox.manual, terminal |-> mailbox.terminal]
    /\ peeked \in Request \cup {NoRequest}
    /\ mailbox.manual \in Seq(Request) /\ NoRepeats(mailbox.manual)
    /\ mailbox.terminal \in Seq([id : Request, state : State])
    /\ Len(mailbox.terminal) <= TerminalCapacity
    /\ retired \in [Request -> [state : State \cup {"no"}, since : 0 .. TerminalCapacity]]

\* and it is the window of the history: the entry at i was retired as it says, and
\* Len - i others since.
Window ==
    /\ \A i \in DOMAIN mailbox.terminal :
         LET e == mailbox.terminal[i]
         IN  retired[e.id] = [state |-> e.state, since |-> Len(mailbox.terminal) - i]
    /\ \A r \in Request : Remembered(r) => IsTerminal(mailbox, r)

RequestInv == RequestTypes /\ Window

\* An entry of the list.
Entry == [id : Request, state : State]

LEMMA TerminalParts ==
  ASSUME RequestInv
  PROVE  LET t == mailbox.terminal IN
         /\ t \in Seq(Entry) /\ Len(t) \in Nat /\ DOMAIN t = 1 .. Len(t)
         /\ Len(t) <= TerminalCapacity /\ TerminalCapacity \in Nat /\ TerminalCapacity > 0
         /\ \A i \in 1 .. Len(t) :
              /\ t[i].id \in Request /\ t[i].state \in State
              /\ t[i] = [id |-> t[i].id, state |-> t[i].state]
              /\ t[i].id \in TerminalIds(mailbox)
              /\ retired[t[i].id] = [state |-> t[i].state, since |-> Len(t) - i]
         /\ \A r \in TerminalIds(mailbox) : r \in Request /\ \E i \in 1 .. Len(t) : t[i].id = r
<1> DEFINE t == mailbox.terminal
<1>1. /\ t \in Seq(Entry) /\ Len(t) <= TerminalCapacity
      /\ TerminalCapacity \in Nat /\ TerminalCapacity > 0
  BY CapacityAssumption DEF RequestInv, RequestTypes, Entry
<1>2. TerminalIds(mailbox) = {t[i].id : i \in DOMAIN t}
  BY DEF TerminalIds
<1>3. \A i \in DOMAIN t : retired[t[i].id] = [state |-> t[i].state, since |-> Len(t) - i]
  BY DEF RequestInv, Window
<1> HIDE DEF t
<1>4. Len(t) \in Nat /\ DOMAIN t = 1 .. Len(t) /\ \A i \in 1 .. Len(t) : t[i] \in Entry
  BY <1>1
<1>5. \A e \in Entry : e.id \in Request /\ e.state \in State /\ e = [id |-> e.id, state |-> e.state]
  BY DEF Entry
<1>6. /\ t \in Seq(Entry) /\ Len(t) \in Nat /\ DOMAIN t = 1 .. Len(t)
      /\ Len(t) <= TerminalCapacity /\ TerminalCapacity \in Nat /\ TerminalCapacity > 0
      /\ \A i \in 1 .. Len(t) :
           /\ t[i].id \in Request /\ t[i].state \in State
           /\ t[i] = [id |-> t[i].id, state |-> t[i].state]
           /\ t[i].id \in TerminalIds(mailbox)
           /\ retired[t[i].id] = [state |-> t[i].state, since |-> Len(t) - i]
      /\ \A r \in TerminalIds(mailbox) : r \in Request /\ \E i \in 1 .. Len(t) : t[i].id = r
  BY <1>1, <1>2, <1>3, <1>4, <1>5
<1> QED  BY <1>6 DEF t

\* The guard of a publication sees exactly the window.
LEMMA WindowIsTerminal ==
  ASSUME RequestInv
  PROVE  /\ \A r \in Request : Remembered(r) <=> IsTerminal(mailbox, r)
         /\ {r \in Request : Remembered(r)} = TerminalIds(mailbox)
<1> DEFINE t == mailbox.terminal
           L == Len(t)
<1>1. /\ L \in Nat /\ L <= TerminalCapacity
      /\ \A i \in 1 .. L : /\ t[i].id \in Request /\ t[i].state \in State
                           /\ retired[t[i].id] = [state |-> t[i].state, since |-> L - i]
      /\ \A r \in TerminalIds(mailbox) : \E i \in 1 .. L : t[i].id = r
  BY TerminalParts
<1>2. TerminalCapacity \in Nat
  BY CapacityAssumption
<1> HIDE DEF t, L
<1>3. ASSUME NEW i \in 1 .. L
      PROVE  t[i].id \in Request /\ Remembered(t[i].id)
  <2>1. /\ retired[t[i].id].since = L - i /\ retired[t[i].id].state = t[i].state
        /\ t[i].state \in State /\ t[i].id \in Request
    <3>1. /\ t[i].id \in Request /\ t[i].state \in State
          /\ retired[t[i].id] = [state |-> t[i].state, since |-> L - i]
      BY <1>1
    <3> QED  BY <3>1
  <2>2. L - i < TerminalCapacity
    BY <1>1, <1>2
  <2> QED  BY <2>1, <2>2 DEF Remembered, State
<1>4. \A r \in Request : Remembered(r) => r \in TerminalIds(mailbox)
  BY DEF RequestInv, Window, IsTerminal
<1> QED  BY <1>1, <1>3, <1>4 DEF IsTerminal

\* The latest c elements of a sequence are the last ones.
LEMMA LatestElements ==
  ASSUME NEW S, NEW s \in Seq(S), NEW c \in Nat
  PROVE  LET d == IF Len(s) > c THEN Len(s) - c ELSE 0 IN
         /\ Latest(s, c) \in Seq(S) /\ Len(Latest(s, c)) = Len(s) - d
         /\ \A i \in 1 .. Len(s) - d : Latest(s, c)[i] = s[i + d]
<1>1. CASE Len(s) > c
  <2> DEFINE n == Len(s)
             a == n - c + 1
  <2>1. Latest(s, c) = SubSeq(s, a, n)
    BY <1>1 DEF Latest
  <2>2. n \in Nat /\ n > c /\ \A i \in a .. n : s[i] \in S
    <3>1. n \in Nat /\ n > c /\ \A i \in 1 .. n : s[i] \in S
      BY <1>1, LenProperties, ElementOfSeq
    <3>2. \A i \in a .. n : i \in 1 .. n
      BY <3>1
    <3> QED  BY <3>1, <3>2
  <2> HIDE DEF n
  <2>3. /\ SubSeq(s, a, n) \in Seq(S)
        /\ Len(SubSeq(s, a, n)) = IF a <= n THEN n - a + 1 ELSE 0
        /\ \A i \in 1 .. n - a + 1 : SubSeq(s, a, n)[i] = s[a + i - 1]
    BY <2>2, SubSeqProperties
  <2>4. n - (n - c) = c /\ n - a + 1 = c /\ (a <= n \/ c = 0) /\ \A i \in 1 .. c : a + i - 1 = i + (n - c)
    BY <2>2
  <2>5. /\ Len(SubSeq(s, a, n)) = n - (n - c)
        /\ \A i \in 1 .. n - (n - c) : SubSeq(s, a, n)[i] = s[i + (n - c)]
    BY <2>3, <2>4
  <2> QED  BY <1>1, <2>1, <2>3, <2>5 DEF n
<1>2. CASE ~ (Len(s) > c)
  <2>1. Latest(s, c) = s
    BY <1>2 DEF Latest
  <2>2. Len(s) \in Nat /\ Len(s) - 0 = Len(s) /\ \A i \in 1 .. Len(s) : i + 0 = i
    OBVIOUS
  <2> QED  BY <1>2, <2>1, <2>2
<1> QED  BY <1>1, <1>2

\* Retiring moves the window: what overflows at its old end has left the history's
\* window by then, too.
LEMMA RetireStep ==
  ASSUME RequestInv, NEW ids \in Seq(Request), NoRepeats(ids), NEW st \in State,
         mailbox'.terminal = Retire(mailbox, ids, st), retired' = Retired(ids, st)
  PROVE  /\ mailbox'.terminal \in Seq(Entry)
         /\ Len(mailbox'.terminal) <= TerminalCapacity
         /\ retired' \in [Request -> [state : State \cup {"no"}, since : 0 .. TerminalCapacity]]
         /\ Window'
<1> DEFINE C == TerminalCapacity
           t == mailbox.terminal
           L == Len(t)
           fresh == Without(ids, TerminalIds(mailbox))
           n == Len(fresh)
           entries == [i \in DOMAIN fresh |-> [id |-> fresh[i], state |-> st]]
           all == t \o entries
           u == mailbox'.terminal
           Place(r) == CHOOSE i \in DOMAIN fresh : fresh[i] = r
           Capped(k) == IF k < C THEN k ELSE C
           Past == [state : State \cup {"no"}, since : 0 .. C]
<1>1. /\ t \in Seq(Entry) /\ L \in Nat /\ L <= C /\ C \in Nat /\ C > 0
      /\ DOMAIN t = 1 .. L
      /\ \A i \in 1 .. L :
           /\ t[i] = [id |-> t[i].id, state |-> t[i].state]
           /\ t[i].id \in TerminalIds(mailbox) /\ t[i].id \in Request
           /\ retired[t[i].id] = [state |-> t[i].state, since |-> L - i]
      /\ \A r \in TerminalIds(mailbox) : \E i \in 1 .. L : t[i].id = r
  BY TerminalParts
<1>2. /\ fresh \in Seq(Request) /\ n \in Nat /\ DOMAIN fresh = 1 .. n
      /\ \A i \in 1 .. n : fresh[i] \in Request
  <2>1. fresh \in Seq(Request)
    BY WithoutElements
  <2> QED  BY <2>1
<1>3. \A i, j \in 1 .. n : fresh[i] = fresh[j] => i = j
  BY <1>2, WithoutInjective DEF NoRepeats
<1>4. \A i \in 1 .. n : fresh[i] \notin TerminalIds(mailbox)
  BY <1>2, WithoutRange
<1>5. retired' = [r \in Request |->
                    IF Occurs(fresh, r) THEN [state |-> st, since |-> Capped(n - Place(r))]
                    ELSE [retired[r] EXCEPT !.since = Capped(@ + n)]]
  BY WindowIsTerminal DEF Retired
<1>6. u = Latest(all, C)
  BY DEF Retire
<1>7. retired \in [Request -> Past]
  BY DEF RequestInv, RequestTypes
<1>8. \A r \in Request : Remembered(r) => r \in TerminalIds(mailbox)
  BY WindowIsTerminal DEF IsTerminal
<1>9. \A k \in Nat : Capped(k) \in 0 .. C /\ (k < C => Capped(k) = k) /\ (Capped(k) < C => k < C)
  BY <1>1
<1> HIDE DEF t, L, n, fresh, Capped, u
<1>10. entries \in Seq(Entry) /\ Len(entries) = n
       /\ \A i \in 1 .. n : entries[i] = [id |-> fresh[i], state |-> st]
  <2>1. entries \in [1 .. n -> Entry]
    BY <1>2 DEF Entry
  <2> QED  BY <1>2, <2>1
<1> HIDE DEF entries
<1>11. /\ all \in Seq(Entry) /\ Len(all) = L + n
       /\ \A i \in 1 .. L : all[i] = t[i]
       /\ \A i \in 1 .. n : all[L + i] = [id |-> fresh[i], state |-> st]
  <2>1. all \in Seq(Entry) /\ Len(all) = Len(t) + Len(entries)
    BY <1>1, <1>10, ConcatProperties
  <2>2. \A i \in 1 .. Len(t) + Len(entries) : all[i] = IF i <= Len(t) THEN t[i] ELSE entries[i - Len(t)]
    BY <1>1, <1>10, ConcatProperties
  <2>3. \A i \in 1 .. L : i \in 1 .. L + n /\ i <= L
    BY <1>1, <1>2
  <2>4. \A i \in 1 .. n : L + i \in 1 .. L + n /\ ~ (L + i <= L) /\ L + i - L = i
    BY <1>1, <1>2
  <2> QED  BY <1>10, <2>1, <2>2, <2>3, <2>4 DEF L
<1> HIDE DEF all
<1> DEFINE d == IF L + n > C THEN L + n - C ELSE 0
<1>12. /\ u \in Seq(Entry) /\ Len(u) = L + n - d
       /\ \A i \in 1 .. L + n - d : u[i] = all[i + d]
  <2>1. LET e == IF Len(all) > C THEN Len(all) - C ELSE 0 IN
        /\ Latest(all, C) \in Seq(Entry) /\ Len(Latest(all, C)) = Len(all) - e
        /\ \A i \in 1 .. Len(all) - e : Latest(all, C)[i] = all[i + e]
    BY <1>1, <1>11, LatestElements
  <2>2. Len(all) = L + n
    BY <1>11
  <2>3. d \in Nat /\ d = IF Len(all) > C THEN Len(all) - C ELSE 0
    BY <1>1, <1>2, <2>2
  <2> HIDE DEF d, C
  <2>4. /\ Latest(all, C) \in Seq(Entry) /\ Len(Latest(all, C)) = Len(all) - d
        /\ \A i \in 1 .. Len(all) - d : Latest(all, C)[i] = all[i + d]
    BY <2>1, <2>3
  <2>5. Len(all) - d = L + n - d
    BY <1>1, <1>2, <2>2, <2>3
  <2> QED  BY <1>6, <2>4, <2>5
<1>13. /\ d \in Nat /\ L + n - d <= C
       /\ \A k \in 1 .. L + n : L + n - k < C => k - d \in 1 .. L + n - d /\ (k - d) + d = k
       /\ \A i \in 1 .. L + n - d : /\ i + d \in 1 .. L + n /\ L + n - d - i = L + n - (i + d)
                                    /\ L + n - (i + d) \in Nat /\ L + n - (i + d) < C
  <2>1. CASE L + n > C
    BY <1>1, <1>2, <2>1
  <2>2. CASE ~ (L + n > C)
    BY <1>1, <1>2, <2>2
  <2> QED  BY <2>1, <2>2
<1> HIDE DEF d
<1>14. DOMAIN u = 1 .. L + n - d
  BY <1>12
\* What was retired before keeps its place, as one of n more,
<1>15. ASSUME NEW i \in 1 .. L
       PROVE  retired'[t[i].id] = [state |-> t[i].state, since |-> Capped(L + n - i)]
  <2>1. ~ Occurs(fresh, t[i].id)
    BY <1>1, <1>2, <1>4 DEF Occurs
  <2>2. retired'[t[i].id] = [retired[t[i].id] EXCEPT !.since = Capped(@ + n)]
    BY <1>1, <1>5, <2>1
  <2>3. retired[t[i].id] = [state |-> t[i].state, since |-> L - i]
    BY <1>1
  <2>4. L - i + n = L + n - i
    BY <1>1, <1>2
  <2> QED  BY <2>2, <2>3, <2>4
\* and what is retired now has its place at the end.
<1>16. ASSUME NEW i \in 1 .. n
       PROVE  retired'[fresh[i]] = [state |-> st, since |-> Capped(n - i)]
  <2>1. Occurs(fresh, fresh[i]) /\ Place(fresh[i]) = i
    BY <1>2, <1>3 DEF Occurs
  <2> QED  BY <1>2, <1>5, <2>1
<1>17. ASSUME NEW i \in DOMAIN u
       PROVE  retired'[u[i].id] = [state |-> u[i].state, since |-> Len(u) - i]
  <2> DEFINE k == i + d
  <2>1. /\ k \in 1 .. L + n /\ u[i] = all[k] /\ Len(u) - i = L + n - k
        /\ L + n - k \in Nat /\ L + n - k < C
    <3>1. i \in 1 .. L + n - d
      BY <1>14
    <3>2. k \in 1 .. L + n /\ L + n - d - i = L + n - k /\ L + n - k \in Nat /\ L + n - k < C
      BY <1>13, <3>1
    <3>3. u[i] = all[k] /\ Len(u) = L + n - d
      BY <1>12, <3>1
    <3> QED  BY <1>1, <1>2, <1>13, <3>2, <3>3
  <2> HIDE DEF k
  <2>2. CASE k <= L
    <3>1. k \in 1 .. L
      BY <1>1, <1>2, <2>1, <2>2
    <3>2. u[i] = t[k] /\ retired'[t[k].id] = [state |-> t[k].state, since |-> Capped(L + n - k)]
      BY <1>11, <1>15, <2>1, <3>1
    <3> QED  BY <1>9, <2>1, <3>2
  <2>3. CASE ~ (k <= L)
    <3>1. PICK j \in 1 .. n : L + j = k
      <4>1. k - L \in 1 .. n /\ L + (k - L) = k
        BY <1>1, <1>2, <2>1, <2>3
      <4> QED  BY <4>1
    <3>2. n - j = L + n - k
      BY <1>1, <1>2, <3>1
    <3>3. u[i] = [id |-> fresh[j], state |-> st]
      BY <1>11, <2>1, <3>1
    <3>4. retired'[fresh[j]] = [state |-> st, since |-> Capped(n - j)]
      BY <1>16
    <3>5. u[i].id = fresh[j] /\ u[i].state = st
      BY <3>3
    <3> QED  BY <1>9, <2>1, <3>2, <3>4, <3>5
  <2> QED  BY <2>2, <2>3
<1>18. ASSUME NEW r \in Request, Remembered(r)'
       PROVE  \E i \in DOMAIN u : u[i].id = r
  <2>1. retired'[r].state # "no" /\ retired'[r].since < C
    BY <1>18 DEF Remembered
  <2>2. CASE Occurs(fresh, r)
    <3>1. PICK k \in 1 .. n : fresh[k] = r
      BY <1>2, <2>2 DEF Occurs
    <3>2. n - k < C
      <4>1. Capped(n - k) < C /\ n - k \in Nat
        <5>1. retired'[fresh[k]] = [state |-> st, since |-> Capped(n - k)]
          BY <1>16
        <5> QED  BY <1>2, <2>1, <3>1, <5>1
      <4> QED  BY <1>9, <4>1
    <3>3. L + k \in 1 .. L + n /\ L + n - (L + k) < C
      BY <1>1, <1>2, <3>2
    <3>4. u[L + k - d] = [id |-> fresh[k], state |-> st] /\ L + k - d \in DOMAIN u
      <4> DEFINE j == L + k
      <4>1. j - d \in 1 .. L + n - d /\ (j - d) + d = j
        BY <1>13, <3>3
      <4>2. all[j] = [id |-> fresh[k], state |-> st]
        BY <1>11
      <4> HIDE DEF j
      <4>3. u[j - d] = all[j] /\ j - d \in DOMAIN u
        BY <1>12, <1>14, <4>1
      <4>4. j - d = L + k - d
        BY <1>1, <1>2, <1>13 DEF j
      <4> QED  BY <4>2, <4>3, <4>4
    <3>5. u[L + k - d].id = r
      BY <3>1, <3>4
    <3> QED  BY <3>4, <3>5
  <2>3. CASE ~ Occurs(fresh, r)
    <3>1. retired[r] \in Past /\ retired'[r] = [retired[r] EXCEPT !.since = Capped(@ + n)]
      BY <1>5, <1>7, <2>3
    <3>2. /\ retired[r].state # "no" /\ Capped(retired[r].since + n) < C
          /\ retired[r].since \in Nat
      BY <1>1, <2>1, <3>1
    <3>3. retired[r].since + n < C /\ retired[r].since < C
      <4>1. retired[r].since + n \in Nat
        BY <1>2, <3>2
      <4>2. retired[r].since + n < C
        BY <1>9, <3>2, <4>1
      <4> QED  BY <1>1, <1>2, <3>2, <4>2
    <3>4. PICK j \in 1 .. L : t[j].id = r
      BY <1>1, <1>8, <3>2, <3>3 DEF Remembered
    <3>5. retired[r].since = L - j
      <4>1. retired[t[j].id] = [state |-> t[j].state, since |-> L - j]
        BY <1>1
      <4> QED  BY <3>4, <4>1
    <3>6. j \in 1 .. L + n /\ L + n - j < C
      BY <1>1, <1>2, <3>3, <3>5
    <3>7. u[j - d] = t[j] /\ j - d \in DOMAIN u
      BY <1>11, <1>12, <1>13, <1>14, <3>6
    <3> QED  BY <3>4, <3>7
  <2> QED  BY <2>2, <2>3
<1>19. retired' \in [Request -> Past]
  <2>1. ASSUME NEW r \in Request
        PROVE  retired'[r] \in Past
    <3>1. CASE Occurs(fresh, r)
      <4>1. PICK k \in 1 .. n : fresh[k] = r
        BY <1>2, <3>1 DEF Occurs
      <4>2. Capped(n - k) \in 0 .. C
        BY <1>2, <1>9
      <4>3. retired'[fresh[k]] = [state |-> st, since |-> Capped(n - k)]
        BY <1>16
      <4> QED  BY <4>1, <4>2, <4>3
    <3>2. CASE ~ Occurs(fresh, r)
      <4>1. retired[r] \in Past /\ retired'[r] = [retired[r] EXCEPT !.since = Capped(@ + n)]
        BY <1>5, <1>7, <3>2
      <4>2. Capped(retired[r].since + n) \in 0 .. C
        <5>1. retired[r].since + n \in Nat
          BY <1>1, <1>2, <4>1
        <5> QED  BY <1>9, <5>1
      <4> QED  BY <4>1, <4>2
    <3> QED  BY <3>1, <3>2
  <2> HIDE DEF Place
  <2> QED  BY <1>5, <2>1
<1>20. \A r \in Request : Remembered(r)' => IsTerminal(mailbox, r)'
  BY <1>18 DEF IsTerminal, TerminalIds, u
<1>21. /\ u \in Seq(Entry) /\ Len(u) <= C
       /\ \A i \in DOMAIN u : retired'[u[i].id] = [state |-> u[i].state, since |-> Len(u) - i]
  BY <1>1, <1>2, <1>12, <1>13, <1>17
<1> QED  BY <1>19, <1>20, <1>21 DEF Window, u

\* A step that retires nothing: the queue changes, or who has been peeked.
LEMMA NothingRetired ==
  ASSUME RequestInv,
         mailbox' = [documents |-> mailbox'.documents, auto |-> mailbox'.auto,
                     manual |-> mailbox'.manual, terminal |-> mailbox.terminal],
         mailbox'.manual \in Seq(Request), NoRepeats(mailbox'.manual),
         peeked' \in Request \cup {NoRequest}, retired' = retired
  PROVE  RequestInv'
<1>1. mailbox'.terminal = mailbox.terminal
  OBVIOUS
<1>2. RequestTypes'
  BY <1>1 DEF RequestInv, RequestTypes
<1>3. Window'
  BY <1>1 DEF RequestInv, Window, Remembered, IsTerminal, TerminalIds
<1> QED  BY <1>2, <1>3 DEF RequestInv

\* A step that retires ids and takes them off the queue.
LEMMA SomeRetired ==
  ASSUME RequestInv, NEW ids \in Seq(Request), NoRepeats(ids), NEW st \in State,
         mailbox' = [documents |-> mailbox'.documents, auto |-> mailbox'.auto,
                     manual |-> mailbox'.manual, terminal |-> Retire(mailbox, ids, st)],
         mailbox'.manual \in Seq(Request), NoRepeats(mailbox'.manual),
         peeked' \in Request \cup {NoRequest}, retired' = Retired(ids, st)
  PROVE  RequestInv'
<1>1. mailbox'.terminal = Retire(mailbox, ids, st)
  OBVIOUS
<1>2. /\ mailbox'.terminal \in Seq(Entry) /\ Len(mailbox'.terminal) <= TerminalCapacity
      /\ retired' \in [Request -> [state : State \cup {"no"}, since : 0 .. TerminalCapacity]]
      /\ Window'
  BY <1>1, RetireStep
<1>3. mailbox' = [documents |-> mailbox'.documents, auto |-> mailbox'.auto,
                  manual |-> mailbox'.manual, terminal |-> mailbox'.terminal]
  BY <1>1
<1> QED  BY <1>2, <1>3 DEF RequestInv, RequestTypes, Entry

LEMMA RequestInit == Init => RequestInv
<1> SUFFICES ASSUME Init PROVE RequestInv
  OBVIOUS
<1>1. /\ mailbox = [documents |-> <<>>, auto |-> FALSE, manual |-> <<>>, terminal |-> <<>>]
      /\ peeked = NoRequest
      /\ retired = [r \in Request |-> [state |-> "no", since |-> TerminalCapacity]]
  BY DEF Init, EmptyMailbox
<1>2. <<>> \in Seq(Request) /\ <<>> \in Seq([id : Request, state : State])
      /\ Len(<<>>) = 0 /\ DOMAIN <<>> = {}
  OBVIOUS
<1>3. RequestTypes
  <2>1. TerminalCapacity \in 0 .. TerminalCapacity /\ 0 <= TerminalCapacity
    BY CapacityAssumption
  <2> QED  BY <1>1, <1>2, <2>1 DEF RequestTypes, NoRepeats
<1>4. Window
  BY <1>1, <1>2 DEF Window, Remembered
<1> QED  BY <1>3, <1>4 DEF RequestInv

LEMMA RequestStep ==
  ASSUME RequestInv, [Next]_vars
  PROVE  /\ RequestInv'
         /\ \A r \in Request : Pending(mailbox', r) => Pending(mailbox, r) \/ ~ Remembered(r)
<1> DEFINE Fresh(r) == Pending(mailbox', r) => Pending(mailbox, r) \/ ~ Remembered(r)
<1>1. /\ mailbox = [documents |-> mailbox.documents, auto |-> mailbox.auto,
                    manual |-> mailbox.manual, terminal |-> mailbox.terminal]
      /\ peeked \in Request \cup {NoRequest}
      /\ mailbox.manual \in Seq(Request) /\ NoRepeats(mailbox.manual)
  BY DEF RequestInv, RequestTypes
<1>2. /\ <<>> \in Seq(Request) /\ NoRepeats(<<>>) /\ \A r : ~ Occurs(<<>>, r)
      /\ "acked" \in State /\ "cancelled" \in State
  BY DEF NoRepeats, Occurs, State
<1>3. ASSUME \/ Rescan \/ ArmRescan \/ DrainForSweep \/ TakeNext \/ Peek \/ Abandon \/ UNCHANGED vars
             \/ \E docs \in Batches : Announce(docs)
      PROVE  RequestInv' /\ \A r \in Request : Fresh(r)
  <2>1. mailbox' = [documents |-> mailbox'.documents, auto |-> mailbox'.auto,
                    manual |-> mailbox.manual, terminal |-> mailbox.terminal]
    BY <1>1, <1>3 DEF Rescan, ArmRescan, DrainForSweep, TakeNext, Peek, Abandon, vars, Announce,
       ConsumeAutoRescan, RequestAutoRescan, DrainDocuments, NextDocumentTaken, PutDocuments
  <2>2. mailbox'.manual = mailbox.manual
    BY <2>1
  <2>3. retired' = retired
    BY <1>3 DEF Rescan, ArmRescan, DrainForSweep, TakeNext, Peek, Abandon, vars, Announce
  <2>4. peeked' \in Request \cup {NoRequest}
    <3>1. CASE Peek
      BY <1>1, <3>1, HeadTailProperties DEF Peek
    <3> QED  BY <1>1, <1>3, <3>1 DEF Rescan, ArmRescan, DrainForSweep, TakeNext, Abandon, vars,
                Announce
  <2>5. RequestInv'
    BY <1>1, <2>1, <2>2, <2>3, <2>4, NothingRetired
  <2> QED  BY <2>2, <2>5 DEF Pending
<1>4. ASSUME NEW q \in Request, PublishRetry(q)
      PROVE  RequestInv' /\ \A r \in Request : Fresh(r)
  <2>1. CASE PublishResult(mailbox, q) = "accepted" /\ ~ Pending(mailbox, q)
    <3> DEFINE old == mailbox.manual
               new == Append(old, q)
    <3>1. mailbox' = [mailbox EXCEPT !.manual = new]
      BY <1>4, <2>1 DEF PublishRetry, RequestManualRetry
    <3>2. mailbox' = [documents |-> mailbox'.documents, auto |-> mailbox'.auto,
                      manual |-> mailbox'.manual, terminal |-> mailbox.terminal]
          /\ mailbox'.manual = new
      BY <1>1, <3>1
    <3>3. ~ Remembered(q)
      BY <2>1, WindowIsTerminal DEF PublishResult
    <3>4. /\ new \in Seq(Request) /\ Len(old) \in Nat /\ DOMAIN new = 1 .. Len(old) + 1
          /\ DOMAIN old = 1 .. Len(old)
          /\ \A i \in 1 .. Len(old) : new[i] = old[i]
          /\ new[Len(old) + 1] = q
      BY <1>1, AppendProperties, LenProperties
    <3>5. \A i \in 1 .. Len(old) + 1 : i \in 1 .. Len(old) \/ i = Len(old) + 1
      BY <3>4
    <3>6. \A i \in DOMAIN old : old[i] # q
      BY <2>1 DEF Pending, Occurs
    <3>7. NoRepeats(new)
      BY <1>1, <3>4, <3>5, <3>6 DEF NoRepeats
    <3>8. \A r : Occurs(new, r) => Occurs(old, r) \/ r = q
      BY <3>4, <3>5 DEF Occurs
    <3>9. RequestInv'
      BY <1>1, <1>4, <3>2, <3>4, <3>7, NothingRetired DEF PublishRetry
    <3> QED  BY <3>2, <3>3, <3>8, <3>9 DEF Pending
  <2>2. CASE ~ (PublishResult(mailbox, q) = "accepted" /\ ~ Pending(mailbox, q))
    <3>1. mailbox' = mailbox
      BY <1>4, <2>2 DEF PublishRetry, RequestManualRetry
    <3>2. RequestInv'
      BY <1>1, <1>4, <3>1, NothingRetired DEF PublishRetry
    <3> QED  BY <3>1, <3>2
  <2> QED  BY <2>1, <2>2
<1>5. ASSUME Acknowledge
      PROVE  RequestInv' /\ \A r \in Request : Fresh(r)
  <2> DEFINE ids == <<peeked>>
             new == Without(mailbox.manual, {peeked})
  <2>1. peeked \in Request /\ peeked' = NoRequest /\ retired' = Retired(ids, "acked")
    BY <1>1, <1>5 DEF Acknowledge
  <2>2. mailbox' = [mailbox EXCEPT !.manual = new, !.terminal = Retire(mailbox, ids, "acked")]
    BY <1>5 DEF Acknowledge, AckManualRetry
  <2>3. ids \in Seq(Request) /\ NoRepeats(ids)
    BY <2>1 DEF NoRepeats
  <2>4. new \in Seq(Request) /\ NoRepeats(new)
    BY <1>1, WithoutElements, WithoutInjective DEF NoRepeats
  <2>5. \A r : Occurs(new, r) => Occurs(mailbox.manual, r)
    <3>1. ASSUME NEW r, Occurs(new, r)
          PROVE  Occurs(mailbox.manual, r)
      <4>1. \E j \in DOMAIN new : new[j] = r
        BY <3>1 DEF Occurs
      <4>2. \E i \in DOMAIN mailbox.manual : mailbox.manual[i] = r
        <5> DEFINE old == mailbox.manual
                   T == {peeked}
        <5>1. old \in Seq(Request) /\ \E j \in DOMAIN Without(old, T) : Without(old, T)[j] = r
          BY <1>1, <4>1
        <5> HIDE DEF old, T
        <5>2. \E i \in DOMAIN old : old[i] = r
          BY <5>1, WithoutRange
        <5> QED  BY <5>2 DEF old
      <4> QED  BY <4>2 DEF Occurs
    <3> QED  BY <3>1
  <2> HIDE DEF ids, new
  <2>6. /\ mailbox' = [documents |-> mailbox'.documents, auto |-> mailbox'.auto,
                       manual |-> mailbox'.manual, terminal |-> Retire(mailbox, ids, "acked")]
        /\ mailbox'.manual = new
    BY <1>1, <2>2
  <2>7. RequestInv'
    BY <1>2, <2>1, <2>3, <2>4, <2>6, SomeRetired
  <2> QED  BY <2>5, <2>6, <2>7 DEF Pending
<1>6. ASSUME ForceResetRequests \/ ClearAll
      PROVE  RequestInv' /\ \A r \in Request : Fresh(r)
  <2>1. /\ mailbox' = [documents |-> mailbox'.documents, auto |-> mailbox'.auto,
                       manual |-> <<>>, terminal |-> Retire(mailbox, mailbox.manual, "cancelled")]
        /\ retired' = Retired(mailbox.manual, "cancelled") /\ peeked' = peeked
    BY <1>1, <1>6 DEF ForceResetRequests, ClearAll, CancelManualRetries, ClearMailbox, EmptyMailbox
  <2>2. mailbox'.manual = <<>>
    BY <2>1
  <2>3. RequestInv'
    BY <1>1, <1>2, <2>1, <2>2, SomeRetired
  <2> QED  BY <1>2, <2>2, <2>3 DEF Pending
<1> QED  BY <1>3, <1>4, <1>5, <1>6 DEF Next

LEMMA RequestInvariance == Spec => []RequestInv
<1>1. RequestInv /\ [Next]_vars => RequestInv'
  BY RequestStep
<1> QED  BY RequestInit, <1>1, PTL DEF Spec

\* Whatever is acknowledged late, cancelled by a clear or reset, or retired in bulk: for
\* any capacities, the list reports of each request in the window what became of it
\* first, and reports it once.
THEOREM FirstStateStays == Spec => []FirstTerminalStateWins
<1>1. ASSUME RequestInv PROVE FirstTerminalStateWins
  <2> DEFINE t == mailbox.terminal
             L == Len(t)
  <2>1. /\ L \in Nat /\ DOMAIN t = 1 .. L
        /\ \A i \in 1 .. L : /\ t[i] = [id |-> t[i].id, state |-> t[i].state]
                             /\ retired[t[i].id] = [state |-> t[i].state, since |-> L - i]
        /\ \A r \in TerminalIds(mailbox) : \E i \in 1 .. L : t[i].id = r
    BY <1>1, TerminalParts
  <2>2. \A r \in Request : Remembered(r) => r \in TerminalIds(mailbox)
    BY <1>1, WindowIsTerminal DEF IsTerminal
  <2> HIDE DEF t, L
  <2>3. ASSUME NEW i \in 1 .. L
        PROVE  retired[t[i].id].state = t[i].state /\ retired[t[i].id].since = L - i
    <3>1. retired[t[i].id] = [state |-> t[i].state, since |-> L - i]
      BY <2>1
    <3> QED  BY <3>1
  <2>4. ASSUME NEW r \in Request, Remembered(r)
        PROVE  \E i \in 1 .. L : t[i] = [id |-> r, state |-> retired[r].state]
    <3>1. PICK i \in 1 .. L : t[i].id = r
      BY <2>1, <2>2, <2>4
    <3>2. t[i] = [id |-> t[i].id, state |-> t[i].state]
      BY <2>1
    <3>3. retired[t[i].id].state = t[i].state
      BY <2>3
    <3>4. t[i] = [id |-> r, state |-> retired[r].state]
      BY <3>1, <3>2, <3>3
    <3> QED  BY <3>4
  <2>5. ASSUME NEW i \in 1 .. L, NEW j \in 1 .. L, t[i].id = t[j].id
        PROVE  i = j
    <3>1. L - i = L - j
      BY <2>3, <2>5
    <3> QED  BY <2>1, <3>1
  <2> QED  BY <2>1, <2>4, <2>5 DEF FirstTerminalStateWins, t
<1> QED  BY RequestInvariance, <1>1, PTL

\* Nothing that was acknowledged or cancelled is queued again within the window: the
\* guard of request_manual_retry, which reads the list, sees all of it.
THEOREM RetiredStayOut == Spec => NoReplay
<1>1. ASSUME RequestInv, [Next]_vars
      PROVE  [\A r \in Request :
                ~ Pending(mailbox, r) /\ Pending(mailbox', r) => ~ Remembered(r)]_vars
  BY <1>1, RequestStep
<1>2. RequestInv /\ [Next]_vars =>
        [\A r \in Request : ~ Pending(mailbox, r) /\ Pending(mailbox', r) => ~ Remembered(r)]_vars
  BY <1>1
<1> QED  BY RequestInvariance, <1>2, PTL DEF Spec, NoReplay
=============================================================================

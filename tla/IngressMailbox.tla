--------------------------- MODULE IngressMailbox ---------------------------
(***************************************************************************)
(* One workspace's PipelineIngressMailbox (ontorag/kg/pipeline_ingress.py) *)
(* as operators on a record.  Every method of the mailbox holds its        *)
(* condition lock, so each is one step of whoever calls it.                *)
(*                                                                         *)
(*   documents  lossy FIFO of document notifications                       *)
(*   auto       the auto-rescan dirty flag                                 *)
(*   manual     sticky manual retry request ids, oldest first              *)
(*   terminal   [id, state] of retired request ids, oldest first           *)
(***************************************************************************)
EXTENDS Naturals, Sequences, SequenceFilter

CONSTANTS
    DocumentCapacity,   \* DOCUMENT_CHANNEL_CAPACITY
    ManualCapacity,     \* MAX_UNACKED_MANUAL_RETRIES
    TerminalCapacity    \* TERMINAL_MANUAL_REQUEST_IDS_CAPACITY

ASSUME CapacityAssumption == /\ DocumentCapacity \in Nat \ {0}
                             /\ ManualCapacity \in Nat \ {0}
                             /\ TerminalCapacity \in Nat \ {0}

EmptyMailbox ==
    [documents |-> <<>>, auto |-> FALSE, manual |-> <<>>, terminal |-> <<>>]

Occurs(s, x) == \E i \in DOMAIN s : s[i] = x
TerminalIds(m) == {m.terminal[i].id : i \in DOMAIN m.terminal}
IsTerminal(m, r) == r \in TerminalIds(m)
Pending(m, r)    == Occurs(m.manual, r)
HasWork(m) == m.documents # <<>> \/ m.auto \/ m.manual # <<>>

\* The n most recent elements of s.
Latest(s, n) == IF Len(s) > n THEN SubSeq(s, Len(s) - n + 1, Len(s)) ELSE s

(***************************************************************************)
(* Publishing.                                                             *)
(***************************************************************************)
\* A mutant: an overflowing notification is simply dropped.
PutDropping(m, docs) ==
    IF Len(m.documents \o docs) <= DocumentCapacity
    THEN [m EXCEPT !.documents = @ \o docs]
    ELSE [m EXCEPT !.documents = SubSeq(@ \o docs, 1, DocumentCapacity)]

\* Notifications beyond the capacity are dropped and coalesced into `auto`.
PutDocuments(m, docs) ==
    LET all == m.documents \o docs
    IN  IF Len(all) <= DocumentCapacity
        THEN [m EXCEPT !.documents = all]
        ELSE [m EXCEPT !.documents = SubSeq(all, 1, DocumentCapacity),
                       !.auto = TRUE]

RequestAutoRescan(m) == [m EXCEPT !.auto = TRUE]

\* A mutant: the replay guard forgets the requests a clear has cancelled.
PublishReplay(m, r) ==
    IF \E i \in DOMAIN m.terminal : m.terminal[i] = [id |-> r, state |-> "acked"]
    THEN "already_terminal"
    ELSE IF ~ Pending(m, r) /\ Len(m.manual) >= ManualCapacity
         THEN "capacity_exceeded" ELSE "accepted"

PublishResult(m, r) ==
    IF IsTerminal(m, r) THEN "already_terminal"
    ELSE IF ~ Pending(m, r) /\ Len(m.manual) >= ManualCapacity
         THEN "capacity_exceeded" ELSE "accepted"

RequestManualRetry(m, r) ==
    IF PublishResult(m, r) = "accepted" /\ ~ Pending(m, r)
    THEN [m EXCEPT !.manual = Append(@, r)]
    ELSE m

(***************************************************************************)
(* Consuming.                                                              *)
(***************************************************************************)
ConsumeAutoRescan(m) == [m EXCEPT !.auto = FALSE]
DrainDocuments(m)    == [m EXCEPT !.documents = <<>>]
NextDocumentTaken(m) == [m EXCEPT !.documents = Tail(@)]

\* A mutant: a later terminal state replaces the earlier one.
RetireOverwriting(m, ids, state) ==
    Latest(SelectSeq(m.terminal, LAMBDA e : ~ Occurs(ids, e.id))
             \o [i \in DOMAIN ids |-> [id |-> ids[i], state |-> state]],
           TerminalCapacity)

\* The first terminal state of an id stays; the oldest ids are evicted.
Retire(m, ids, state) ==
    LET fresh == Without(ids, TerminalIds(m))
    IN  Latest(m.terminal
                 \o [i \in DOMAIN fresh |-> [id |-> fresh[i], state |-> state]],
               TerminalCapacity)

AckManualRetry(m, r) ==
    [m EXCEPT !.manual = Without(@, {r}),
              !.terminal = Retire(m, <<r>>, "acked")]

CancelManualRetries(m) ==
    [m EXCEPT !.manual = <<>>, !.terminal = Retire(m, m.manual, "cancelled")]

\* clear(): for destructive operations.
ClearMailbox(m) ==
    [EmptyMailbox EXCEPT !.terminal = Retire(m, m.manual, "cancelled")]
=============================================================================

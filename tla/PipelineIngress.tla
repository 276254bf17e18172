--------------------------- MODULE PipelineIngress ---------------------------
(***************************************************************************)
(* The mailbox as its users drive it, for any interleaving of publishers   *)
(* with the single consumer, destructive clears and force resets.  What    *)
(* is published twice, dropped at capacity or retired late must neither    *)
(* be forgotten nor be replayed.                                           *)
(***************************************************************************)
EXTENDS IngressMailbox, FiniteSets

CONSTANTS Document, Request, NoRequest

ASSUME NoRequestAssumption == NoRequest \notin Request

VARIABLES
    mailbox,
    peeked,     \* the request the consumer has peeked and not yet acknowledged
    open,       \* history: announced documents nobody has taken or rescanned
    retired     \* history: how each request was retired, and how many ids since

vars == <<mailbox, peeked, open, retired>>

\* Requests fall out of the replay window after TerminalCapacity later ones.
Remembered(r) == retired[r].state # "no" /\ retired[r].since < TerminalCapacity

Init ==
    /\ mailbox = EmptyMailbox
    /\ peeked = NoRequest
    /\ open = {}
    /\ retired = [r \in Request |-> [state |-> "no", since |-> TerminalCapacity]]

\* The history after ids, oldest first, were retired.
Retired(ids, state) ==
    LET fresh == Without(ids, {r \in Request : Remembered(r)})
        Place(r) == CHOOSE i \in DOMAIN fresh : fresh[i] = r
        Capped(n) == IF n < TerminalCapacity THEN n ELSE TerminalCapacity
    IN  [r \in Request |->
           IF Occurs(fresh, r)
           THEN [state |-> state, since |-> Capped(Len(fresh) - Place(r))]
           ELSE [retired[r] EXCEPT !.since = Capped(@ + Len(fresh))]]

-----------------------------------------------------------------------------
\* put_document(s): one notification, or the several of one enqueue.
Announce(docs) ==
    /\ mailbox' = PutDocuments(mailbox, docs)
    /\ open' = open \cup {docs[i] : i \in DOMAIN docs}
    /\ UNCHANGED <<peeked, retired>>

\* A publisher that cannot announce, a clear turned away, an error path.
ArmRescan ==
    /\ mailbox' = RequestAutoRescan(mailbox)
    /\ UNCHANGED <<peeked, open, retired>>

\* request_manual_retry, first published or replayed.
PublishRetry(r) ==
    /\ mailbox' = RequestManualRetry(mailbox, r)
    /\ UNCHANGED <<peeked, open, retired>>

\* The consumer rescans doc_status, where every announced document has a row.
Rescan ==
    /\ mailbox.auto
    /\ mailbox' = ConsumeAutoRescan(mailbox)
    /\ open' = {}
    /\ UNCHANGED <<peeked, retired>>

DrainForSweep ==
    /\ mailbox.documents # <<>>
    /\ mailbox' = DrainDocuments(mailbox)
    /\ open' = {d \in open : ~ Occurs(mailbox.documents, d)}
    /\ UNCHANGED <<peeked, retired>>

\* The feeder takes the next document of the running batch.
TakeNext ==
    /\ mailbox.documents # <<>>
    /\ mailbox' = NextDocumentTaken(mailbox)
    /\ open' = open \ {Head(mailbox.documents)}
    /\ UNCHANGED <<peeked, retired>>

Peek ==
    /\ peeked = NoRequest /\ mailbox.manual # <<>>
    /\ peeked' = Head(mailbox.manual)
    /\ UNCHANGED <<mailbox, open, retired>>

\* The acknowledgement may come after a force reset has cancelled the request.
Acknowledge ==
    /\ peeked # NoRequest
    /\ mailbox' = AckManualRetry(mailbox, peeked)
    /\ retired' = Retired(<<peeked>>, "acked")
    /\ peeked' = NoRequest
    /\ UNCHANGED open

\* The drive that peeked ends without an acknowledgement.
Abandon ==
    /\ peeked # NoRequest
    /\ peeked' = NoRequest
    /\ UNCHANGED <<mailbox, open, retired>>

ForceResetRequests ==
    /\ mailbox' = CancelManualRetries(mailbox)
    /\ retired' = Retired(mailbox.manual, "cancelled")
    /\ UNCHANGED <<peeked, open>>

\* DELETE /documents: the documents are dropped with their announcements.
ClearAll ==
    /\ mailbox' = ClearMailbox(mailbox)
    /\ retired' = Retired(mailbox.manual, "cancelled")
    /\ open' = {}
    /\ UNCHANGED peeked

Batches == {<<d>> : d \in Document} \cup {<<d, e>> : d, e \in Document}

Next ==
    \/ \E docs \in Batches : Announce(docs)
    \/ \E r \in Request : PublishRetry(r)
    \/ ArmRescan \/ Rescan \/ DrainForSweep \/ TakeNext
    \/ Peek \/ Acknowledge \/ Abandon \/ ForceResetRequests \/ ClearAll

Spec == Init /\ [][Next]_vars

-----------------------------------------------------------------------------
\* The channel is lossy, the announcement is not: a document whose notification
\* was dropped at capacity is found by the rescan the overflow has armed.
\* (_put_document_locked)
NothingUnannounced == \A d \in open : Occurs(mailbox.documents, d) \/ mailbox.auto

\* "The first terminal state wins so a late ACK cannot overwrite
\* CANCELLED_BY_CLEAR": within the window the mailbox reports what became of a
\* request first, whatever is retired, cancelled or acknowledged after it.
FirstTerminalStateWins ==
    /\ \A r \in Request : Remembered(r) =>
         \E i \in DOMAIN mailbox.terminal :
            mailbox.terminal[i] = [id |-> r, state |-> retired[r].state]
    /\ \A i, j \in DOMAIN mailbox.terminal :
         i # j => mailbox.terminal[i].id # mailbox.terminal[j].id

\* "The bounded-window replay guard": a request that was acknowledged or cancelled
\* is not queued a second time before TerminalCapacity others have been retired.
NoReplay ==
    [][\A r \in Request :
         ~ Pending(mailbox, r) /\ Pending(mailbox', r) => ~ Remembered(r)]_vars
=============================================================================

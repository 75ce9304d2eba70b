--------------------------- MODULE OutboxPublisher ---------------------------
(***************************************************************************)
(* The processes that publish outbox events to JetStream: the publisher    *)
(* process and, when outbox_worker_enabled, a task of each API process.    *)
(* publish_batch is one transaction around many publications: it locks the *)
(* oldest unpublished events (skipping locked ones), publishes and marks   *)
(* them one by one, and commits at the end. A publication cannot be rolled *)
(* back, so an aborted batch is published again.                           *)
(***************************************************************************)
EXTENDS NotificationsDb

CONSTANTS Publishers,
          OutboxBatch       \* outbox_batch_size

ASSUME OutboxBatchAssumption == OutboxBatch \in Nat

VARIABLE batch              \* each publisher's transaction

\* "held" are the events it has locked, "todo" those it has yet to publish,
\* "event" the one it is at, "sent" and "failed" its uncommitted marks.
Transactions == [pc : {"idle", "publish", "mark", "markFailed"},
                 held : SUBSET EventIds, todo : SUBSET EventIds,
                 event : EventIds \cup {None},
                 sent : SUBSET EventIds, failed : SUBSET EventIds]

PublisherTypeOK == batch \in [Publishers -> Transactions]

NoBatch == [pc |-> "idle", held |-> {}, todo |-> {}, event |-> None,
            sent |-> {}, failed |-> {}]

PublisherInit == batch = [p \in Publishers |-> NoBatch]

Continue(p, tx) == batch' = [batch EXCEPT ![p] = tx]

\* Mutant of Unpublished: an event that failed once is not tried again.
UnpublishedUnfailed == {e \in Events : ~outbox[e].published /\ ~outbox[e].failed}

\* WHERE published_at IS NULL
Unpublished == {e \in Events : ~outbox[e].published}

EventLocked(e) == \E p \in Publishers : e \in batch[p].held

\* Mutant of LockUnpublished: without FOR UPDATE SKIP LOCKED.
LockUnpublishedShared(p) ==
    /\ batch[p].pc = "idle"
    /\ \E b \in Batches(Unpublished, OutboxBatch,
                        [e \in Unpublished |-> outbox[e].createdAt]) :
         /\ b # {}
         /\ Continue(p, [NoBatch EXCEPT !.pc = "publish", !.held = b, !.todo = b])
    /\ UNCHANGED dbVars

\* lock_unpublished_batch. An empty batch changes nothing.
LockUnpublished(p) ==
    /\ batch[p].pc = "idle"
    /\ \E b \in Batches({e \in Unpublished : ~EventLocked(e)}, OutboxBatch,
                        [e \in Unpublished |-> outbox[e].createdAt]) :
         /\ b # {}
         /\ Continue(p, [NoBatch EXCEPT !.pc = "publish", !.held = b, !.todo = b])
    /\ UNCHANGED dbVars

\* The event the loop is at: an oldest one of those left.
NextEvent(p) == {e \in batch[p].todo :
                   \A d \in batch[p].todo : outbox[e].createdAt <= outbox[d].createdAt}

\* The stream stores the message and its acknowledgement comes back.
Publish(p) ==
    /\ batch[p].pc = "publish"
    /\ \E e \in NextEvent(p) :
         /\ stream' = [stream EXCEPT ![e] = @ + 1]
         /\ Continue(p, [batch[p] EXCEPT !.pc = "mark", !.event = e, !.todo = @ \ {e}])
    /\ UNCHANGED <<notes, outbox, locked, now, faults>>

\* publish_json raises: the message was not stored, or it was stored and the
\* acknowledgement was lost.
PublishFails(p) ==
    /\ batch[p].pc = "publish"
    /\ \E e \in NextEvent(p) :
         /\ \/ UNCHANGED stream
            \/ stream' = [stream EXCEPT ![e] = @ + 1]
         /\ Continue(p, [batch[p] EXCEPT !.pc = "markFailed", !.event = e, !.todo = @ \ {e}])
    /\ Fault
    /\ UNCHANGED <<notes, outbox, locked, now>>

MarkPublished(p) ==
    /\ batch[p].pc = "mark"
    /\ Continue(p, [batch[p] EXCEPT !.pc = "publish", !.event = None,
                                    !.sent = @ \cup {batch[p].event}])
    /\ UNCHANGED dbVars

\* Mutant of MarkFailed: the except branch marks the event published.
MarkFailedPublished(p) ==
    /\ batch[p].pc = "markFailed"
    /\ Continue(p, [batch[p] EXCEPT !.pc = "publish", !.event = None,
                                    !.sent = @ \cup {batch[p].event}])
    /\ UNCHANGED dbVars

MarkFailed(p) ==
    /\ batch[p].pc = "markFailed"
    /\ Continue(p, [batch[p] EXCEPT !.pc = "publish", !.event = None,
                                    !.failed = @ \cup {batch[p].event}])
    /\ UNCHANGED dbVars

\* The loop is through the batch: published_at, and last_error, which
\* mark_published clears and mark_failed sets.
CommitBatch(p) ==
    /\ batch[p].pc = "publish"
    /\ batch[p].todo = {}
    /\ outbox' = [e \in EventIds |->
         IF e \in batch[p].sent \cup batch[p].failed
           THEN [outbox[e] EXCEPT !.published = @ \/ e \in batch[p].sent,
                                  !.failed = e \notin batch[p].sent]
           ELSE outbox[e]]
    /\ Continue(p, NoBatch)
    /\ UNCHANGED <<notes, locked, stream, now, faults>>

\* The process dies, or a mark fails and with it mark_failed, in an aborted
\* transaction: the marks of the whole batch roll back, the messages stay.
AbortBatch(p) ==
    /\ batch[p].pc # "idle"
    /\ Continue(p, NoBatch)
    /\ Fault
    /\ UNCHANGED <<notes, outbox, locked, stream, now>>

PublisherStep(p) ==
    LockUnpublished(p) \/ Publish(p) \/ MarkPublished(p) \/ MarkFailed(p) \/ CommitBatch(p)

PublisherNext == \E p \in Publishers : PublisherStep(p) \/ PublishFails(p) \/ AbortBatch(p)
=============================================================================

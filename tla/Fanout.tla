-------------------------------- MODULE Fanout --------------------------------
(***************************************************************************)
(* The delivery-consumer processes. NotificationCreatedConsumer takes      *)
(* messages from the durable consumer and hands each to FanoutService,     *)
(* whose one transaction marks the event processed and creates an attempt  *)
(* for every subscriber and channel. The job that sends an attempt is      *)
(* enqueued at once, while the attempt is not committed yet.               *)
(***************************************************************************)
EXTENDS DeliveryDb

CONSTANT Consumers

VARIABLE fanout     \* what each consumer is doing

\* "rows" are the uncommitted attempts, by their ids; "todo" are the targets the
\* subscriber pages have yet to yield; "attempt" is the one to enqueue a job for.
Fanouts == [pc : {"idle", "mark", "create", "enqueue", "ack"},
            event : EventIds \cup {None}, todo : SUBSET Targets,
            rows : [AttemptIds -> Targets \cup {None}],
            attempt : AttemptIds \cup {None}]

FanoutTypeOK == fanout \in [Consumers -> Fanouts]

NoFanout == [pc |-> "idle", event |-> None, todo |-> {},
             rows |-> [a \in AttemptIds |-> None], attempt |-> None]

FanoutInit == fanout = [c \in Consumers |-> NoFanout]

Proceed(c, f) == fanout' = [fanout EXCEPT ![c] = f]

\* fetch: a message nobody acked may come again, and to another consumer, when
\* it was nacked or the ack wait is over.
Receive(c) ==
    /\ fanout[c].pc = "idle"
    /\ \E e \in unacked : Proceed(c, [NoFanout EXCEPT !.pc = "mark", !.event = e])
    /\ UNCHANGED dbVars

\* The open transactions that have marked the event of consumer c: an INSERT of
\* the same key waits for their end.
Marking(c) ==
    {d \in Consumers \ {c} :
        fanout[d].pc \in {"create", "enqueue"} /\ fanout[d].event = fanout[c].event}

\* Mutants of MarkProcessed: the mark is committed at once; an event another
\* consumer is at counts as processed; a duplicate is an error.
MarkAutocommitted(c) ==
    /\ fanout[c].pc = "mark"
    /\ IF fanout[c].event \in processed
         THEN Proceed(c, [fanout[c] EXCEPT !.pc = "ack"])
         ELSE Proceed(c, [fanout[c] EXCEPT !.pc = "create", !.todo = Targets])
    /\ processed' = processed \cup {fanout[c].event}
    /\ UNCHANGED <<attempts, drawn, unacked, queue, hour, crashes, losses>>
MarkImpatient(c) ==
    /\ fanout[c].pc = "mark"
    /\ IF fanout[c].event \in processed \/ Marking(c) # {}
         THEN Proceed(c, [fanout[c] EXCEPT !.pc = "ack"])
         ELSE Proceed(c, [fanout[c] EXCEPT !.pc = "create", !.todo = Targets])
    /\ UNCHANGED dbVars
MarkRaises(c) ==
    /\ fanout[c].pc = "mark"
    /\ Marking(c) = {}
    /\ IF fanout[c].event \in processed
         THEN Proceed(c, NoFanout)
         ELSE Proceed(c, [fanout[c] EXCEPT !.pc = "create", !.todo = Targets])
    /\ UNCHANGED dbVars

\* try_mark_processed: 23505 says that the event was processed before; then the
\* transaction is left, and the message acked.
MarkProcessed(c) ==
    /\ fanout[c].pc = "mark"
    /\ Marking(c) = {}
    /\ IF fanout[c].event \in processed
         THEN Proceed(c, [fanout[c] EXCEPT !.pc = "ack"])
         ELSE Proceed(c, [fanout[c] EXCEPT !.pc = "create", !.todo = Targets])
    /\ UNCHANGED dbVars

\* The targets other open transactions have inserted an attempt of the event for:
\* an INSERT of the same (notification_id, user_id, channel) waits for their end.
Creating(c) ==
    {t \in Targets : \E d \in Consumers \ {c}, a \in AttemptIds :
        fanout[d].event = fanout[c].event /\ fanout[d].rows[a] = t}

\* create_or_get for the next subscriber and channel. Where the attempt is there
\* already the INSERT fails, and so does the SELECT after it, in the transaction
\* the INSERT aborted: the exception ends the fan-out, and the message is nacked.
CreateAttempt(c) ==
    /\ fanout[c].pc = "create"
    /\ \E t \in fanout[c].todo \ Creating(c) :
         IF AttemptsFor(fanout[c].event, t) # {}
           THEN Proceed(c, NoFanout) /\ UNCHANGED drawn
           ELSE \E a \in AttemptIds \ drawn :
                  /\ Proceed(c, [fanout[c] EXCEPT !.pc = "enqueue", !.todo = @ \ {t},
                                                  !.rows[a] = t, !.attempt = a])
                  /\ drawn' = drawn \cup {a}
    /\ UNCHANGED <<attempts, processed, unacked, queue, hour, crashes, losses>>

\* enqueue_job(send_<channel>), before the commit.
EnqueueSend(c) ==
    /\ fanout[c].pc = "enqueue"
    /\ queue' = Enqueued("send", fanout[c].attempt, 0, {})
    /\ Proceed(c, [fanout[c] EXCEPT !.pc = "create", !.attempt = None])
    /\ UNCHANGED <<attempts, drawn, processed, unacked, hour, crashes, losses>>

\* The last page is done: the mark and the attempts are committed.
CommitFanout(c) ==
    /\ fanout[c].pc = "create"
    /\ fanout[c].todo = {}
    /\ processed' = processed \cup {fanout[c].event}
    /\ attempts' = [a \in AttemptIds |->
         IF fanout[c].rows[a] # None
           THEN NewAttempt(fanout[c].event, fanout[c].rows[a])
           ELSE attempts[a]]
    /\ Proceed(c, [NoFanout EXCEPT !.pc = "ack", !.event = fanout[c].event])
    /\ UNCHANGED <<drawn, unacked, queue, hour, crashes, losses>>

Ack(c) ==
    /\ fanout[c].pc = "ack"
    /\ unacked' = unacked \ {fanout[c].event}
    /\ Proceed(c, NoFanout)
    /\ UNCHANGED <<attempts, drawn, processed, queue, hour, crashes, losses>>

\* A page cannot be fetched, a statement or the ack fails, or the process dies:
\* the transaction rolls back, the jobs enqueued so far stay, and the message is
\* nacked or left until the ack wait is over.
AbortFanout(c) ==
    /\ fanout[c].pc # "idle"
    /\ Proceed(c, NoFanout)
    /\ Crash
    /\ UNCHANGED <<attempts, drawn, processed, unacked, queue, hour, losses>>

ConsumerStep(c) ==
    \/ Receive(c) \/ MarkProcessed(c) \/ CreateAttempt(c) \/ EnqueueSend(c)
    \/ CommitFanout(c) \/ Ack(c)

ConsumerNext == \E c \in Consumers : ConsumerStep(c) \/ AbortFanout(c)
===============================================================================

------------------------------- MODULE Delivery -------------------------------
(***************************************************************************)
(* The delivery service: consumers that fan events out into attempts, and  *)
(* workers that send them, over the same tables and the same job queue.    *)
(***************************************************************************)
EXTENDS Fanout, DeliveryExecutor

vars == <<dbVars, fanout, executorVars>>

Init == DbInit /\ FanoutInit /\ ExecutorInit

\* An hour passes, for the open transactions too.
Tick ==
    /\ hour' = (hour + 1) % Day
    /\ attempts' = [a \in AttemptIds |->
         IF a \in Attempts THEN [attempts[a] EXCEPT !.retryIn = Down(@)] ELSE None]
    /\ queue' = {[j EXCEPT !.wait = Down(@)] : j \in queue}
    /\ workers' = [w \in Workers |->
         IF workers[w].write # None
           THEN [workers[w] EXCEPT !.write.retryIn = Down(@)] ELSE workers[w]]
    /\ UNCHANGED <<drawn, processed, unacked, crashes, losses, fanout,
                   sends, unrecorded, outcomes>>

Environment == (\E e \in EventIds : Announce(e)) \/ RestartRedis

Next ==
    \/ ConsumerNext /\ UNCHANGED executorVars
    \/ WorkerNext /\ UNCHANGED fanout
    \/ Environment /\ UNCHANGED <<fanout, executorVars>>
    \/ Tick

Spec == Init /\ [][Next]_vars

\* The consumer and worker processes are restarted when they die and their loops
\* never end, so each takes the steps that stay possible. Of what the stream
\* brings, and of faults, nothing is assumed but their bounds.
Fairness ==
    /\ WF_vars(Tick)
    /\ \A c \in Consumers : WF_vars(ConsumerStep(c) /\ UNCHANGED executorVars)
    /\ \A w \in Workers : WF_vars(WorkerStep(w) /\ UNCHANGED fanout)

FairSpec == Spec /\ Fairness

-----------------------------------------------------------------------------
TypeOK == DbTypeOK /\ FanoutTypeOK /\ ExecutorTypeOK

\* An event is fanned out once and completely: a processed one has exactly one
\* attempt for each target, any other has none, although its message comes
\* again, to several consumers at once, and fan-outs roll back halfway
\* (try_mark_processed shares the transaction of the attempts).
FannedOutOnce ==
    \A e \in EventIds, t \in Targets :
        IF e \in processed
          THEN \E a \in AttemptIds : AttemptsFor(e, t) = {a}
          ELSE AttemptsFor(e, t) = {}

\* A message is acked only when its event is processed: none is dropped.
AckedIsProcessed ==
    \A c \in Consumers : fanout[c].pc = "ack" => fanout[c].event \in processed

\* A target gets an event once: a second successful send takes a transaction
\* that rolled back after the first (the row lock and the status see to it,
\* though the same job may run twice, and a job may be enqueued twice).
SentOnceUnlessRolledBack ==
    \A p \in EventIds \X Targets : sends[p] <= 1 + unrecorded[p]

\* An attempt is settled only with its outcome published: execute_send
\* publishes before its transaction commits.
SettledIsPublished ==
    \A a \in Attempts : attempts[a].status \in {"sent", "dead"} =>
        [event |-> attempts[a].event, target |-> attempts[a].target,
         result |-> attempts[a].status] \in outcomes

\* While no job is lost, an attempt that is to be tried again has a job in the
\* queue that runs no sooner than its next_retry_at: one that ran sooner would
\* be dropped, and the attempt never tried again.
RetriesAreQueued ==
    losses = 0 =>
        \A a \in Attempts : attempts[a].status = "failed" =>
            \E j \in queue : j.attempt = a /\ attempts[a].retryIn <= j.wait

\* next_retry_at is never within the quiet hours of its subscriber, be it the
\* end of a backoff or of quiet hours.
RetriesOutsideQuietHours ==
    \A a \in Attempts : attempts[a].retryIn > 0 =>
        ~InQuietHours((hour + attempts[a].retryIn) % Day, Quiet[attempts[a].target])

\* An attempt is settled once the provider failed MaxAttempts times, and not
\* before: its number tells the failures, however often its jobs ran.
DeadAtTheLimit ==
    \A a \in Attempts : attempts[a].status = "dead" <=> attempts[a].no = MaxAttempts

-----------------------------------------------------------------------------
(* Progress, with jobs that are done before the clock goes on.             *)

\* An hour is long for a consumer or a worker: the clock stands while a job is
\* due or in progress.
Prompt ==
    /\ Working = {}
    /\ \A j \in queue : j.wait > 0
    /\ Tick

PromptNext ==
    \/ ConsumerNext /\ UNCHANGED executorVars
    \/ WorkerNext /\ UNCHANGED fanout
    \/ Environment /\ UNCHANGED <<fanout, executorVars>>
    \/ Prompt

PromptSpec == Init /\ [][PromptNext]_vars /\ WF_vars(Prompt)
    /\ \A c \in Consumers : WF_vars(ConsumerStep(c) /\ UNCHANGED executorVars)
    /\ \A w \in Workers : WF_vars(WorkerStep(w) /\ UNCHANGED fanout)

\* Every message is acked in the end, its event processed by then.
EventsAreProcessed ==
    \A e \in EventIds : e \in unacked ~> (e \in processed /\ e \notin unacked)

\* An attempt that failed or was put off is sent or given up in the end.
RetriesEnd ==
    \A a \in AttemptIds :
        (a \in Attempts /\ attempts[a].status = "failed")
          ~> (a \in Attempts /\ attempts[a].status \in {"sent", "dead"})

\* README.md, "creates and processes delivery attempts": an attempt the fan-out
\* created is processed in the end.
AttemptsAreProcessed ==
    \A a \in AttemptIds :
        (a \in Attempts /\ attempts[a].status = "pending")
          ~> (a \in Attempts /\ attempts[a].status # "pending")

-----------------------------------------------------------------------------
StateOf(p) ==
    LET rows == AttemptsFor(p[1], p[2])
    IN IF rows = {} THEN [state |-> "absent", no |-> 0]
       ELSE LET a == CHOOSE a \in rows : TRUE
            IN [state |-> attempts[a].status, no |-> attempts[a].no]

Lifecycle == INSTANCE DeliveryLifecycle WITH
    delivery <- [p \in EventIds \X Targets |-> StateOf(p)]

\* The service implements the abstract lifecycle: all attempts of an event
\* appear in one step, and each goes its way to sent or dead and stays there.
ImplementsLifecycle == Lifecycle!LifeSpec
===============================================================================

------------------------------ MODULE DeliveryDb ------------------------------
(***************************************************************************)
(* What the consumers and workers of the delivery service share: the       *)
(* PostgreSQL tables delivery_attempts and processed_events, the messages  *)
(* of the durable JetStream consumer, the arq queue in Redis, and the      *)
(* clock.                                                                  *)
(*                                                                         *)
(* The clock is the hour of the day, and the time until a retry or a       *)
(* deferred job is due a number of hours that counts down, so time has no  *)
(* bound. An event stands for its notification: a notification has one     *)
(* event (OneEventEach of module Notifications).                           *)
(***************************************************************************)
EXTENDS QuietHours, FiniteSets

CONSTANTS EventIds,     \* notification.created.v1 events
          Targets,      \* the (subscriber, channel) pairs of a topic
          AttemptIds,   \* delivery attempt ids (uuid4)
          None,
          MaxAttempts,  \* delivery_max_attempts
          Quiet,        \* the quiet hours of each target's subscriber
          MaxCrashes,   \* bound on faults after which the work is done again
          MaxLosses     \* bound on faults that lose a job

ASSUME DeliveryAssumption ==
    /\ MaxAttempts \in Nat \ {0}
    /\ Quiet \in [Targets -> Windows]
    /\ MaxCrashes \in Nat
    /\ MaxLosses \in Nat

VARIABLES attempts,   \* delivery.delivery_attempts, by id; None where no row is
          drawn,      \* the attempt ids uuid4() has returned so far
          processed,  \* the event ids of delivery.processed_events
          unacked,    \* events with a message in the stream that is not acked
          queue,      \* the arq jobs in Redis, the ones being run included
          hour,       \* the hour of the day
          crashes,    \* faults so far after which the work is done again
          losses      \* faults so far that lost a job

dbVars == <<attempts, drawn, processed, unacked, queue, hour, crashes, losses>>

Rows == [event : EventIds, target : Targets, no : 0 .. MaxAttempts,
         status : {"pending", "sent", "failed", "dead"}, retryIn : Nat]

\* "wait" is the time until the job may run, "copy" tells equal jobs apart.
Jobs == [kind : {"send", "retry"}, attempt : AttemptIds, wait : Nat, copy : Nat]

ASSUME DeliveryNoneAssumption ==
    None \notin EventIds \cup Targets \cup AttemptIds \cup Rows \cup Jobs

DbTypeOK ==
    /\ attempts \in [AttemptIds -> Rows \cup {None}]
    /\ drawn \in SUBSET AttemptIds
    /\ processed \in SUBSET EventIds
    /\ unacked \in SUBSET EventIds
    /\ queue \in SUBSET Jobs
    /\ hour \in Hours
    /\ crashes \in 0 .. MaxCrashes
    /\ losses \in 0 .. MaxLosses

DbInit ==
    /\ attempts = [a \in AttemptIds |-> None]
    /\ drawn = {}
    /\ processed = {}
    /\ unacked = {}
    /\ queue = {}
    /\ hour = 0
    /\ crashes = 0
    /\ losses = 0

Crash == crashes < MaxCrashes /\ crashes' = crashes + 1
Loss == losses < MaxLosses /\ losses' = losses + 1

-----------------------------------------------------------------------------
Attempts == {a \in AttemptIds : attempts[a] # None}

\* The row an INSERT leaves.
NewAttempt(e, t) ==
    [event |-> e, target |-> t, no |-> 0, status |-> "pending", retryIn |-> 0]

AttemptsFor(e, t) == {a \in Attempts : attempts[a].event = e /\ attempts[a].target = t}

\* enqueue_job: a job with an id no other job has, those in "held" included.
Enqueued(kind, a, wait, held) ==
    LET taken == {j.copy : j \in {k \in queue \cup held : k.kind = kind /\ k.attempt = a}}
    IN queue \cup {[kind |-> kind, attempt |-> a, wait |-> wait,
                    copy |-> CHOOSE c \in 0 .. Cardinality(taken) : c \notin taken]}

\* An hour of a countdown.
Down(n) == IF n > 0 THEN n - 1 ELSE 0

\* The outbox publisher of the notifications service puts a message, perhaps
\* one more of the same event, into the stream.
Announce(e) ==
    /\ e \notin unacked
    /\ unacked' = unacked \cup {e}
    /\ UNCHANGED <<attempts, drawn, processed, queue, hour, crashes, losses>>

\* redis-server --save "" --appendonly no: a restart empties the queue.
RestartRedis ==
    /\ queue # {}
    /\ queue' = {}
    /\ Loss
    /\ UNCHANGED <<attempts, drawn, processed, unacked, hour, crashes>>
===============================================================================

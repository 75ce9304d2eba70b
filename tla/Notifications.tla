---------------------------- MODULE Notifications ----------------------------
(***************************************************************************)
(* The notifications service: its API handlers, schedulers and outbox      *)
(* publishers, working at the same time on the same tables.                *)
(***************************************************************************)
EXTENDS NotificationsApi, NotificationsScheduler, OutboxPublisher

vars == <<dbVars, apiVars, tick, batch>>

Init == DbInit /\ ApiInit /\ SchedulerInit /\ PublisherInit

Next ==
    \/ ApiNext /\ UNCHANGED <<tick, batch>>
    \/ SchedulerNext /\ UNCHANGED <<apiVars, batch>>
    \/ PublisherNext /\ UNCHANGED <<apiVars, tick>>
    \/ Tick /\ UNCHANGED <<apiVars, tick, batch>>

Spec == Init /\ [][Next]_vars

\* The loops of the scheduler and publisher processes run again after every
\* failure, and the containers are restarted, so each of their steps is taken
\* if it stays possible; so does time pass. Nothing is assumed of requests, and
\* of faults only that they are not endless (MaxFaults).
Fairness ==
    /\ WF_vars(Tick /\ UNCHANGED <<apiVars, tick, batch>>)
    /\ \A s \in Schedulers :
         WF_vars(SchedulerStep(s) /\ UNCHANGED <<apiVars, batch>>)
    /\ \A p \in Publishers :
         WF_vars(PublisherStep(p) /\ UNCHANGED <<apiVars, tick>>)

FairSpec == Spec /\ Fairness

-----------------------------------------------------------------------------
TypeOK == DbTypeOK /\ ApiTypeOK /\ SchedulerTypeOK /\ PublisherTypeOK

EventsOf(n) == {e \in Events : outbox[e].note = n}

\* A user has at most one notification per idempotency key, however many
\* requests with the key run at once (create_notification looks the key up
\* before its transaction, and the unique index settles the race).
OneRowPerKey ==
    \A m, n \in Stored :
        /\ notes[m].key # None
        /\ notes[m].owner = notes[n].owner
        /\ notes[m].key = notes[n].key
        => m = n

\* Every answer to the requests of one user with one key names the same
\* notification: the first request's, its concurrent duplicates' and the
\* retries' after a crash or a lost answer.
IdempotentAnswers ==
    \A a, b \in answers : a.user = b.user /\ a.key = b.key => a.note = b.note

\* A handler told 23505 finds the notification its key collided with, so the
\* error is never raised to the client as a 500.
DuplicateHasRow ==
    \A h \in Handlers : api[h].pc = "duplicate" =>
        /\ api[h].key # None
        /\ WithKey(api[h].user, api[h].key) # {}

\* The outbox agrees with the table: exactly one event for a notification
\* created for now or queued, none for one that is scheduled or cancelled,
\* although requests, cancellations and ticks interleave and roll back.
OneEventEach ==
    \A n \in Stored :
        IF notes[n].status \in {"created", "queued"}
          THEN \E e \in Events : EventsOf(n) = {e}
          ELSE EventsOf(n) = {}

\* No event is lost between the outbox and the stream: published_at is only
\* ever set, in a committed row, once the stream has stored the message.
PublishedIsStored == \A e \in Events : outbox[e].published => stream[e] > 0

\* Nothing reaches the stream that was rolled back, cancelled or is not due
\* yet: a message belongs to a committed event of a notification that was
\* created for now or queued, at or after its time.
NothingPremature ==
    \A e \in EventIds : stream[e] > 0 =>
        /\ e \in Events
        /\ outbox[e].note \in Stored
        /\ LET row == notes[outbox[e].note]
           IN /\ row.status \in {"created", "queued"}
              /\ row.scheduledAt = None \/ row.scheduledAt <= now

\* A message is stored once more than it has to be only for a fault: the
\* publishers never take the same event at the same time, nor one published.
DuplicatesNeedFaults == \A e \in EventIds : stream[e] <= faults + 1

\* What is committed of a notification stays: rows are not deleted, an owner,
\* a key or a time not changed, and a status changes from scheduled only; an
\* event stays with its notification and, once published, published.
History ==
    [][/\ \A n \in Stored :
            /\ notes'[n] # None
            /\ notes'[n] # notes[n] =>
                 /\ notes[n].status = "scheduled"
                 /\ notes'[n] \in {[notes[n] EXCEPT !.status = s] : s \in {"queued", "cancelled"}}
       /\ \A e \in Events :
            /\ outbox'[e] # None
            /\ outbox'[e].note = outbox[e].note
            /\ outbox[e].published => outbox'[e] = outbox[e]]_vars

\* A scheduled notification is queued when its time has come, unless it is
\* cancelled first: no tick that fails, and no lock another process holds,
\* keeps it scheduled for ever.
ScheduledIsSettled ==
    \A n \in Ids :
        (n \in Stored /\ notes[n].status = "scheduled")
          ~> (n \in Stored /\ notes[n].status \in {"queued", "cancelled"})

\* A notification created for now or queued is announced to the delivery
\* service: its event is published, and marked, in the end.
AnnouncedInTheEnd ==
    \A n \in Ids :
        (n \in Stored /\ notes[n].status \in {"created", "queued"})
          ~> (\E e \in EventsOf(n) : outbox[e].published /\ stream[e] > 0)

-----------------------------------------------------------------------------
\* The lifecycle the service implements.
LifeOf(n) ==
    IF notes[n] = None THEN "absent"
    ELSE CASE notes[n].status = "scheduled" -> "waiting"
           [] notes[n].status = "cancelled" -> "cancelled"
           [] OTHER -> "released"

Lifecycle == INSTANCE NotificationLifecycle WITH
    life <- [n \in Ids |-> LifeOf(n)],
    announced <- {n \in Ids : \E e \in EventsOf(n) : stream[e] > 0}

\* The service implements the abstract lifecycle: every step of a handler, a
\* scheduler or a publisher is one of its steps, or none.
ImplementsLifecycle == Lifecycle!LifeSpec
=============================================================================

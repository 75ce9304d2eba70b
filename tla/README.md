# Substy in TLA+

Specifications, model checking and proofs for the Substy notification platform:
five Python services (FastAPI, asyncpg, NATS JetStream, arq on Redis) behind a
gateway. This directory says what the services do when requests, processes,
messages and failures interleave, and what holds whatever they do.

    tlc -config Requests.cfg MCNotifications.tla      # model checking
    tlapm NotificationsProofs.tla                     # proofs

## The system

| Component | State it keeps | Operations | Talks to |
|---|---|---|---|
| notifications-api | `notifications`, `outbox_events` (PostgreSQL) | create, list, get, cancel | the tables |
| notifications-scheduler | the transaction of a tick | `run_one_tick` every interval | the tables |
| outbox publisher (process, and a task of the API when enabled) | the transaction of a batch | `publish_batch` every interval | the tables, JetStream |
| delivery-consumer | `processed_events`, `delivery_attempts` | fan an event out to subscribers and channels | JetStream (pull), subscriptions (HTTP), arq queue |
| delivery-worker | the row of its attempt, locked | `execute_send`, `retry_attempt` | arq queue, provider, JetStream |
| subscriptions-service | `topics`, `subscriptions`, `preferences` | subscribe, unsubscribe, update, lists, subscriber pages | its tables |
| auth-service | `users`, `sessions`, rate counters in Redis | register, login, refresh, logout | its tables, Redis |
| bff gateway | cookies of the client, rate counters | proxy with retries, subscribe and tell the user | all services |

An event's way: a request (or a scheduler tick, when the time comes) writes a
notification and an outbox event in one transaction; a publisher puts the event
into the stream and marks it; a consumer fans it out into one attempt per
subscriber and channel and enqueues a job for each; a worker runs the job, tries
again later when the provider fails or the subscriber has quiet hours, and
publishes the outcome.

What is hard, and what makes each component correct:

- *notifications*: two requests with one idempotency key; a cancellation against
  a tick; two schedulers or publishers over the same rows; messages published in
  a transaction that may roll back. Correct when there is one notification and
  one answer per key, exactly one event for a notification that is out, none for
  one that is not, every event in the stream in the end, and nothing there that is
  not due.
- *delivery*: messages that come again, to two consumers at once; jobs enqueued
  before the transaction they belong to commits; sends that cannot be undone in a
  transaction that can; jobs that run twice, too early or never. Correct when an
  event is fanned out once and completely, a target gets it once unless a
  transaction rolled back, its outcome is published, and every attempt is settled.
- *subscriptions*: subscribe races, lost updates of preferences, pages that are
  read while subscriptions change. Correct when there is one subscription per user
  and topic and a page sequence holds everyone subscribed all the while once.
- *auth*: two refreshes, or a refresh and a logout, of one token; counters whose
  expiry is set apart from their increment. Correct when a session yields one
  successor and none after logout.
- *gateway*: retries of requests that were carried out, a notification that fails
  after the subscription changed, handlers that go on after the gateway gave up. Correct
  when a request that succeeded is told of once, and only what came true is told.
- *stream*: one configuration, set by five processes that start in any order.

`PROJECT.json` lists each hazard of the code at its line with the properties that cover it.

## Modules

| Module | Models |
|---|---|
| `NotificationsDb` | the two tables, row locks, the stream, the clock |
| `NotificationsApi` | POST /notifications and /cancel, step by step |
| `NotificationsScheduler` | the scheduler's tick |
| `OutboxPublisher` | `publish_batch` |
| `Notifications` | the three together; properties; fairness |
| `NotificationLifecycle` | what the service promises of each notification |
| `NotificationsProofs` | theorems about `Notifications` |
| `QuietHours` | `core/quiet_hours.py` of delivery |
| `DeliveryDb` | attempts, processed events, unacked messages, arq queue, the hour |
| `Fanout` | the consumer and `FanoutService` |
| `DeliveryExecutor` | the arq workers, `execute_send`, `retry_attempt` |
| `Delivery` | the two together; properties; fairness |
| `DeliveryLifecycle` | what the service promises of each event and target |
| `DeliveryProofs`, `DeliveryJobsProofs` | theorems about `QuietHours` and `Delivery` |
| `Subscriptions` | the subscriptions service: its handlers, statement by statement; properties; fairness |
| `SubscriptionLedger` | what that service promises of each user and topic |
| `SubscriptionsProofs` | theorems about `Subscriptions` |
| `Keyset` | the pages of a list in an order, with cursors |
| `KeysetProofs` | lemmas about such pages, in any total order |
| `SubscriberPages` | the fan-out's reading of the subscribers, on top of `Subscriptions` |
| `SubscriberPagesProofs` | theorems about `SubscriberPages` |
| `Gateway` | the gateway's subscription requests and the notifications it makes of them, on top of `Subscriptions` |
| `GatewayProofs` | theorems about `Gateway` |
| `Sessions` | the auth service with its limiter, the gateway's cookie, the browser |
| `SessionsProofs` | theorems about `Sessions` |
| `StreamConfig` | the processes that set up the shared stream |
| `MCNotifications`, `MCDelivery`, `MCSubscriptions`, `MCSubscriberPages`, `MCGateway`, `MCSessions` | instances for TLC |

Operators whose comment begins "Mutant of" are wrong versions of the operator
that follows them; nothing uses them. Each property is known to fail when the
mutant `PROJECT.json` names takes the operator's place.

### Notifications

A handler, scheduler or publisher is a record with a program counter; an action is
the code between two awaits. A transaction keeps its writes in the record of its
process and adds them to the tables in its commit, so nobody reads them earlier
(READ COMMITTED). What PostgreSQL makes others wait for is a guard: `KeyTaken` for
the unique index on `(created_by, idempotency_key)`, `RowLocked` for the rows a tick
holds, and the `SKIP LOCKED` queries leave locked rows out. `create_notification` is
`ReceiveCreate`, `CheckKey` (lines 41-52), `Insert`, `Commit`, `Respond`, or
`Reread` after 23505; `cancel_notification` is `ReceiveCancel`, `ReadForCancel`,
`CancelIfScheduled`. A tick is `LockDue`, `MarkQueued`, `CommitTick`; a batch is
`LockUnpublished`, then `Publish`/`MarkPublished` or `PublishFails`/`MarkFailed` for each
event, then `CommitBatch`. `Abort*` is any exception, cancellation or death of
the process; `PublishFails` may leave the message in the stream.

Payloads, topics, headers and the counters of attempts are left out; a batch of
equal timestamps comes in any order. A tick or batch that finds nothing is a stutter.

### Delivery

`Fanout` is a consumer: `Receive`, `MarkProcessed` (it waits for another open
transaction that marked the event), `CreateAttempt` and `EnqueueSend` for each target,
`CommitFanout`, `Ack`. A message that was not acked may be received again at any time,
by any consumer (nak, ack wait), and the publisher may announce an event again. The
job is in the queue from `EnqueueSend` on, the attempt visible from `CommitFanout` on.
The subscribers and channels of the topic are the fixed set `Targets`; how their
pages are read while they change is `SubscriberPages`.

`DeliveryExecutor` is the arq worker. It takes a due job nobody else has in progress;
`execute_send` ends with `Skip` (no row, settled, not yet due), `DelayForQuietHours`,
`SendSucceeds` or `SendFails`; then `Publish` or `EnqueueRetry`, `CommitSend`, and `Finish`
takes the job out of the queue. `CrashWorker` leaves the job to be run again,
`FailJob` is an exception, after which arq drops the job, `RestartRedis` empties
the queue. Faults are counted by what they do: `crashes` (done again) and `losses` (a
job is gone). The provider's call is instantaneous; the time it takes passes in the
open transaction. Time is the hour of the day, and countdowns, so it has no bound.
arq's five tries per job are more than `MaxCrashes` and are left out, as are clocks that differ.

### Subscriptions

A handler is the code of a request between two statements that are awaited. The
services call `conn.transaction()` only in places, so outside one each statement
commits by itself: `subscribe` is `LookForSubscription`, then `Activate` and `Reread`
for a row that is off, or `Insert` and `CommitCreate`; `unsubscribe` is `LookForRow`,
`Deactivate`, `Reread`; `update_subscription` is `LookForUpdate`, then `WriteActive`,
`WritePrefs` and `CommitUpdate` in a transaction, of which the first two only take the
locks their rows need (`RowLocked`, `PrefsLocked`) and the commit adds the writes.
`PairLocked` and the 500 of `Insert` are the unique index. `Fail` is any exception. A
row of `subscriptions` and its row of `subscription_preferences` are one record; the
preferences are functions from `Fields`, and a patch has `None` for those it leaves out.
`held` and `disturbed` are history: what a request met, and whether somebody wrote
what it read.

`Keyset` is the listing all services use: one row more than the limit is read, and
the cursor names the last row given. `SubscriberPages` takes it for GET
/internal/topics/{id}/subscribers and `Gateway` for GET /subscriptions/me.

### Gateway and sessions

`Gateway` composes the requests of the gateway with the handlers of
`Subscriptions`: `FindTopic` is the paged search `unsubscribe` makes first, `Write` hands
the request over, `Collect` takes the answer, `GiveUp` leaves the handler alone with it,
`Notify` is `_notify_subscription_event` with the notifications service's promise of
`IdempotentAnswers` built in: one notification per key. `Abandon` is an answer of the gateway's own: 502
when `send_with_retries` gives up after a `ConnectError` or `ReadTimeout`, 500 for any other error of httpx, which is
neither caught nor tried again. The client may repeat what got 502, or what it did not hear the end of, under its
X-Request-Id. What the notifications service refuses (a key over 128 characters, 422) is a failed step like any other.

`Sessions` has one user, whose browser sends requests from several tabs with one
cookie. A refresh is `LookUp`, `Revoke` and `Rotate` (the last two in a transaction), the
limiter `Count` and `SetExpiry`, the way back `Respond`, `Lose`, `Crash`. A session expires
at any time (`LookUp` may always say 401), passwords are right or wrong, the counter of
registrations is left out. When the answer of a refresh is lost, by the gateway's timeout or on the way, the
session is rotated and nobody has its token: that ends what the cookie is good for, so `SessionKept` says what
is left then. The cookie stays, of a session that was not logged out, and the session in its place is good. A
crash or an error without such a loss costs nothing.

### Stream

`StreamConfig` is `NATSClient.startup` of both services: add the stream, and update it when
it is there with another configuration.

## Runs

All pass except `lost_attempt` and `stream_restart`. Bounds are small sets of model values; `MaxTime`, `MaxFaults`,
`MaxCrashes` and `MaxLosses` bound what would be endless.

| Run | Instance | Shows |
|---|---|---|
| `requests` | 2 handlers, 1 key, 1 scheduler, 1 publisher, 2 notifications, 1 fault | idempotent creation, nothing premature, implements the lifecycle |
| `workers` | 2 schedulers, 2 publishers, 2 users (one admin), 2 faults | one event each, no event lost, duplicates only by faults, committed history |
| `progress` | 2 schedulers, 1 publisher, batches of one, 1 fault | scheduled notifications are settled, events announced |
| `fanout` | 2 consumers, 2 targets, 1 worker, a crash | fan-out once and complete, implements the lifecycle |
| `sending` | 2 workers, 1 target with quiet hours over midnight, a crash, a lost job | sent once, published, retries queued for the right time |
| `delivery_progress` | 2 workers, 3 tries, quiet hours, a crash | messages acked, retries settled |
| `lost_attempt` | 1 consumer, 1 worker, no fault | **violated**: see below |
| `subscriptions` | 2 handlers, 2 users (one a stranger to the row), 1 topic, 2 preferences | one row per pair, true answers, nothing undone, no deadlock, implements the ledger |
| `subscriber_pages` | 4 users who come and go, pages of 1 or 2 | a fan-out gets whoever was subscribed all the while, and nobody twice |
| `gateway` | 2 requests at a time and in all, 3 subscriptions over 2 pages of 1, 2 faults | notifications true, and one for each request that succeeded |
| `sessions` | 2 calls at a time, 4 sessions, a limit of 2, 1 fault | dead tokens stay dead, nothing but a lost answer of a refresh signs a user out |
| `stream_restart` | the publisher and the worker | **violated**: see below |

Two of everything that competes is enough for each race the code guards against: a
lock, an index or a status check is between two parties. Two notifications let batches
overlap and limits leave one out; one fault interrupts any step, two let a fault hit
the recovery from another. In `gateway` the user has none to three subscriptions, so that the one
asked for is on the first page, on the second, or beyond the last that is read; its clients stop after
the last request, so deadlock is not checked there. In `subscriber_pages` one request is served at a
time: what matters to the pages is the order of the commits. Four sessions are two refreshes
after a login and one more, the fewest in which a successor of a successor is refreshed.
Histories (`held`, `disturbed`, `always`, `ever`, `late`, `signedIn`, `owner`) only record.

*Fairness.* `Notifications!Fairness` is weak fairness of the steps of each scheduler and
publisher (both loops catch every exception and go on; the containers are restarted)
and of the clock. Requests need no fairness. Faults are bounded, so they end.
`Delivery!Fairness` is the same for consumers and workers. `RetriesEnd` needs more: a worker that
always comes to a job when the quiet hours have begun again would put it off for
ever. `PromptSpec` says that hours pass only when no due job is waiting: a job takes seconds.
`Subscriptions!Fairness` is strong fairness of each handler: the event loop comes back to all of them,
and PostgreSQL gives a lock to those that wait in the order they came, so nobody
is passed over for ever. Clients need not be fair, and a request may fail.

*Findings.* `FanoutService` enqueues the job of an attempt before the
transaction that creates the attempt commits (`fanout.py:95`). A worker that takes the job first
reads no row and returns; the attempt stays `pending` with no job, and nothing looks for
such attempts. `lost_attempt` shows it in a few steps without any fault, against
README.md:149 of the repository ("creates and processes delivery attempts"). This is why
`RetriesAreQueued` and `RetriesEnd` speak of attempts that failed, not of pending ones.

The second: every process of notifications sets the stream's subjects to
`notification.created.v1` alone, every process of delivery to all three. Whoever starts last
decides, and after notifications the worker's publish of an outcome
(README.md:37) finds no stream and raises, inside the transaction that records what was sent: the
attempt is rolled back after the provider has sent it. `stream_restart` shows it. In `Delivery` a publish
that raises is one of the failures of `FailJob`.

*Seen on the way*, where nothing says it should be otherwise. Two refreshes of one token that overlap
both get a session, and a refresh that overlaps with a logout gets one too
(`DeadAfterAnswer` is about requests sent after the answer). Two concurrent first
subscriptions of a pair: one gets 500, though one after the other they are idempotent. Two
patches at once: the preferences one of them set may be undone (`UndoneByOverlapOnly` says by whom only).
The notification "You subscribed" goes through the same fan-out as any other of the
topic, so to all who subscribed to it.

## Proofs

`NotificationsProofs` proves, for any sets of ids, users, keys and processes and any bounds:

| Theorem | States |
|---|---|
| `TypeCorrect` | `TypeOK` |
| `OneEventEachHolds` | `OneEventEach` |
| `OneRowPerKeyHolds`, `DuplicateHasRowHolds`, `IdempotentAnswersHolds` | the properties of these names |
| `PublishedIsStoredHolds`, `NothingPrematureHolds` | the same |
| `DuplicatesNeedFaultsHolds` | `DuplicatesNeedFaults` |
| `HistoryHolds` | `History` |
| `LifecycleImplemented` | `ImplementsLifecycle` |

They assume only the named assumptions on the constants (`BoundsAssumption`,
`NoneAssumption`, `SchedulerBatchAssumption`, `OutboxBatchAssumption`). All rest on one inductive invariant,
`IInv`, which adds to the properties what the processes know between their steps: an id drawn
by a request is nobody else's and has no row; two open transactions never hold the same key;
rows that a tick holds are scheduled and due, and no two ticks hold the same; an event a
batch holds is committed, and held by no other; a mark in a batch stands for a
message in the stream; an answer names a stored row with its key. The lemmas go process by process:
each action keeps each part of `IInv` (`HandlerStep`, `LockStep`, `EventStep`, `KeyStep`,
`BatchStep`, `HistoryStep`...), and `Inductive` puts them together. The refinement maps every action
to a step of `NotificationLifecycle` or to none: the commit of a tick to `Release` of its rows, the
publication of an event to `Announce` the first time. `DuplicatesNeedFaults` needs to know of each
copy in the stream whether its mark is committed, still held by a batch, or lost to a
fault (`CopyInv`): only the last lets another copy appear.

`SubscriptionsProofs` proves, for any sets of users, topics, requests and handlers, any
preferences and any tables earlier versions may have left:

| Theorem | States |
|---|---|
| `OneRowPerPairHolds` | `OneRowPerPair` |
| `SwitchedAsAskedHolds` | `SwitchedAsAsked` |
| `TypeCorrect` | `TypeOK` |
| `AnsweredTrulyHolds` | `AnsweredTruly` |
| `UndoneByOverlapOnlyHolds` | `UndoneByOverlapOnly` |
| `LedgerImplemented` | `ImplementsLedger` |

They assume `DefaultsAssumption` (the default preferences are preferences), `AbsentAssumption`
(`None` is nobody's value), `AsksAssumption` (requests are `Requests`) and
`EarlierAssumption` (what the migrations leave). `OneRowPerPair` is not inductive: an
open transaction that has inserted a pair must know that no row has it. The inductive
invariant `IInv` adds what handlers carry between their steps (`HandlerInv`: the request,
a row found of its owner, what an update read) and that the ids and the pairs
of open inserts are distinct and have no row (`InsertInv`); `StepKeeps` keeps it for any step that
inserts nothing, `InsertStep` and `CommitCreateStep` for the others. `HInv` adds the history: what
an update read of is_active is among the values the request met, and its preferences are
still the row's unless another update was committed (`SeenInv`). For the refinement, the entry of a
pair is that of its only row (`EntryOfRow`), so a write of one row amends one entry
(`AmendStep`) and the commit of an insert makes one (`EnterStep`).

`DeliveryProofs` and, on top of it, `DeliveryJobsProofs` prove, for any sets of events, targets, consumers
and jobs, any finite set of workers, any windows, any backoff and any limit of tries:

| Theorem | States |
|---|---|
| `TypeCorrect` | `TypeOK` |
| `FannedOutOnceHolds`, `AckedIsProcessedHolds` | `FannedOutOnce`, `AckedIsProcessed` |
| `SentOnceUnlessRolledBackHolds` | `SentOnceUnlessRolledBack` |
| `SettledIsPublishedHolds` | `SettledIsPublished` |
| `RetriesOutsideQuietHoursHolds` | `RetriesOutsideQuietHours` |
| `DeadAtTheLimitHolds` | `DeadAtTheLimit` |
| `RefinesLifecycle` | `ImplementsLifecycle` |
| `RetriesAreQueuedHolds` (in `DeliveryJobsProofs`) | `RetriesAreQueued` |

They assume `DeliveryAssumption`, `DeliveryNoneAssumption` (`None` is no id, job or target), `DayAssumption` and
`ExecutorAssumption` (delays and limits are numbers, workers are finitely many). The inductive
invariant `IInv` says of consumers that two fan-outs at work have different events and
different fresh ids, and that one at work has the attempts it went through (`FanoutInv`); of workers, that a
row has one open transaction at most and a pair one attempt. So a send is either among
those rolled back, or it is the one its row records or a worker is about to
commit (`SendsInv`), and there is at most one of the latter. What is asked of a row
(published if settled, tries within the limit, due outside the quiet hours) is asked of the
uncommitted row of a worker too (`RowOK`), which is why it holds of the table after a commit.
The module proves the arithmetic for it: `QuietHoursEnd` and `DelayedQuietHoursEnd` say that
`compute_next_allowed_time` ends outside the window, for every window, also over midnight, and
every length of the day. The refinement maps the commit of a fan-out to the appearance of all its
attempts and the commit of a worker to a step of its pair alone, because a pair has one attempt.

`RetriesAreQueued` is not inductive by far: the job is put into the queue before the
row it is for is committed, and a job is taken out after. `JInv` names for each
retry, committed or about to be, a job that is not the one its worker has in hand and that
comes no sooner than the row is due (`JobsWait`), so a worker that takes it does not `Skip` it; that
no two jobs of an attempt are the same (`JobIds`) keeps another worker from removing it.

`SessionsProofs` proves, for any tokens, tabs, limit and number of faults:

| Theorem | States |
|---|---|
| `RotationIsWholeHolds` | `RotationIsWhole` |
| `DeadAfterAnswerHolds` | `DeadAfterAnswer` |
| `CounterExpiresHolds` | `CounterExpires` |
| `SessionKeptHolds` | `SessionKept` |
| `TypeCorrect` | types |

They assume `BoundsAssumption` and `NoneAssumption`. The invariant `IInv` joins three views of a token: a call's (`CallInv`), the
table's (`RowInv`: revoked just when ended) and that of an answer on its way (`WayInv`: nobody else
has the token it brings, so it is good). `SessionKept` needs `KeptInv` besides: the cookie is good, or
an answer that sets a good one is still to come, which a 401 cannot overtake because it clears
no cookie; `SignedInv`: it was not logged out, lost answers or not; and `HeirsInv`: nobody has the tokens of the
sessions that replaced the cookie's, so they are good. For `CounterExpires` the witness is the login that counted first: it stays
at `EXPIRE` until it sets it or a fault strikes.

`KeysetProofs` is about the first elements of a finite set in a total order. The order is a set of pairs, since
the prover cannot instantiate an operator: a proof about an instance of `Keyset` names its order
as such a set and cites the lemmas. There is no induction over pages: the first and the last element are those with the
smallest and largest set of elements below (`HasFirst`, `HasLast`), and `PageParts` says all that is needed of one page.

`SubscriberPagesProofs` proves, for any users and topics, any limits and any number of handlers:

| Theorem | States |
|---|---|
| `SubscribersCompleteHolds` | `SubscribersComplete` |
| `NobodyTwiceHolds` | `NobodyTwice` |

They assume what `Subscriptions` does, `LimitsAssumption` (a page has room) and `KeysAssumption` (user ids are
numbers, a cursor is not `None`). A user's place in the list is fixed: `IInv` gives it one key per
topic (`OneKey`), and `RowsStay` that rows, switched off and on again, keep it. `PInv` therefore splits the list at
the cursor: who was got has a key up to it, and whoever was subscribed all the while with a key up to it
was got (`FetchInv`). A page takes keys after the cursor only, so nobody twice, and all up to the next cursor.

`GatewayProofs` proves, for any subscriptions, requests, handlers, faults and retries, any size and number of pages:

| Theorem | States |
|---|---|
| `NoticesTrueHolds` | `NoticesTrue` |
| `NoticedOnceHolds` | `NoticedOnce` |
| `NoticedUnlessFaultyHolds` | `NoticedUnlessFaulty` |
| `AnsweredIsOverHolds` | `AnsweredIsOver` |

They assume what `Subscriptions` does, `MaxSubsAssumption`, `GatewayAssumption` (pages are read and have room) and
`GatewayNoneAssumption`. `GInv` joins `HInv` of `SubscriptionsProofs`, which the gateway's own steps
keep because they only free handlers (`RestKeeps`), with what the two sides know of each other: a
handler that answers success names the row its request is about, with a status of its operation (`AnswersInv`); a gate
that waits has one handler to itself, with its request, and no other handler works for it (`GatesInv`, `OverInv`); the
key of a notification is that of the request it is about (`InboxInv`). `NoticesTrue` is then `AnsweredTruly`
at the moment the answer is collected. `NoticedUnlessFaulty` needs the search as well: as many of the
user's rows as full pages were read lie before the cursor, and the row looked for does not (`Searching`). A search
that ends without it has passed `PageSize * MaxPages` others (`Overlooked`), which stays true when rows are added.

`tlapm` proves each module from nothing: `NotificationsProofs.tla`, `SubscriptionsProofs.tla`,
`DeliveryProofs.tla`, `DeliveryJobsProofs.tla`, `SessionsProofs.tla`, `KeysetProofs.tla`,
`SubscriberPagesProofs.tla`, `GatewayProofs.tla`. The invariants they rest on (`IInv`, `HInv`, `JInv`, `PInv`, `GInv`) hold of
the instances of the runs, too. Every invariant and every action property of the passing runs is proved.

Only model-checked: the liveness properties (fairness and ENABLED are outside the prover) and the
two runs that end in a violation.

## Not modelled, and the plan

1. Done: notifications, subscriptions, delivery, sessions, subscriber pages, gateway (checked,
   proved); stream configuration (checked).
2. What remains to prove: type invariants of `SubscriberPages` and `Gateway` as theorems of their own (they are parts of
   `PInv` and `GInv`), and the steps that liveness rests on, as safety: that a handler, worker or publisher at each
   of its points has a step it can take unless it waits for a lock that is held.
3. Pure parts against reference definitions: next allowed time, with changes of the
   zone's offset; payload depth.

Left out: the limiter of registrations, access tokens and GET /auth/me; the gateway's own
limiters (a request they refuse goes no further), its JWT checks and its plain
proxies of reads; the listing of notifications (the pages of `Keyset` in another
order) and the limits on payloads; the consumer's acks are in `Fanout`, but a malformed message,
which is nacked for ever, is not.

Left out for good: settings, logging, metrics, telemetry, health checks, schemas and
error bodies, password hashing and token formats.

---------------------------- MODULE DeliveryProofs ----------------------------
(***************************************************************************)
(* Proofs about Delivery, for any number of events, targets, consumers,    *)
(* workers and tries, any quiet hours and any number of faults.            *)
(***************************************************************************)
EXTENDS Delivery, FiniteSetTheorems, TLAPS

-----------------------------------------------------------------------------
(* The inductive invariant.                                                *)

\* The transaction of a consumer that marked its event is open; of a worker
\* that locked the row of its attempt.
Marked == {"create", "enqueue"}
Open == {"publish", "enqueue", "commit"}

\* An open fan-out: its event is not processed; each target that is done has one
\* uncommitted attempt, under an id that is no row's.
FanoutOK(c) ==
    LET f == fanout[c]
    IN /\ f.event \notin processed
       /\ \A a \in AttemptIds : f.rows[a] # None =>
            a \in drawn /\ a \notin Attempts /\ f.rows[a] \notin f.todo
       /\ \A a, b \in AttemptIds : f.rows[a] # None /\ f.rows[a] = f.rows[b] => a = b
       /\ \A t \in Targets \ f.todo : \E a \in AttemptIds : f.rows[a] = t

\* Open fan-outs are about different events, and different attempts.
FanoutsApart ==
    \A c, d \in Consumers :
      c # d /\ fanout[c].pc \in Marked /\ fanout[d].pc \in Marked =>
        /\ fanout[c].event # fanout[d].event
        /\ \A a \in AttemptIds : fanout[c].rows[a] = None \/ fanout[d].rows[a] = None

FanoutInv ==
    /\ Attempts \subseteq drawn
    /\ \A c \in Consumers :
         /\ fanout[c].pc # "idle" => fanout[c].event \in EventIds
         /\ fanout[c].pc = "enqueue" => fanout[c].attempt \in AttemptIds
         /\ IF fanout[c].pc \in Marked THEN FanoutOK(c)
            ELSE \A a \in AttemptIds : fanout[c].rows[a] = None
    /\ FanoutsApart
    /\ AckedIsProcessed
    /\ FannedOutOnce

\* What a try may make of a row that is not settled.
Tried(old, new) ==
    /\ old.status \in {"pending", "failed"}
    /\ new.event = old.event /\ new.target = old.target
    /\ \/ new.status \in {"sent", "failed"} /\ new.no = old.no
       \/ new.status = "failed" /\ new.no = old.no + 1 /\ new.no < MaxAttempts
       \/ new.status = "dead" /\ new.no = old.no + 1 /\ new.no = MaxAttempts

Outcome(row) == [event |-> row.event, target |-> row.target, result |-> row.status]

\* The outcome is published before the commit; a retry is enqueued no sooner
\* than it is due.
WorkerOK(w) ==
    LET r == workers[w]
    IN /\ r.pc \in {"idle"} => r = NoRun
       /\ r.pc # "idle" => r.job \in Jobs /\ r.job.wait = 0
       /\ r.pc \notin Open => r.write = None
       /\ r.pc \in Open =>
            /\ r.write \in Rows
            /\ r.job.attempt \in Attempts
            /\ Tried(attempts[r.job.attempt], r.write)
       /\ r.pc = "publish" => r.write.status \in {"sent", "dead"}
       /\ r.pc = "enqueue" => r.write.status = "failed" /\ r.write.retryIn <= r.defer
       /\ r.pc = "commit" => r.write.status = "failed" \/ Outcome(r.write) \in outcomes

\* The row lock: one open transaction for an attempt.
OneLock ==
    \A v, w \in Workers :
      v # w /\ workers[v].pc \in Open /\ workers[w].pc \in Open =>
        workers[v].job.attempt # workers[w].job.attempt

RowOK(row) ==
    /\ row.status = "dead" <=> row.no = MaxAttempts
    /\ row.retryIn > 0 => ~InQuietHours((hour + row.retryIn) % Day, Quiet[row.target])

RowsInv ==
    /\ \A a \in Attempts : RowOK(attempts[a])
    /\ \A w \in Workers : workers[w].pc \in Open => RowOK(workers[w].write)

\* The rows, and the rows to be committed, of an event and target that are sent.
Delivered(p) ==
    \E a \in Attempts : attempts[a].event = p[1] /\ attempts[a].target = p[2]
                          /\ attempts[a].status = "sent"
Delivering(p) ==
    \E w \in Workers :
      /\ workers[w].pc \in Open
      /\ workers[w].write.event = p[1] /\ workers[w].write.target = p[2]
      /\ workers[w].write.status = "sent"

\* Every send is recorded, about to be, or counted as rolled back.
SendsInv ==
    \A p \in EventIds \X Targets :
      sends[p] = unrecorded[p] + IF Delivered(p) \/ Delivering(p) THEN 1 ELSE 0

TInv == TypeOK /\ IsFiniteSet(queue)

IInv ==
    /\ TInv
    /\ FanoutInv
    /\ \A w \in Workers : WorkerOK(w)
    /\ OneLock
    /\ RowsInv
    /\ SettledIsPublished
    /\ SendsInv

-----------------------------------------------------------------------------
(* The quiet hours, for any length of the day and any window.              *)

LEMMA ModDay ==
  ASSUME NEW a \in Int
  PROVE  a % Day \in Hours
BY DayAssumption DEF Hours

LEMMA HourOfDay ==
  ASSUME NEW h \in Hours
  PROVE  h % Day = h /\ (h + Day) % Day = h
BY DayAssumption DEF Hours

LEMMA ModAdd ==
  ASSUME NEW n \in Int, n > 0, NEW a \in Int, NEW b \in Int
  PROVE  ((a % n) + b) % n = (a + b) % n
OBVIOUS

\* The hour of the day may be taken before something is added or after it.
LEMMA AddHours ==
  ASSUME NEW a \in Int, NEW b \in Int
  PROVE  ((a % Day) + b) % Day = (a + b) % Day
<1>1. Day \in Int /\ Day > 0
  BY DayAssumption
<1>. QED  BY <1>1, ModAdd

LEMMA QuietForType ==
  ASSUME NEW h \in Hours, NEW window \in Windows
  PROVE  QuietFor(h, window) \in Nat
BY DayAssumption
DEF QuietFor, NextAllowed, QuietEndDate, InQuietHours, Windows, Hours

\* Within quiet hours they last until the end of the window, today or tomorrow.
LEMMA QuietUntilEnd ==
  ASSUME NEW h \in Hours, NEW window \in Windows, InQuietHours(h, window)
  PROVE  /\ QuietFor(h, window) > 0
         /\ \/ h + QuietFor(h, window) = window.end
            \/ h + QuietFor(h, window) = window.end + Day
BY DayAssumption
DEF QuietFor, NextAllowed, QuietEndDate, InQuietHours, Windows, Hours

LEMMA NotQuiet ==
  ASSUME NEW h \in Hours, NEW window \in Windows, ~InQuietHours(h, window)
  PROVE  QuietFor(h, window) = 0
BY DayAssumption
DEF QuietFor, NextAllowed, QuietEndDate, InQuietHours, Windows, Hours

\* compute_next_allowed_time is right: what it returns is outside the quiet
\* hours, also when they contain midnight.
THEOREM QuietHoursEnd ==
  ASSUME NEW h \in Hours, NEW window \in Windows
  PROVE  ~InQuietHours((h + QuietFor(h, window)) % Day, window)
<1>1. window.end \in Hours
  BY DEF Windows
<1>2. ~InQuietHours(window.end, window)
  BY <1>1 DEF InQuietHours, Windows, Hours
<1>3. CASE InQuietHours(h, window)
  BY <1>1, <1>2, <1>3, QuietUntilEnd, HourOfDay
<1>4. CASE ~InQuietHours(h, window)
  <2>1. h + QuietFor(h, window) = h
    BY <1>4, NotQuiet DEF Hours
  <2>. QED  BY <1>4, <2>1, HourOfDay
<1>. QED  BY <1>3, <1>4

\* The same of a time that is a delay away.
THEOREM DelayedQuietHoursEnd ==
  ASSUME NEW h \in Hours, NEW delay \in Nat, NEW window \in Windows
  PROVE  LET quiet == QuietFor((h + delay) % Day, window)
         IN ~InQuietHours((h + (delay + quiet)) % Day, window)
<1> DEFINE quiet == QuietFor((h + delay) % Day, window)
<1>1. h \in Int
  BY DEF Hours
<1>2. (h + delay) % Day \in Hours
  BY <1>1, ModDay
<1>3. quiet \in Nat
  BY <1>2, QuietForType
<1>4. ~InQuietHours((((h + delay) % Day) + quiet) % Day, window)
  BY <1>2, QuietHoursEnd
<1> HIDE DEF quiet
<1>5. (((h + delay) % Day) + quiet) % Day = ((h + delay) + quiet) % Day
  BY <1>1, <1>3, AddHours
<1>6. (h + delay) + quiet = h + (delay + quiet)
  BY <1>1, <1>3
<1>. QED  BY <1>4, <1>5, <1>6 DEF quiet

-----------------------------------------------------------------------------
(* Operators.                                                              *)

LEMMA FiniteImage ==
  ASSUME NEW S, IsFiniteSet(S), NEW T, NEW f \in [S -> T],
         \A t \in T : \E s \in S : f[s] = t
  PROVE  IsFiniteSet(T) /\ Cardinality(T) <= Cardinality(S)
<1>1. f \in Surjection(S, T)
  BY DEF Surjection
<1>. QED  BY <1>1, FS_Surjection

\* enqueue_job finds an id for its job that no job in "held" or the queue has.
LEMMA EnqueuedJob ==
  ASSUME queue \in SUBSET Jobs, IsFiniteSet(queue), NEW held \in SUBSET Jobs, IsFiniteSet(held),
         NEW kind \in {"send", "retry"}, NEW a \in AttemptIds, NEW wait \in Nat
  PROVE  \E j \in Jobs :
           /\ Enqueued(kind, a, wait, held) = queue \cup {j}
           /\ j.kind = kind /\ j.attempt = a /\ j.wait = wait
           /\ \A k \in queue \cup held : k.kind = kind /\ k.attempt = a => k.copy # j.copy
<1> DEFINE same == {k \in queue \cup held : k.kind = kind /\ k.attempt = a}
           taken == {j.copy : j \in same}
           n == Cardinality(taken)
<1>1. IsFiniteSet(same)
  <2>1. IsFiniteSet(queue \cup held)
    BY FS_Union
  <2>. QED  BY <2>1, FS_Subset
<1>2. IsFiniteSet(taken)
  <2>1. [j \in same |-> j.copy] \in [same -> taken]
    OBVIOUS
  <2>2. \A t \in taken : \E s \in same : [j \in same |-> j.copy][s] = t
    OBVIOUS
  <2> HIDE DEF same, taken
  <2>. QED  BY <1>1, <2>1, <2>2, FiniteImage
<1>3. n \in Nat
  BY <1>2, FS_CardinalityType
<1>4. \E c \in 0 .. n : c \notin taken
  <2>1. IsFiniteSet(0 .. n) /\ Cardinality(0 .. n) = n + 1
    BY <1>3, FS_Interval
  <2>2. SUFFICES ASSUME 0 .. n \subseteq taken
                 PROVE  FALSE
    OBVIOUS
  <2>3. Cardinality(0 .. n) <= n
    BY <1>2, <2>2, FS_Subset
  <2>. QED  BY <1>3, <2>1, <2>3
<1> DEFINE c == CHOOSE c \in 0 .. n : c \notin taken
<1>5. c \in 0 .. n /\ c \notin taken
  BY <1>4
<1>6. Enqueued(kind, a, wait, held)
        = queue \cup {[kind |-> kind, attempt |-> a, wait |-> wait, copy |-> c]}
  BY DEF Enqueued
<1>7. \A k \in queue \cup held : k.kind = kind /\ k.attempt = a => k.copy # c
  BY <1>5
<1>8. c \in Nat
  BY <1>3, <1>5
<1> HIDE DEF c
<1>9. PICK j : j = [kind |-> kind, attempt |-> a, wait |-> wait, copy |-> c]
  OBVIOUS
<1>10. j \in Jobs /\ j.kind = kind /\ j.attempt = a /\ j.wait = wait /\ j.copy = c
  BY <1>8, <1>9 DEF Jobs
<1>. QED  BY <1>6, <1>7, <1>9, <1>10

LEMMA HeldIsFinite ==
  ASSUME \A w \in Workers : workers[w].pc # "idle" => workers[w].job \in Jobs
  PROVE  Held \in SUBSET Jobs /\ IsFiniteSet(Held)
<1>1. IsFiniteSet(Working)
  <2>1. Working \in SUBSET Workers
    BY DEF Working
  <2>. QED  BY <2>1, ExecutorAssumption, FS_Subset
<1> DEFINE f == [w \in Working |-> workers[w].job]
<1>2. f \in [Working -> Held] /\ \A j \in Held : \E w \in Working : f[w] = j
  BY DEF Held
<1> HIDE DEF f
<1>3. IsFiniteSet(Held)
  BY <1>1, <1>2, FiniteImage
<1>. QED  BY <1>3 DEF Held, Working

LEMMA BackoffType ==
  ASSUME NEW no
  PROVE  BackoffDelays(no) \subseteq Nat
BY ExecutorAssumption DEF BackoffDelays

LEMMA QuietNowType ==
  ASSUME DbTypeOK, NEW a \in Attempts
  PROVE  QuietNow(a) \in Nat
<1>1. attempts[a] \in Rows
  BY DEF DbTypeOK, Attempts
<1>2. Quiet[attempts[a].target] \in Windows
  BY <1>1, DeliveryAssumption DEF Rows
<1>. QED  BY <1>2, QuietForType DEF QuietNow, DbTypeOK

LEMMA RetryAfterType ==
  ASSUME hour \in Hours, NEW delay \in Nat, NEW t \in Targets
  PROVE  RetryAfter(delay, Quiet[t]) \in Nat
<1>1. (hour + delay) % Day \in Hours
  BY ModDay DEF Hours
<1>2. QuietFor((hour + delay) % Day, Quiet[t]) \in Nat
  BY <1>1, DeliveryAssumption, QuietForType
<1>. QED  BY <1>2 DEF RetryAfter

-----------------------------------------------------------------------------
(* Types.                                                                  *)

\* The state of a consumer that has drawn an id for one more attempt.
LEMMA CreatedFanout ==
  ASSUME NEW f \in Fanouts, NEW t \in Targets, NEW a \in AttemptIds
  PROVE  LET g == [f EXCEPT !.pc = "enqueue", !.todo = @ \ {t}, !.rows[a] = t, !.attempt = a]
         IN g = [pc |-> "enqueue", event |-> f.event, todo |-> f.todo \ {t},
                 rows |-> [f.rows EXCEPT ![a] = t], attempt |-> a]
<1>1. PICK x \in Fanouts : x = [f EXCEPT !.pc = "enqueue", !.todo = @ \ {t}]
  BY DEF Fanouts
<1>2. [x EXCEPT !.rows[a] = t] = [x EXCEPT !.rows = [x.rows EXCEPT ![a] = t]]
  BY DEF Fanouts
<1>3. PICK y : y = [x EXCEPT !.rows = [x.rows EXCEPT ![a] = t]]
  OBVIOUS
<1>4. /\ y = [pc |-> x.pc, event |-> x.event, todo |-> x.todo,
              rows |-> [x.rows EXCEPT ![a] = t], attempt |-> x.attempt]
      /\ y \in Fanouts
  BY <1>3 DEF Fanouts
<1>5. [y EXCEPT !.attempt = a] = [pc |-> y.pc, event |-> y.event, todo |-> y.todo,
                                  rows |-> y.rows, attempt |-> a]
  BY <1>4 DEF Fanouts
<1>6. [f EXCEPT !.pc = "enqueue", !.todo = @ \ {t}, !.rows[a] = t, !.attempt = a]
        = [y EXCEPT !.attempt = a]
  BY <1>1, <1>2, <1>3, Zenon
<1>7. x.pc = "enqueue" /\ x.event = f.event /\ x.todo = f.todo \ {t} /\ x.rows = f.rows
  BY <1>1 DEF Fanouts
<1>. QED  BY <1>4, <1>5, <1>6, <1>7

LEMMA ConsumerTypes ==
  ASSUME IInv, NEW c \in Consumers, ConsumerStep(c) \/ AbortFanout(c), UNCHANGED executorVars
  PROVE  TInv'
<1>1. fanout[c] \in Fanouts /\ fanout \in [Consumers -> Fanouts] /\ NoFanout \in Fanouts
  BY DEF IInv, TInv, TypeOK, FanoutTypeOK, Fanouts, NoFanout
<1>2. ASSUME NEW f \in Fanouts, Proceed(c, f)
      PROVE  FanoutTypeOK'
  BY <1>1, <1>2 DEF Proceed, FanoutTypeOK
<1>3. ExecutorTypeOK'
  BY DEF IInv, TInv, TypeOK, ExecutorTypeOK, executorVars
<1> USE DEF IInv, TInv, TypeOK, DbTypeOK
<1>4. CASE Receive(c)
  <2>1. PICK e \in unacked : Proceed(c, [NoFanout EXCEPT !.pc = "mark", !.event = e])
    BY <1>4 DEF Receive
  <2>2. [NoFanout EXCEPT !.pc = "mark", !.event = e] \in Fanouts
    BY <1>1 DEF Fanouts
  <2>. QED  BY <1>2, <1>3, <1>4, <2>1, <2>2 DEF Receive, dbVars
<1>5. CASE MarkProcessed(c)
  <2>1. /\ [fanout[c] EXCEPT !.pc = "ack"] \in Fanouts
        /\ [fanout[c] EXCEPT !.pc = "create", !.todo = Targets] \in Fanouts
    BY <1>1 DEF Fanouts
  <2>. QED  BY <1>2, <1>3, <1>5, <2>1 DEF MarkProcessed, dbVars
<1>6. CASE CreateAttempt(c)
  <2>1. CASE Proceed(c, NoFanout) /\ UNCHANGED drawn
    BY <1>1, <1>2, <1>3, <1>6, <2>1 DEF CreateAttempt
  <2>2. ASSUME NEW t \in Targets, NEW a \in AttemptIds, drawn' = drawn \cup {a},
               Proceed(c, [fanout[c] EXCEPT !.pc = "enqueue", !.todo = @ \ {t},
                                            !.rows[a] = t, !.attempt = a])
        PROVE  TInv'
    <3>1. [fanout[c] EXCEPT !.pc = "enqueue", !.todo = @ \ {t}, !.rows[a] = t, !.attempt = a]
            \in Fanouts
      BY <1>1, CreatedFanout DEF Fanouts
    <3>2. FanoutTypeOK'
      BY <1>2, <2>2, <3>1
    <3>. QED  BY <1>3, <1>6, <2>2, <3>2 DEF CreateAttempt
  <2>3. fanout[c].todo \subseteq Targets
    BY <1>1 DEF Fanouts
  <2>. QED  BY <1>6, <2>1, <2>2, <2>3 DEF CreateAttempt
<1>7. CASE EnqueueSend(c)
  <2>1. fanout[c].attempt \in AttemptIds
    BY <1>7 DEF EnqueueSend, FanoutInv
  <2>2. PICK j \in Jobs : queue' = queue \cup {j}
    <3>1. IsFiniteSet({}) /\ {} \in SUBSET Jobs
      BY FS_EmptySet
    <3>. QED  BY <1>7, <2>1, <3>1, EnqueuedJob DEF EnqueueSend
  <2>3. IsFiniteSet(queue')
    BY <2>2, FS_AddElement
  <2>4. [fanout[c] EXCEPT !.pc = "create", !.attempt = None] \in Fanouts
    BY <1>1 DEF Fanouts
  <2>. QED  BY <1>2, <1>3, <1>7, <2>2, <2>3, <2>4 DEF EnqueueSend
<1>8. CASE CommitFanout(c)
  <2>1. fanout[c].event \in EventIds
    BY <1>8 DEF CommitFanout, FanoutInv
  <2>2. \A a \in AttemptIds : fanout[c].rows[a] # None =>
          NewAttempt(fanout[c].event, fanout[c].rows[a]) \in Rows
    BY <1>1, <2>1, DeliveryAssumption DEF Fanouts, NewAttempt, Rows
  <2>3. [NoFanout EXCEPT !.pc = "ack", !.event = fanout[c].event] \in Fanouts
    BY <1>1 DEF Fanouts
  <2>4. attempts' \in [AttemptIds -> Rows \cup {None}]
    BY <1>8, <2>2 DEF CommitFanout
  <2>. QED  BY <1>2, <1>3, <1>8, <2>1, <2>3, <2>4 DEF CommitFanout
<1>9. CASE Ack(c)
  BY <1>1, <1>2, <1>3, <1>9 DEF Ack
<1>10. CASE AbortFanout(c)
  BY <1>1, <1>2, <1>3, <1>10, DeliveryAssumption DEF AbortFanout, Crash
<1>. QED  BY <1>4, <1>5, <1>6, <1>7, <1>8, <1>9, <1>10 DEF ConsumerStep

LEMMA EnvironmentTypes ==
  ASSUME IInv, Environment, UNCHANGED <<fanout, executorVars>>
  PROVE  TInv'
<1> USE DEF IInv, TInv, TypeOK, DbTypeOK
<1>1. FanoutTypeOK' /\ ExecutorTypeOK'
  BY DEF FanoutTypeOK, ExecutorTypeOK, executorVars
<1>2. ASSUME NEW e \in EventIds, Announce(e)
      PROVE  TInv'
  BY <1>1, <1>2 DEF Announce
<1>3. CASE RestartRedis
  BY <1>1, <1>3, FS_EmptySet, DeliveryAssumption DEF RestartRedis, Loss
<1>. QED  BY <1>2, <1>3 DEF Environment

-----------------------------------------------------------------------------
(* What the steps of a worker do.                                          *)

LEMMA RowsOf ==
  ASSUME IInv, NEW a \in Attempts
  PROVE  attempts[a] \in Rows /\ a \in AttemptIds /\ attempts[a].target \in Targets
BY DEF IInv, TInv, TypeOK, DbTypeOK, Attempts, Rows

LEMMA RunOf ==
  ASSUME IInv, NEW w \in Workers
  PROVE  /\ workers[w] \in Runs
         /\ workers[w] = [pc |-> workers[w].pc, job |-> workers[w].job,
                          write |-> workers[w].write, defer |-> workers[w].defer]
<1>1. workers[w] \in Runs
  BY DEF IInv, TInv, TypeOK, ExecutorTypeOK
<1>. QED  BY <1>1 DEF Runs

\* The worker w goes on as pc says, with the row new to be committed.
LEMMA RunGoesOn ==
  ASSUME IInv, NEW w \in Workers, NEW pc \in {"publish", "enqueue"},
         NEW new \in Rows, NEW defer \in Nat,
         \/ Run(w, [workers[w] EXCEPT !.pc = pc, !.defer = defer, !.write = new])
         \/ Run(w, [workers[w] EXCEPT !.pc = pc, !.write = new]) /\ defer = workers[w].defer
  PROVE  workers' = [workers EXCEPT ![w] = [pc |-> pc, job |-> workers[w].job,
                                            write |-> new, defer |-> defer]]
<1>1. PICK r \in Runs : r = workers[w]
  BY RunOf
<1>2. PICK x \in Runs : x = [r EXCEPT !.pc = pc]
  BY DEF Runs
<1>3. x = [pc |-> pc, job |-> r.job, write |-> r.write, defer |-> r.defer]
  BY <1>2 DEF Runs
<1>4. [x EXCEPT !.write = new] = [pc |-> pc, job |-> r.job, write |-> new, defer |-> r.defer]
  BY <1>3 DEF Runs
<1>5. PICK y \in Runs : y = [x EXCEPT !.defer = defer]
  BY DEF Runs
<1>6. y = [pc |-> pc, job |-> r.job, write |-> r.write, defer |-> defer]
  BY <1>3, <1>5 DEF Runs
<1>7. [y EXCEPT !.write = new] = [pc |-> pc, job |-> r.job, write |-> new, defer |-> defer]
  BY <1>6 DEF Runs
<1>. QED  BY <1>1, <1>2, <1>4, <1>5, <1>7, Zenon DEF Run

\* The three ways a try goes: put off, delivered, or failed.
Tries(w, a, pc, new, defer) ==
    /\ Starts(w, a)
    /\ workers' = [workers EXCEPT ![w] =
                     [pc |-> pc, job |-> workers[w].job, write |-> new, defer |-> defer]]
    /\ new \in Rows /\ defer \in Nat
    /\ Tried(attempts[a], new)
    /\ RowOK(new)
    /\ \/ pc = "publish" /\ new.status \in {"sent", "dead"}
       \/ pc = "enqueue" /\ new.status = "failed" /\ new.retryIn <= defer
    /\ sends' = IF new.status = "sent"
                  THEN [sends EXCEPT ![<<new.event, new.target>>] = @ + 1] ELSE sends
    /\ UNCHANGED <<dbVars, unrecorded, outcomes>>

LEMMA StartedRun ==
  ASSUME IInv, NEW w \in Workers, NEW a, Starts(w, a), Sendable(a)
  PROVE  /\ a \in Attempts /\ attempts[a] \in Rows
         /\ attempts[a].status \in {"pending", "failed"}
         /\ attempts[a].no < MaxAttempts
         /\ QuietNow(a) \in Nat
         /\ hour \in Hours
         /\ workers[w].write = None
<1>1. a \in Attempts /\ attempts[a] \in Rows
  BY RowsOf DEF Sendable
<1>2. attempts[a].status \in {"pending", "failed"}
  BY <1>1 DEF Sendable, Rows
<1>3. attempts[a].no < MaxAttempts
  BY <1>1, <1>2, DeliveryAssumption DEF IInv, RowsInv, RowOK, Rows
<1>4. QuietNow(a) \in Nat /\ hour \in Hours
  BY <1>1, QuietNowType DEF IInv, TInv, TypeOK, DbTypeOK
<1>5. workers[w].write = None
  BY DEF IInv, WorkerOK, Starts, Open
<1>. QED  BY <1>1, <1>2, <1>3, <1>4, <1>5

LEMMA DelayTries ==
  ASSUME IInv, NEW w \in Workers, DelayForQuietHours(w)
  PROVE  \E a \in Attempts : \E new, defer : Tries(w, a, "enqueue", new, defer)
<1>1. PICK a \in AttemptIds :
        /\ Starts(w, a) /\ Sendable(a) /\ QuietNow(a) > 0
        /\ Run(w, [workers[w] EXCEPT
             !.pc = "enqueue", !.defer = QuietNow(a),
             !.write = [attempts[a] EXCEPT !.status = "failed", !.retryIn = QuietNow(a)]])
  BY DEF DelayForQuietHours
<1>2. /\ a \in Attempts /\ attempts[a] \in Rows
      /\ attempts[a].status \in {"pending", "failed"} /\ attempts[a].no < MaxAttempts
      /\ QuietNow(a) \in Nat /\ hour \in Hours
  BY <1>1, StartedRun
<1>3. PICK new : new = [attempts[a] EXCEPT !.status = "failed", !.retryIn = QuietNow(a)]
  OBVIOUS
<1>4. new = [event |-> attempts[a].event, target |-> attempts[a].target,
             no |-> attempts[a].no, status |-> "failed", retryIn |-> QuietNow(a)]
  BY <1>2, <1>3 DEF Rows
<1>5. new \in Rows /\ Tried(attempts[a], new) /\ new.status = "failed" /\ new.retryIn = QuietNow(a)
  BY <1>2, <1>4 DEF Rows, Tried
<1>6. RowOK(new)
  <2>1. Quiet[attempts[a].target] \in Windows
    BY <1>2, DeliveryAssumption DEF Rows
  <2>2. ~InQuietHours((hour + new.retryIn) % Day, Quiet[new.target])
    BY <1>2, <1>4, <2>1, QuietHoursEnd DEF QuietNow
  <2>. QED  BY <1>2, <1>4, <2>2, DeliveryAssumption DEF RowOK, Rows
<1>7. workers' = [workers EXCEPT ![w] = [pc |-> "enqueue", job |-> workers[w].job,
                                         write |-> new, defer |-> QuietNow(a)]]
  BY <1>1, <1>2, <1>3, <1>5, RunGoesOn
<1>8. sends' = sends /\ UNCHANGED <<dbVars, unrecorded, outcomes>>
  BY DEF DelayForQuietHours
<1>9. Tries(w, a, "enqueue", new, QuietNow(a))
  BY <1>1, <1>2, <1>5, <1>6, <1>7, <1>8 DEF Tries
<1>. QED  BY <1>2, <1>9

LEMMA SuccessTries ==
  ASSUME IInv, NEW w \in Workers, SendSucceeds(w)
  PROVE  \E a \in Attempts : \E new, defer : Tries(w, a, "publish", new, defer)
<1>1. PICK a \in AttemptIds :
        /\ Starts(w, a) /\ Sendable(a)
        /\ Run(w, [workers[w] EXCEPT
             !.pc = "publish", !.write = [attempts[a] EXCEPT !.status = "sent", !.retryIn = 0]])
        /\ sends' = [sends EXCEPT ![<<attempts[a].event, attempts[a].target>>] = @ + 1]
  BY DEF SendSucceeds
<1>2. /\ a \in Attempts /\ attempts[a] \in Rows
      /\ attempts[a].status \in {"pending", "failed"} /\ attempts[a].no < MaxAttempts
  BY <1>1, StartedRun
<1>3. PICK new : new = [attempts[a] EXCEPT !.status = "sent", !.retryIn = 0]
  OBVIOUS
<1>4. new = [event |-> attempts[a].event, target |-> attempts[a].target,
             no |-> attempts[a].no, status |-> "sent", retryIn |-> 0]
  BY <1>2, <1>3 DEF Rows
<1>5. new \in Rows /\ Tried(attempts[a], new) /\ RowOK(new) /\ new.status = "sent"
  BY <1>2, <1>4, DeliveryAssumption DEF Rows, Tried, RowOK
<1>6. workers[w].defer \in Nat
  BY RunOf DEF Runs
<1>7. workers' = [workers EXCEPT ![w] = [pc |-> "publish", job |-> workers[w].job,
                                         write |-> new, defer |-> workers[w].defer]]
  BY <1>1, <1>3, <1>5, <1>6, RunGoesOn
<1>8. sends' = [sends EXCEPT ![<<new.event, new.target>>] = @ + 1]
  BY <1>1, <1>4
<1>9. UNCHANGED <<dbVars, unrecorded, outcomes>>
  BY DEF SendSucceeds
<1>10. Tries(w, a, "publish", new, workers[w].defer)
  BY <1>1, <1>5, <1>6, <1>7, <1>8, <1>9 DEF Tries
<1>. QED  BY <1>2, <1>10

LEMMA FailureTries ==
  ASSUME IInv, NEW w \in Workers, SendFails(w)
  PROVE  \E a \in Attempts : \E pc, new, defer : Tries(w, a, pc, new, defer)
<1>1. PICK a \in AttemptIds :
         LET row == [attempts[a] EXCEPT !.no = @ + 1]
         IN /\ Starts(w, a) /\ Sendable(a)
            /\ \/ /\ row.no >= MaxAttempts
                  /\ Run(w, [workers[w] EXCEPT
                       !.pc = "publish",
                       !.write = [row EXCEPT !.status = "dead", !.retryIn = 0]])
               \/ /\ row.no < MaxAttempts
                  /\ \E delay \in BackoffDelays(row.no) :
                       LET wait == RetryAfter(delay, Quiet[row.target])
                       IN Run(w, [workers[w] EXCEPT
                            !.pc = "enqueue", !.defer = wait,
                            !.write = [row EXCEPT !.status = "failed", !.retryIn = wait]])
  BY DEF SendFails
<1>2. /\ a \in Attempts /\ attempts[a] \in Rows
      /\ attempts[a].status \in {"pending", "failed"} /\ attempts[a].no < MaxAttempts
      /\ hour \in Hours
  BY <1>1, StartedRun
<1>3. PICK row : row = [attempts[a] EXCEPT !.no = @ + 1]
  OBVIOUS
<1>4. /\ row = [event |-> attempts[a].event, target |-> attempts[a].target,
                no |-> attempts[a].no + 1, status |-> attempts[a].status,
                retryIn |-> attempts[a].retryIn]
      /\ row \in Rows
  BY <1>2, <1>3, DeliveryAssumption DEF Rows
<1>5. sends' = sends /\ UNCHANGED <<dbVars, unrecorded, outcomes>>
  BY DEF SendFails
<1>6. ASSUME NEW status \in {"failed", "dead"}, NEW wait \in Nat, NEW new,
             new = [row EXCEPT !.status = status, !.retryIn = wait]
      PROVE  /\ new = [event |-> attempts[a].event, target |-> attempts[a].target,
                       no |-> attempts[a].no + 1, status |-> status, retryIn |-> wait]
             /\ new \in Rows
  BY <1>4, <1>6 DEF Rows
<1>7. CASE row.no >= MaxAttempts /\ Run(w, [workers[w] EXCEPT
             !.pc = "publish", !.write = [row EXCEPT !.status = "dead", !.retryIn = 0]])
  <2>1. PICK new : new = [row EXCEPT !.status = "dead", !.retryIn = 0]
    OBVIOUS
  <2>2. /\ new = [event |-> attempts[a].event, target |-> attempts[a].target,
                  no |-> attempts[a].no + 1, status |-> "dead", retryIn |-> 0]
        /\ new \in Rows
    BY <1>6, <2>1
  <2>3. attempts[a].no + 1 = MaxAttempts
    BY <1>2, <1>4, <1>7, DeliveryAssumption DEF Rows
  <2>4. Tried(attempts[a], new) /\ RowOK(new) /\ new.status = "dead"
    BY <1>2, <2>2, <2>3 DEF Tried, RowOK
  <2>5. workers[w].defer \in Nat
    BY RunOf DEF Runs
  <2>6. workers' = [workers EXCEPT ![w] = [pc |-> "publish", job |-> workers[w].job,
                                           write |-> new, defer |-> workers[w].defer]]
    BY <1>7, <2>1, <2>2, <2>5, RunGoesOn
  <2>7. Tries(w, a, "publish", new, workers[w].defer)
    BY <1>1, <1>5, <2>2, <2>4, <2>5, <2>6 DEF Tries
  <2>. QED  BY <1>2, <2>7
<1>8. ASSUME row.no < MaxAttempts, NEW delay \in BackoffDelays(row.no), NEW wait,
             wait = RetryAfter(delay, Quiet[row.target]),
             Run(w, [workers[w] EXCEPT
               !.pc = "enqueue", !.defer = wait,
               !.write = [row EXCEPT !.status = "failed", !.retryIn = wait]])
      PROVE  \E pc, new, defer : Tries(w, a, pc, new, defer)
  <2>1. delay \in Nat
    BY <1>8, BackoffType
  <2>2. row.target \in Targets /\ row.target = attempts[a].target
    BY <1>4 DEF Rows
  <2>3. wait \in Nat
    BY <1>2, <1>8, <2>1, <2>2, RetryAfterType
  <2>4. PICK new : new = [row EXCEPT !.status = "failed", !.retryIn = wait]
    OBVIOUS
  <2>5. /\ new = [event |-> attempts[a].event, target |-> attempts[a].target,
                  no |-> attempts[a].no + 1, status |-> "failed", retryIn |-> wait]
        /\ new \in Rows
    BY <1>6, <2>3, <2>4
  <2>6. attempts[a].no + 1 < MaxAttempts
    BY <1>4, <1>8
  <2>7. ~InQuietHours((hour + wait) % Day, Quiet[row.target])
    BY <1>2, <1>8, <2>1, <2>2, DelayedQuietHoursEnd, DeliveryAssumption DEF RetryAfter
  <2>8. RowOK(new)
    BY <2>2, <2>5, <2>6, <2>7, DeliveryAssumption DEF RowOK
  <2>9. Tried(attempts[a], new) /\ new.status = "failed" /\ new.retryIn <= wait
    BY <1>2, <2>3, <2>5, <2>6 DEF Tried
  <2>10. workers' = [workers EXCEPT ![w] = [pc |-> "enqueue", job |-> workers[w].job,
                                            write |-> new, defer |-> wait]]
    BY <1>8, <2>3, <2>4, <2>5, RunGoesOn
  <2>11. Tries(w, a, "enqueue", new, wait)
    BY <1>1, <1>5, <2>3, <2>5, <2>8, <2>9, <2>10 DEF Tries
  <2>. QED  BY <2>11
<1>. QED  BY <1>1, <1>2, <1>3, <1>7, <1>8

-----------------------------------------------------------------------------
(* Worker steps keep the invariant.                                        *)

\* The same attempts, of the same events and targets.
SameAttempts ==
    /\ Attempts' = Attempts
    /\ \A a \in Attempts : /\ attempts'[a].event = attempts[a].event
                           /\ attempts'[a].target = attempts[a].target

LEMMA FanoutKept ==
  ASSUME IInv, SameAttempts, UNCHANGED <<drawn, processed, fanout>>
  PROVE  FanoutInv'
<1>1. \A e, t : AttemptsFor(e, t)' = AttemptsFor(e, t)
  BY DEF AttemptsFor, SameAttempts
<1>2. FannedOutOnce'
  BY <1>1 DEF FannedOutOnce, IInv, FanoutInv
<1>3. \A c \in Consumers : fanout[c].pc \in Marked => FanoutOK(c)'
  BY DEF IInv, FanoutInv, FanoutOK, SameAttempts
<1>. QED  BY <1>2, <1>3 DEF IInv, FanoutInv, FanoutsApart, AckedIsProcessed, SameAttempts

\* An event and target have one attempt.
LEMMA OneAttempt ==
  ASSUME IInv, NEW a \in Attempts, NEW b \in Attempts,
         attempts[a].event = attempts[b].event, attempts[a].target = attempts[b].target
  PROVE  a = b
<1> DEFINE e == attempts[a].event
           t == attempts[a].target
<1>1. e \in EventIds /\ t \in Targets
  BY RowsOf DEF Rows
<1>2. a \in AttemptsFor(e, t) /\ b \in AttemptsFor(e, t)
  BY DEF AttemptsFor
<1>3. \E c : AttemptsFor(e, t) = {c}
  BY <1>1, <1>2 DEF IInv, FanoutInv, FannedOutOnce
<1>. QED  BY <1>2, <1>3

\* What an open transaction is to record is about its attempt, and no other's.
LEMMA OpenRun ==
  ASSUME IInv, NEW w \in Workers, workers[w].pc \in Open
  PROVE  LET a == workers[w].job.attempt
             new == workers[w].write
         IN /\ a \in Attempts /\ new \in Rows /\ Tried(attempts[a], new)
            /\ RowOK(new)
            /\ \A b \in Attempts : attempts[b].event = new.event
                                     /\ attempts[b].target = new.target => b = a
            /\ \A v \in Workers \ {w} : workers[v].pc \in Open =>
                 ~ (workers[v].write.event = new.event /\ workers[v].write.target = new.target)
<1> DEFINE a == workers[w].job.attempt
           new == workers[w].write
<1>1. a \in Attempts /\ new \in Rows /\ Tried(attempts[a], new) /\ RowOK(new)
  BY DEF IInv, WorkerOK, RowsInv
<1>2. ASSUME NEW b \in Attempts, attempts[b].event = new.event, attempts[b].target = new.target
      PROVE  b = a
  BY <1>1, <1>2, OneAttempt DEF Tried
<1>3. ASSUME NEW v \in Workers \ {w}, workers[v].pc \in Open,
             workers[v].write.event = new.event, workers[v].write.target = new.target
      PROVE  FALSE
  <2>1. /\ workers[v].job.attempt \in Attempts
        /\ Tried(attempts[workers[v].job.attempt], workers[v].write)
    BY <1>3 DEF IInv, WorkerOK
  <2>2. workers[v].job.attempt = a
    BY <1>2, <1>3, <2>1 DEF Tried
  <2>. QED  BY <1>3, <2>2 DEF IInv, OneLock
<1>. QED  BY <1>1, <1>2, <1>3

LEMMA OtherWorkers ==
  ASSUME IInv, NEW w \in Workers, NEW r, workers' = [workers EXCEPT ![w] = r]
  PROVE  workers'[w] = r /\ \A v \in Workers : v # w => workers'[v] = workers[v]
BY DEF IInv, TInv, TypeOK, ExecutorTypeOK

\* A worker without an open transaction before the step and after it.
LEMMA RestStep ==
  ASSUME IInv, TInv', NEW w \in Workers, NEW r, workers' = [workers EXCEPT ![w] = r],
         workers[w].pc \notin Open, r.pc \notin Open, r.write = None,
         r.pc = "idle" => r = NoRun, r.pc # "idle" => r.job \in Jobs /\ r.job.wait = 0,
         UNCHANGED <<attempts, drawn, processed, hour, fanout, sends, unrecorded, outcomes>>
  PROVE  IInv'
<1>1. workers'[w] = r /\ \A v \in Workers : v # w => workers'[v] = workers[v]
  BY OtherWorkers
<1>2. SameAttempts
  BY DEF SameAttempts, Attempts
<1>3. FanoutInv'
  BY <1>2, FanoutKept
<1>4. \A v \in Workers : WorkerOK(v)'
  BY <1>1, <1>2 DEF IInv, WorkerOK, SameAttempts, Open
<1>5. OneLock'
  BY <1>1 DEF IInv, OneLock
<1>6. RowsInv'
  BY <1>1, <1>2 DEF IInv, RowsInv, RowOK, SameAttempts
<1>7. SettledIsPublished'
  BY <1>2 DEF IInv, SettledIsPublished, SameAttempts
<1>8. SendsInv'
  <2>1. \A p : Delivered(p)' = Delivered(p) /\ Delivering(p)' = Delivering(p)
    BY <1>1, <1>2 DEF Delivered, Delivering, SameAttempts
  <2>. QED  BY <2>1 DEF IInv, SendsInv
<1>. QED  BY <1>3, <1>4, <1>5, <1>6, <1>7, <1>8 DEF IInv

\* A worker begins a transaction, and may have sent.
LEMMA TryStep ==
  ASSUME IInv, NEW w \in Workers, NEW a \in Attempts, NEW pc, NEW new, NEW defer,
         Tries(w, a, pc, new, defer), UNCHANGED fanout
  PROVE  IInv'
<1> DEFINE old == attempts[a]
           r == [pc |-> pc, job |-> workers[w].job, write |-> new, defer |-> defer]
<1>1. /\ workers[w].pc = "start" /\ workers[w].job \in Jobs /\ workers[w].job.wait = 0
      /\ workers[w].job.attempt = a
      /\ workers' = [workers EXCEPT ![w] = r]
      /\ UNCHANGED <<attempts, drawn, processed, unacked, queue, hour, crashes, losses,
                     unrecorded, outcomes>>
  BY DEF Tries, Starts, IInv, WorkerOK, dbVars
<1>2. r.pc \in {"publish", "enqueue"} /\ r.pc \in Open /\ r.pc # "commit" /\ r.pc # "idle"
  BY DEF Tries, Open
<1>3. new \in Rows /\ Tried(old, new) /\ RowOK(new) /\ old \in Rows
  BY RowsOf DEF Tries
<1>4. workers'[w] = r /\ \A v \in Workers : v # w => workers'[v] = workers[v]
  BY <1>1, OtherWorkers
<1>5. SameAttempts
  BY <1>1 DEF SameAttempts, Attempts
<1>6. new.event \in EventIds /\ new.target \in Targets
  BY <1>3 DEF Rows
<1>7. TInv'
  <2>1. r \in Runs
    BY <1>1, <1>2, <1>3 DEF Runs, Tries
  <2>2. workers' \in [Workers -> Runs]
    BY <1>1, <2>1 DEF IInv, TInv, TypeOK, ExecutorTypeOK
  <2>3. sends' \in [EventIds \X Targets -> Nat]
    BY <1>6 DEF Tries, IInv, TInv, TypeOK, ExecutorTypeOK
  <2>. QED  BY <1>1, <2>2, <2>3
            DEF IInv, TInv, TypeOK, DbTypeOK, FanoutTypeOK, ExecutorTypeOK
<1>8. FanoutInv'
  BY <1>1, <1>5, FanoutKept
<1>9. \A v \in Workers : WorkerOK(v)'
  <2>1. WorkerOK(w)'
    BY <1>1, <1>2, <1>3, <1>4, <1>5 DEF WorkerOK, Tries, SameAttempts
  <2>2. ASSUME NEW v \in Workers, v # w
        PROVE  WorkerOK(v)'
    BY <1>1, <1>4, <1>5, <2>2 DEF IInv, WorkerOK, SameAttempts
  <2>. QED  BY <2>1, <2>2
<1>10. \A v \in Workers : v # w /\ workers[v].pc \in Open => workers[v].job.attempt # a
  BY DEF Tries, Starts, Open
<1>11. OneLock'
  BY <1>1, <1>4, <1>10 DEF IInv, OneLock
<1>12. RowsInv'
  BY <1>1, <1>3, <1>4, <1>5 DEF IInv, RowsInv, RowOK, SameAttempts
<1>13. SettledIsPublished'
  BY <1>1, <1>5 DEF IInv, SettledIsPublished, SameAttempts
<1>14. SendsInv'
  <2>1. \A p : Delivered(p)' = Delivered(p)
    BY <1>1, <1>5 DEF Delivered, SameAttempts
  <2>2. \A v \in Workers : v # w /\ workers[v].pc \in Open =>
          ~ (workers[v].write.event = new.event /\ workers[v].write.target = new.target)
    <3>1. SUFFICES ASSUME NEW v \in Workers, v # w, workers[v].pc \in Open,
                          workers[v].write.event = new.event,
                          workers[v].write.target = new.target
                   PROVE  FALSE
      OBVIOUS
    <3>2. a = workers[v].job.attempt
      BY <1>3, <3>1, OpenRun DEF Tried
    <3>. QED  BY <1>10, <3>1, <3>2
  <2>3. ASSUME NEW p \in EventIds \X Targets, p = <<new.event, new.target>>
        PROVE  ~Delivered(p) /\ ~Delivering(p) /\ (Delivering(p)' <=> new.status = "sent")
    <3>1. ~Delivered(p)
      BY <1>3, <2>3, OneAttempt DEF Delivered, Tried
    <3>2. ~Delivering(p)
      BY <1>1, <2>2, <2>3 DEF Delivering, Open
    <3>3. Delivering(p)' <=> new.status = "sent"
      BY <1>2, <1>4, <2>2, <2>3 DEF Delivering
    <3>. QED  BY <3>1, <3>2, <3>3
  <2>4. ASSUME NEW p \in EventIds \X Targets, p # <<new.event, new.target>>
        PROVE  Delivering(p)' = Delivering(p)
    <3>1. ~ (new.event = p[1] /\ new.target = p[2])
      BY <2>4
    <3>. QED  BY <1>1, <1>4, <3>1 DEF Delivering, Open
  <2>5. ASSUME NEW p \in EventIds \X Targets
        PROVE  sends'[p] = IF p = <<new.event, new.target>> /\ new.status = "sent"
                             THEN sends[p] + 1 ELSE sends[p]
    BY DEF Tries, IInv, TInv, TypeOK, ExecutorTypeOK
  <2>6. ASSUME NEW p \in EventIds \X Targets
        PROVE  (sends[p] = unrecorded[p] + IF Delivered(p) \/ Delivering(p) THEN 1 ELSE 0)'
    <3>1. /\ sends[p] = unrecorded[p] + IF Delivered(p) \/ Delivering(p) THEN 1 ELSE 0
          /\ sends[p] \in Nat /\ unrecorded[p] \in Nat /\ unrecorded'[p] = unrecorded[p]
      BY <1>1 DEF IInv, SendsInv, TInv, TypeOK, ExecutorTypeOK
    <3>. QED  BY <2>1, <2>3, <2>4, <2>5, <3>1
  <2>. QED  BY <2>6 DEF SendsInv
<1>. QED  BY <1>7, <1>8, <1>9, <1>11, <1>12, <1>13, <1>14 DEF IInv

\* The outcome is published or the retry enqueued: the transaction may commit.
LEMMA ReadyStep ==
  ASSUME IInv, TInv', NEW w \in Workers, workers[w].pc \in {"publish", "enqueue"},
         workers' = [workers EXCEPT ![w] = [workers[w] EXCEPT !.pc = "commit"]],
         outcomes \subseteq outcomes',
         workers[w].write.status = "failed" \/ Outcome(workers[w].write) \in outcomes',
         UNCHANGED <<attempts, drawn, processed, hour, fanout, sends, unrecorded>>
  PROVE  IInv'
<1>1. /\ workers'[w] = [workers[w] EXCEPT !.pc = "commit"]
      /\ \A v \in Workers : v # w => workers'[v] = workers[v]
  BY OtherWorkers
<1>2. /\ workers'[w].pc = "commit" /\ workers'[w].job = workers[w].job
      /\ workers'[w].write = workers[w].write
  <2>1. PICK r \in Runs : r = workers[w]
    BY RunOf
  <2>2. workers'[w] = [r EXCEPT !.pc = "commit"]
    BY <1>1, <2>1
  <2>. QED  BY <2>1, <2>2 DEF Runs
<1>3. SameAttempts
  BY DEF SameAttempts, Attempts
<1>4. FanoutInv'
  BY <1>3, FanoutKept
<1>5. \A v \in Workers : WorkerOK(v)'
  <2>1. WorkerOK(w)'
    BY <1>2, <1>3 DEF IInv, WorkerOK, SameAttempts, Open
  <2>2. ASSUME NEW v \in Workers, v # w
        PROVE  WorkerOK(v)'
    BY <1>1, <1>3, <2>2 DEF IInv, WorkerOK, SameAttempts
  <2>. QED  BY <2>1, <2>2
<1>6. OneLock'
  BY <1>1, <1>2 DEF IInv, OneLock, Open
<1>7. RowsInv'
  BY <1>1, <1>2, <1>3 DEF IInv, RowsInv, RowOK, SameAttempts, Open
<1>8. SettledIsPublished'
  BY <1>3 DEF IInv, SettledIsPublished, SameAttempts
<1>9. SendsInv'
  <2>1. \A p : Delivered(p)' = Delivered(p) /\ Delivering(p)' = Delivering(p)
    BY <1>1, <1>2, <1>3 DEF Delivered, Delivering, SameAttempts, Open
  <2>. QED  BY <2>1 DEF IInv, SendsInv
<1>. QED  BY <1>4, <1>5, <1>6, <1>7, <1>8, <1>9 DEF IInv

\* The transaction of the worker w commits.
LEMMA CommitStep ==
  ASSUME IInv, NEW w \in Workers, CommitSend(w), UNCHANGED fanout
  PROVE  IInv'
<1> DEFINE a == workers[w].job.attempt
           new == workers[w].write
           r == [workers[w] EXCEPT !.pc = "finish", !.write = None, !.defer = 0]
<1>1. /\ a \in Attempts /\ a \in AttemptIds /\ new \in Rows
      /\ Tried(attempts[a], new) /\ RowOK(new)
      /\ workers[w].pc \in Open
  BY OpenRun, RowsOf DEF CommitSend, Open
<1>2. /\ workers' = [workers EXCEPT ![w] = r]
      /\ attempts' = [attempts EXCEPT ![a] = new]
      /\ UNCHANGED <<drawn, processed, unacked, queue, hour, crashes, losses, fanout,
                     sends, unrecorded, outcomes>>
  BY DEF CommitSend, Run
<1>3. r = [pc |-> "finish", job |-> workers[w].job, write |-> None, defer |-> 0] /\ r \in Runs
  <2>1. PICK x \in Runs : x = [workers[w] EXCEPT !.pc = "finish", !.write = None]
    BY RunOf DEF Runs
  <2>2. x = [pc |-> "finish", job |-> workers[w].job, write |-> None, defer |-> workers[w].defer]
    BY <2>1, RunOf DEF Runs
  <2>3. [x EXCEPT !.defer = 0] = [pc |-> "finish", job |-> workers[w].job, write |-> None,
                                  defer |-> 0]
    BY <2>2 DEF Runs
  <2>4. r = [x EXCEPT !.defer = 0]
    BY <2>1, Zenon
  <2>. QED  BY <2>3, <2>4, RunOf DEF Runs
<1>4. workers'[w] = r /\ \A v \in Workers : v # w => workers'[v] = workers[v]
  BY <1>2, OtherWorkers
<1> HIDE DEF r
<1>5. \A b \in AttemptIds : attempts'[b] = IF b = a THEN new ELSE attempts[b]
  BY <1>1, <1>2 DEF IInv, TInv, TypeOK, DbTypeOK
<1>6. TInv'
  BY <1>1, <1>2, <1>3 DEF IInv, TInv, TypeOK, DbTypeOK, FanoutTypeOK, ExecutorTypeOK
<1>7. Attempts' = Attempts
  BY <1>1, <1>5, DeliveryNoneAssumption DEF Attempts
<1>8. SameAttempts
  BY <1>1, <1>5, <1>7 DEF SameAttempts, Tried, Attempts
<1>9. FanoutInv'
  BY <1>2, <1>8, FanoutKept
<1>10. \A v \in Workers : v # w /\ workers[v].pc \in Open => workers[v].job.attempt # a
  BY <1>1 DEF IInv, OneLock
<1>11. \A v \in Workers : WorkerOK(v)'
  <2>1. WorkerOK(w)'
    BY <1>1, <1>3, <1>4 DEF IInv, WorkerOK, Open
  <2>2. ASSUME NEW v \in Workers, v # w
        PROVE  WorkerOK(v)'
    BY <1>2, <1>4, <1>5, <1>7, <1>10, <2>2 DEF IInv, WorkerOK, Attempts
  <2>. QED  BY <2>1, <2>2
<1>12. OneLock'
  BY <1>3, <1>4 DEF IInv, OneLock, Open
<1>13. RowsInv'
  BY <1>1, <1>2, <1>3, <1>4, <1>5, <1>7 DEF IInv, RowsInv, RowOK, Open, Attempts
<1>14. SettledIsPublished'
  <2>1. new.status \in {"sent", "dead"} => Outcome(new) \in outcomes
    BY DEF CommitSend, IInv, WorkerOK
  <2>. QED  BY <1>1, <1>2, <1>5, <1>7, <2>1 DEF IInv, SettledIsPublished, Outcome, Attempts
<1>15. SendsInv'
  <2>1. ASSUME NEW p \in EventIds \X Targets
        PROVE  Delivered(p)' \/ Delivering(p)' <=> Delivered(p) \/ Delivering(p)
    <3>1. Delivered(p)' <=> Delivered(p) \/ (new.status = "sent" /\ new.event = p[1] /\ new.target = p[2])
      BY <1>1, <1>5, <1>7 DEF Delivered, Tried, Attempts
    <3>2. Delivering(p) <=> Delivering(p)' \/ (new.status = "sent" /\ new.event = p[1] /\ new.target = p[2])
      BY <1>1, <1>3, <1>4 DEF Delivering, Open
    <3>. QED  BY <3>1, <3>2
  <2>. QED  BY <1>2, <2>1 DEF IInv, SendsInv
<1>. QED  BY <1>6, <1>9, <1>11, <1>12, <1>13, <1>14, <1>15 DEF IInv

\* A transaction that rolls back takes its row with it, and counts a send.
LEMMA RollBackStep ==
  ASSUME IInv, NEW w \in Workers, CrashWorker(w) \/ FailJob(w), UNCHANGED fanout
  PROVE  IInv'
<1> DEFINE new == workers[w].write
<1>1. /\ workers' = [workers EXCEPT ![w] = NoRun]
      /\ unrecorded' = IF new # None /\ new.status = "sent"
                         THEN [unrecorded EXCEPT ![<<new.event, new.target>>] = @ + 1]
                         ELSE unrecorded
      /\ UNCHANGED <<attempts, drawn, processed, unacked, hour, sends, outcomes, fanout>>
  BY DEF CrashWorker, FailJob, RollBack, Run
<1>2. NoRun \in Runs /\ NoRun.pc = "idle" /\ NoRun.write = None
  BY DEF NoRun, Runs
<1>3. workers'[w] = NoRun /\ \A v \in Workers : v # w => workers'[v] = workers[v]
  BY <1>1, OtherWorkers
<1>4. SameAttempts
  BY <1>1 DEF SameAttempts, Attempts
<1>5. new # None <=> workers[w].pc \in Open
  BY DeliveryNoneAssumption DEF IInv, WorkerOK
<1>6. new # None => new \in Rows /\ new.event \in EventIds /\ new.target \in Targets
  BY <1>5, OpenRun DEF Rows
<1>7. TInv'
  <2>1. queue' \in SUBSET Jobs /\ IsFiniteSet(queue')
    BY FS_RemoveElement DEF CrashWorker, FailJob, IInv, TInv, TypeOK, DbTypeOK
  <2>2. crashes' \in 0 .. MaxCrashes /\ losses' \in 0 .. MaxLosses
    BY DeliveryAssumption
    DEF CrashWorker, FailJob, Crash, Loss, IInv, TInv, TypeOK, DbTypeOK
  <2>3. workers' \in [Workers -> Runs]
    BY <1>1, <1>2 DEF IInv, TInv, TypeOK, ExecutorTypeOK
  <2>4. unrecorded' \in [EventIds \X Targets -> Nat]
    BY <1>1, <1>6 DEF IInv, TInv, TypeOK, ExecutorTypeOK
  <2>. QED  BY <1>1, <2>1, <2>2, <2>3, <2>4
            DEF IInv, TInv, TypeOK, DbTypeOK, FanoutTypeOK, ExecutorTypeOK
<1>8. FanoutInv'
  BY <1>1, <1>4, FanoutKept
<1>9. \A v \in Workers : WorkerOK(v)'
  BY <1>1, <1>2, <1>3, <1>4 DEF IInv, WorkerOK, SameAttempts, Open
<1>10. OneLock'
  BY <1>2, <1>3 DEF IInv, OneLock, Open
<1>11. RowsInv'
  BY <1>1, <1>2, <1>3, <1>4 DEF IInv, RowsInv, RowOK, SameAttempts, Open
<1>12. SettledIsPublished'
  BY <1>1, <1>4 DEF IInv, SettledIsPublished, SameAttempts
<1>13. SendsInv'
  <2>1. \A p : Delivered(p)' = Delivered(p)
    BY <1>1, <1>4 DEF Delivered, SameAttempts
  <2>2. CASE new # None /\ new.status = "sent"
    <3>1. ASSUME NEW p \in EventIds \X Targets, p = <<new.event, new.target>>
          PROVE  ~Delivered(p) /\ Delivering(p) /\ ~Delivering(p)'
      <4>1. ~Delivered(p)
        BY <1>5, <2>2, <3>1, OpenRun DEF Delivered, Tried
      <4>2. Delivering(p)
        BY <1>5, <2>2, <3>1 DEF Delivering
      <4>3. ~Delivering(p)'
        BY <1>2, <1>3, <1>5, <2>2, <3>1, OpenRun DEF Delivering, Open
      <4>. QED  BY <4>1, <4>2, <4>3
    <3>2. ASSUME NEW p \in EventIds \X Targets, p # <<new.event, new.target>>
          PROVE  Delivering(p)' = Delivering(p)
      <4>1. ~ (new.event = p[1] /\ new.target = p[2])
        BY <3>2
      <4>. QED  BY <1>2, <1>3, <4>1 DEF Delivering, Open
    <3>3. ASSUME NEW p \in EventIds \X Targets
          PROVE  unrecorded'[p] = IF p = <<new.event, new.target>> THEN unrecorded[p] + 1
                                  ELSE unrecorded[p]
      BY <1>1, <2>2 DEF IInv, TInv, TypeOK, ExecutorTypeOK
    <3>4. ASSUME NEW p \in EventIds \X Targets
          PROVE  (sends[p] = unrecorded[p] + IF Delivered(p) \/ Delivering(p) THEN 1 ELSE 0)'
      <4>1. /\ sends[p] = unrecorded[p] + IF Delivered(p) \/ Delivering(p) THEN 1 ELSE 0
            /\ sends[p] \in Nat /\ unrecorded[p] \in Nat /\ sends'[p] = sends[p]
        BY <1>1 DEF IInv, SendsInv, TInv, TypeOK, ExecutorTypeOK
      <4>. QED  BY <2>1, <3>1, <3>2, <3>3, <4>1
    <3>. QED  BY <3>4 DEF SendsInv
  <2>3. CASE ~ (new # None /\ new.status = "sent")
    <3>1. \A p : Delivering(p)' = Delivering(p)
      BY <1>2, <1>3, <1>5, <2>3 DEF Delivering, Open
    <3>. QED  BY <1>1, <2>1, <2>3, <3>1 DEF IInv, SendsInv
  <2>. QED  BY <2>2, <2>3
<1>. QED  BY <1>7, <1>8, <1>9, <1>10, <1>11, <1>12, <1>13 DEF IInv

\* The types of the parts only a worker's run and the queue may change.
LEMMA QueueTypes ==
  ASSUME IInv, NEW w \in Workers, NEW r \in Runs, workers' = [workers EXCEPT ![w] = r],
         queue' \in SUBSET Jobs, IsFiniteSet(queue'), outcomes' \in SUBSET Outcomes,
         UNCHANGED <<attempts, drawn, processed, unacked, hour, crashes, losses, fanout,
                     sends, unrecorded>>
  PROVE  TInv'
BY DEF IInv, TInv, TypeOK, DbTypeOK, FanoutTypeOK, ExecutorTypeOK

LEMMA Queued ==
  ASSUME IInv, NEW held \in SUBSET Jobs, IsFiniteSet(held),
         NEW kind \in {"send", "retry"}, NEW a \in AttemptIds, NEW wait \in Nat,
         queue' = Enqueued(kind, a, wait, held)
  PROVE  queue' \in SUBSET Jobs /\ IsFiniteSet(queue')
<1>1. queue \in SUBSET Jobs /\ IsFiniteSet(queue)
  BY DEF IInv, TInv, TypeOK, DbTypeOK
<1>2. PICK j \in Jobs : queue' = queue \cup {j}
  BY <1>1, EnqueuedJob
<1>. QED  BY <1>1, <1>2, FS_AddElement

LEMMA HeldJobs ==
  ASSUME IInv
  PROVE  Held \in SUBSET Jobs /\ IsFiniteSet(Held)
BY HeldIsFinite DEF IInv, WorkerOK

LEMMA TakeStep ==
  ASSUME IInv, NEW w \in Workers, TakeJob(w), UNCHANGED fanout
  PROVE  IInv'
<1>1. PICK j \in queue : j.wait = 0 /\ Run(w, [NoRun EXCEPT !.pc = "start", !.job = j])
  BY DEF TakeJob
<1>2. j \in Jobs
  BY DEF IInv, TInv, TypeOK, DbTypeOK
<1>3. PICK r : r = [NoRun EXCEPT !.pc = "start", !.job = j]
  OBVIOUS
<1>4. r = [pc |-> "start", job |-> j, write |-> None, defer |-> 0] /\ r \in Runs
  BY <1>2, <1>3 DEF NoRun, Runs
<1>5. /\ workers' = [workers EXCEPT ![w] = r]
      /\ UNCHANGED <<attempts, drawn, processed, unacked, queue, hour, crashes, losses,
                     sends, unrecorded, outcomes>>
  BY <1>1, <1>3 DEF TakeJob, Run, dbVars
<1>6. TInv'
  BY <1>4, <1>5, QueueTypes DEF IInv, TInv, TypeOK, DbTypeOK, ExecutorTypeOK
<1>7. /\ workers[w].pc \notin Open /\ r.pc \notin Open /\ r.write = None
      /\ r.pc # "idle" /\ r.job \in Jobs /\ r.job.wait = 0
  BY <1>1, <1>2, <1>4 DEF TakeJob, Open
<1>. QED  BY <1>5, <1>6, <1>7, RestStep

\* The worker has done its job, but for taking it out of the queue.
LEMMA DoneStep ==
  ASSUME IInv, NEW w \in Workers, workers[w].pc = "start",
         Run(w, [workers[w] EXCEPT !.pc = "finish"]),
         queue' \in SUBSET Jobs, IsFiniteSet(queue'),
         UNCHANGED <<attempts, drawn, processed, unacked, hour, crashes, losses, fanout,
                     sends, unrecorded, outcomes>>
  PROVE  IInv'
<1>1. PICK x \in Runs : x = workers[w]
  BY RunOf
<1>2. PICK r : r = [x EXCEPT !.pc = "finish"]
  OBVIOUS
<1>3. r \in Runs /\ r.pc = "finish" /\ r.job = workers[w].job /\ r.write = workers[w].write
  BY <1>1, <1>2 DEF Runs
<1>4. workers' = [workers EXCEPT ![w] = r]
  BY <1>1, <1>2 DEF Run
<1>5. TInv'
  BY <1>3, <1>4, QueueTypes DEF IInv, TInv, TypeOK, ExecutorTypeOK
<1>6. workers[w].write = None /\ workers[w].job \in Jobs /\ workers[w].job.wait = 0
  BY DEF IInv, WorkerOK, Open
<1>. QED  BY <1>3, <1>4, <1>5, <1>6, RestStep DEF Open

LEMMA RetryStep ==
  ASSUME IInv, NEW w \in Workers, RetryAttempt(w) \/ Skip(w), UNCHANGED fanout
  PROVE  IInv'
<1>1. CASE RetryAttempt(w)
  <2>1. workers[w].job.attempt \in AttemptIds
    BY <1>1 DEF RetryAttempt, IInv, WorkerOK, Jobs
  <2>2. queue' \in SUBSET Jobs /\ IsFiniteSet(queue')
    BY <1>1, <2>1, HeldJobs, Queued DEF RetryAttempt
  <2>. QED  BY <1>1, <2>2, DoneStep DEF RetryAttempt
<1>2. CASE Skip(w)
  BY <1>2, DoneStep DEF Skip, Starts, dbVars, IInv, TInv, TypeOK, DbTypeOK
<1>. QED  BY <1>1, <1>2

LEMMA FinishStep ==
  ASSUME IInv, NEW w \in Workers, Finish(w), UNCHANGED fanout
  PROVE  IInv'
<1>1. NoRun \in Runs /\ NoRun.pc = "idle" /\ NoRun.write = None
  BY DEF NoRun, Runs
<1>2. /\ workers' = [workers EXCEPT ![w] = NoRun]
      /\ queue' = queue \ {workers[w].job}
      /\ UNCHANGED <<attempts, drawn, processed, unacked, hour, crashes, losses,
                     sends, unrecorded, outcomes>>
  BY DEF Finish, Run
<1>3. TInv'
  BY <1>1, <1>2, QueueTypes, FS_RemoveElement DEF IInv, TInv, TypeOK, DbTypeOK, ExecutorTypeOK
<1>. QED  BY <1>1, <1>2, <1>3, RestStep DEF Finish, Open

LEMMA ReadyRun ==
  ASSUME IInv, NEW w \in Workers, workers[w].pc \in {"publish", "enqueue"}
  PROVE  /\ [workers[w] EXCEPT !.pc = "commit"] \in Runs
         /\ workers[w].write \in Rows
         /\ workers[w].job.attempt \in AttemptIds
         /\ workers[w].defer \in Nat
BY RunOf, OpenRun, RowsOf DEF Runs, Open

LEMMA PublishStep ==
  ASSUME IInv, NEW w \in Workers, Publish(w), UNCHANGED fanout
  PROVE  IInv'
<1> DEFINE new == workers[w].write
<1>1. new \in Rows /\ new.status \in {"sent", "dead"}
  BY ReadyRun DEF Publish, IInv, WorkerOK
<1>2. outcomes' = outcomes \cup {Outcome(new)} /\ Outcome(new) \in Outcomes
  BY <1>1 DEF Publish, Outcome, Outcomes, Rows
<1>3. TInv'
  BY <1>2, ReadyRun, QueueTypes
  DEF Publish, Run, dbVars, IInv, TInv, TypeOK, DbTypeOK, ExecutorTypeOK
<1>. QED  BY <1>2, <1>3, ReadyStep DEF Publish, Run, dbVars

LEMMA EnqueueStep ==
  ASSUME IInv, NEW w \in Workers, EnqueueRetry(w), UNCHANGED fanout
  PROVE  IInv'
<1>1. queue' \in SUBSET Jobs /\ IsFiniteSet(queue')
  BY ReadyRun, HeldJobs, Queued DEF EnqueueRetry
<1>2. TInv'
  BY <1>1, ReadyRun, QueueTypes DEF EnqueueRetry, Run, IInv, TInv, TypeOK, ExecutorTypeOK
<1>3. workers[w].write.status = "failed"
  BY DEF EnqueueRetry, IInv, WorkerOK
<1>. QED  BY <1>2, <1>3, ReadyStep DEF EnqueueRetry, Run

LEMMA WorkerKeeps ==
  ASSUME IInv, NEW w \in Workers, WorkerStep(w) \/ CrashWorker(w) \/ FailJob(w), UNCHANGED fanout
  PROVE  IInv'
<1>1. CASE DelayForQuietHours(w) \/ SendSucceeds(w) \/ SendFails(w)
  BY <1>1, DelayTries, SuccessTries, FailureTries, TryStep
<1>. QED
  BY <1>1, TakeStep, RetryStep, FinishStep, PublishStep, EnqueueStep, CommitStep, RollBackStep
  DEF WorkerStep, ExecuteSend

-----------------------------------------------------------------------------
(* Consumer steps keep the invariant.                                      *)

\* What the workers rely on, when attempts are added and none is changed.
LEMMA WorkersKept ==
  ASSUME IInv, TInv', Attempts \subseteq Attempts',
         \A a \in Attempts : attempts'[a] = attempts[a],
         \A a \in Attempts' \ Attempts :
           attempts'[a].status = "pending" /\ attempts'[a].no = 0 /\ attempts'[a].retryIn = 0,
         hour' = hour, UNCHANGED executorVars
  PROVE  /\ \A w \in Workers : WorkerOK(w)'
         /\ OneLock' /\ RowsInv' /\ SettledIsPublished' /\ SendsInv'
<1>1. \A w \in Workers : WorkerOK(w)'
  BY DEF IInv, WorkerOK, executorVars
<1>2. OneLock'
  BY DEF IInv, OneLock, executorVars
<1>3. RowsInv'
  BY DeliveryAssumption DEF IInv, RowsInv, RowOK, executorVars
<1>4. SettledIsPublished'
  BY DEF IInv, SettledIsPublished, executorVars
<1>5. SendsInv'
  <2>1. \A p : Delivered(p)' = Delivered(p) /\ Delivering(p)' = Delivering(p)
    BY DEF Delivered, Delivering, executorVars
  <2>. QED  BY <2>1 DEF IInv, SendsInv, executorVars
<1>. QED  BY <1>1, <1>2, <1>3, <1>4, <1>5

LEMMA SameRowsKept ==
  ASSUME IInv, TInv', FanoutInv', attempts' = attempts, hour' = hour, UNCHANGED executorVars
  PROVE  IInv'
<1>1. Attempts' = Attempts
  BY DEF Attempts
<1>. QED  BY <1>1, WorkersKept DEF IInv

LEMMA OtherConsumers ==
  ASSUME IInv, NEW c \in Consumers, NEW f, Proceed(c, f)
  PROVE  fanout'[c] = f /\ \A d \in Consumers : d # c => fanout'[d] = fanout[d]
BY DEF IInv, TInv, TypeOK, FanoutTypeOK, Proceed

\* A consumer without an open transaction after the step.
LEMMA IdleFanout ==
  ASSUME IInv, NEW c \in Consumers, NEW f, Proceed(c, f), f.pc \notin Marked,
         f.pc # "idle" => f.event \in EventIds,
         \A a \in AttemptIds : f.rows[a] = None,
         f.pc = "ack" => f.event \in processed,
         UNCHANGED <<attempts, drawn, processed>>
  PROVE  FanoutInv'
<1>1. fanout'[c] = f /\ \A d \in Consumers : d # c => fanout'[d] = fanout[d]
  BY OtherConsumers
<1>2. Attempts' = Attempts /\ \A e, t : AttemptsFor(e, t)' = AttemptsFor(e, t)
  BY DEF Attempts, AttemptsFor
<1>3. \A d \in Consumers :
        /\ fanout'[d].pc # "idle" => fanout'[d].event \in EventIds
        /\ fanout'[d].pc = "enqueue" => fanout'[d].attempt \in AttemptIds
        /\ IF fanout'[d].pc \in Marked THEN FanoutOK(d)'
           ELSE \A a \in AttemptIds : fanout'[d].rows[a] = None
  BY <1>1, <1>2 DEF IInv, FanoutInv, FanoutOK, Marked
<1>4. FanoutsApart'
  BY <1>1 DEF IInv, FanoutInv, FanoutsApart
<1>5. AckedIsProcessed'
  BY <1>1 DEF IInv, FanoutInv, AckedIsProcessed
<1>6. FannedOutOnce'
  BY <1>2 DEF IInv, FanoutInv, FannedOutOnce
<1>. QED  BY <1>2, <1>3, <1>4, <1>5, <1>6 DEF IInv, FanoutInv

\* A consumer whose transaction is open after the step.
LEMMA OpenFanout ==
  ASSUME IInv, NEW c \in Consumers, NEW f, Proceed(c, f), f.pc \in Marked,
         f.event \in EventIds, f.pc = "enqueue" => f.attempt \in AttemptIds,
         FanoutOK(c)',
         drawn \subseteq drawn', UNCHANGED <<attempts, processed>>,
         \A d \in Consumers \ {c} : fanout[d].pc \in Marked =>
           /\ fanout[d].event # f.event
           /\ \A a \in AttemptIds : fanout[d].rows[a] = None \/ f.rows[a] = None
  PROVE  FanoutInv'
<1>1. fanout'[c] = f /\ \A d \in Consumers : d # c => fanout'[d] = fanout[d]
  BY OtherConsumers
<1>2. Attempts' = Attempts /\ \A e, t : AttemptsFor(e, t)' = AttemptsFor(e, t)
  BY DEF Attempts, AttemptsFor
<1>3. \A d \in Consumers :
        /\ fanout'[d].pc # "idle" => fanout'[d].event \in EventIds
        /\ fanout'[d].pc = "enqueue" => fanout'[d].attempt \in AttemptIds
        /\ IF fanout'[d].pc \in Marked THEN FanoutOK(d)'
           ELSE \A a \in AttemptIds : fanout'[d].rows[a] = None
  <2>1. ASSUME NEW d \in Consumers, d # c, fanout[d].pc \in Marked
        PROVE  FanoutOK(d)'
    BY <1>1, <1>2, <2>1 DEF IInv, FanoutInv, FanoutOK
  <2>. QED  BY <1>1, <2>1 DEF IInv, FanoutInv
<1>4. FanoutsApart'
  BY <1>1 DEF IInv, FanoutInv, FanoutsApart
<1>5. AckedIsProcessed'
  BY <1>1 DEF IInv, FanoutInv, AckedIsProcessed, Marked
<1>6. FannedOutOnce'
  BY <1>2 DEF IInv, FanoutInv, FannedOutOnce
<1>. QED  BY <1>2, <1>3, <1>4, <1>5, <1>6 DEF IInv, FanoutInv

LEMMA FanoutOf ==
  ASSUME IInv, NEW c \in Consumers
  PROVE  fanout[c] \in Fanouts
BY DEF IInv, TInv, TypeOK, FanoutTypeOK

LEMMA ReceiveStep ==
  ASSUME IInv, NEW c \in Consumers, Receive(c)
  PROVE  FanoutInv'
<1>1. PICK e \in unacked : Proceed(c, [NoFanout EXCEPT !.pc = "mark", !.event = e])
  BY DEF Receive
<1>2. e \in EventIds
  BY DEF IInv, TInv, TypeOK, DbTypeOK
<1>3. PICK f : f = [NoFanout EXCEPT !.pc = "mark", !.event = e]
  OBVIOUS
<1>4. f.pc = "mark" /\ f.event = e /\ \A a \in AttemptIds : f.rows[a] = None
  BY <1>3 DEF NoFanout
<1>. QED  BY <1>1, <1>2, <1>3, <1>4, IdleFanout DEF Receive, dbVars, Marked

LEMMA NoFanoutStep ==
  ASSUME IInv, NEW c \in Consumers, Proceed(c, NoFanout), UNCHANGED <<attempts, drawn, processed>>
  PROVE  FanoutInv'
<1>1. NoFanout.pc = "idle" /\ \A a \in AttemptIds : NoFanout.rows[a] = None
  BY DEF NoFanout
<1>. QED  BY <1>1, IdleFanout DEF Marked

\* The open transactions of an event that is to be marked have ended.
LEMMA MarkStep ==
  ASSUME IInv, NEW c \in Consumers, MarkProcessed(c)
  PROVE  FanoutInv'
<1>1. /\ fanout[c] \in Fanouts /\ fanout[c].pc = "mark" /\ fanout[c].event \in EventIds
      /\ \A a \in AttemptIds : fanout[c].rows[a] = None
      /\ UNCHANGED <<attempts, drawn, processed>>
  BY FanoutOf DEF MarkProcessed, dbVars, IInv, FanoutInv, Marked
<1>2. PICK x \in Fanouts : x = fanout[c]
  BY <1>1
<1>3. CASE fanout[c].event \in processed
  <2>1. PICK f : f = [x EXCEPT !.pc = "ack"]
    OBVIOUS
  <2>2. f.pc = "ack" /\ f.event = fanout[c].event /\ f.rows = fanout[c].rows
    BY <1>2, <2>1 DEF Fanouts
  <2>3. Proceed(c, f)
    BY <1>2, <1>3, <2>1 DEF MarkProcessed
  <2>. QED  BY <1>1, <1>3, <2>2, <2>3, IdleFanout DEF Marked
<1>4. CASE fanout[c].event \notin processed
  <2>1. PICK f : f = [x EXCEPT !.pc = "create", !.todo = Targets]
    OBVIOUS
  <2>2. /\ f.pc = "create" /\ f.event = fanout[c].event /\ f.rows = fanout[c].rows
        /\ f.todo = Targets
    BY <1>2, <2>1 DEF Fanouts
  <2>3. Proceed(c, f)
    BY <1>2, <1>4, <2>1 DEF MarkProcessed
  <2>4. fanout'[c] = f
    BY <2>3, OtherConsumers
  <2>5. FanoutOK(c)'
    BY <1>1, <1>4, <2>2, <2>4 DEF FanoutOK
  <2>6. \A d \in Consumers \ {c} : fanout[d].pc \in Marked => fanout[d].event # f.event
    BY <2>2 DEF MarkProcessed, Marking, Marked
  <2>. QED  BY <1>1, <2>2, <2>3, <2>5, <2>6, OpenFanout DEF Marked
<1>. QED  BY <1>3, <1>4

\* One more attempt, under a fresh id; the target has none yet.
LEMMA CreateStep ==
  ASSUME IInv, NEW c \in Consumers, CreateAttempt(c)
  PROVE  FanoutInv'
<1>1. /\ fanout[c] \in Fanouts /\ fanout[c].pc = "create" /\ fanout[c].event \in EventIds
      /\ FanoutOK(c)
      /\ UNCHANGED <<attempts, processed>>
  BY FanoutOf DEF CreateAttempt, IInv, FanoutInv, Marked
<1>2. CASE Proceed(c, NoFanout) /\ UNCHANGED drawn
  BY <1>1, <1>2, NoFanoutStep
<1>3. ASSUME NEW t \in fanout[c].todo, NEW a \in AttemptIds \ drawn, drawn' = drawn \cup {a},
             Proceed(c, [fanout[c] EXCEPT !.pc = "enqueue", !.todo = @ \ {t},
                                          !.rows[a] = t, !.attempt = a])
      PROVE  FanoutInv'
  <2>1. t \in Targets /\ t # None
    BY <1>1, <1>3, DeliveryNoneAssumption DEF Fanouts
  <2>2. PICK f : f = [pc |-> "enqueue", event |-> fanout[c].event, todo |-> fanout[c].todo \ {t},
                      rows |-> [fanout[c].rows EXCEPT ![a] = t], attempt |-> a]
    OBVIOUS
  <2>3. Proceed(c, f)
    BY <1>1, <1>3, <2>1, <2>2, CreatedFanout
  <2>4. fanout'[c] = f /\ \A d \in Consumers : d # c => fanout'[d] = fanout[d]
    BY <2>3, OtherConsumers
  <2>5. \A b \in AttemptIds : f.rows[b] = IF b = a THEN t ELSE fanout[c].rows[b]
    BY <1>1, <2>2 DEF Fanouts
  <2>6. Attempts' = Attempts /\ a \notin Attempts
    BY <1>1, <1>3 DEF Attempts, IInv, FanoutInv
  <2>7. f.todo = fanout[c].todo \ {t} /\ f.event = fanout[c].event /\ f.pc = "enqueue" /\ f.attempt = a
    BY <2>2
  <2>8. \A b \in AttemptIds : fanout[c].rows[b] # t
    BY <1>1, <1>3, <2>1 DEF FanoutOK
  <2>9. FanoutOK(c)'
    <3>1. fanout'[c].event \notin processed'
      BY <1>1, <2>4, <2>7 DEF FanoutOK
    <3>2. \A b \in AttemptIds : f.rows[b] # None =>
            b \in drawn' /\ b \notin Attempts' /\ f.rows[b] \notin f.todo
      BY <1>1, <1>3, <2>5, <2>6, <2>7 DEF FanoutOK
    <3>3. \A b, d \in AttemptIds : f.rows[b] # None /\ f.rows[b] = f.rows[d] => b = d
      BY <1>1, <2>5, <2>8 DEF FanoutOK
    <3>4. \A u \in Targets \ f.todo : \E b \in AttemptIds : f.rows[b] = u
      <4>1. ASSUME NEW u \in Targets \ f.todo, u # t
            PROVE  \E b \in AttemptIds : f.rows[b] = u
        <5>1. PICK b \in AttemptIds : fanout[c].rows[b] = u
          BY <1>1, <2>7, <4>1 DEF FanoutOK
        <5>2. b # a
          BY <1>1, <1>3, <4>1, <5>1, DeliveryNoneAssumption DEF FanoutOK
        <5>. QED  BY <2>5, <5>1, <5>2
      <4>. QED  BY <1>3, <2>5, <4>1
    <3>. QED  BY <2>4, <3>1, <3>2, <3>3, <3>4 DEF FanoutOK
  <2>10. ASSUME NEW d \in Consumers \ {c}, fanout[d].pc \in Marked
         PROVE  /\ fanout[d].event # f.event
                /\ \A b \in AttemptIds : fanout[d].rows[b] = None \/ f.rows[b] = None
    <3>1. /\ fanout[d].event # fanout[c].event
          /\ \A b \in AttemptIds : fanout[d].rows[b] = None \/ fanout[c].rows[b] = None
      BY <1>1, <2>10 DEF IInv, FanoutInv, FanoutsApart, Marked
    <3>2. fanout[d].rows[a] = None
      BY <1>3, <2>10 DEF IInv, FanoutInv, FanoutOK
    <3>. QED  BY <2>5, <2>7, <3>1, <3>2
  <2>. QED  BY <1>1, <1>3, <2>3, <2>7, <2>9, <2>10, OpenFanout DEF Marked
<1>. QED  BY <1>2, <1>3 DEF CreateAttempt

LEMMA EnqueueSendStep ==
  ASSUME IInv, NEW c \in Consumers, EnqueueSend(c)
  PROVE  FanoutInv'
<1>1. /\ fanout[c].pc = "enqueue" /\ fanout[c].event \in EventIds
      /\ FanoutOK(c)
      /\ UNCHANGED <<attempts, drawn, processed>>
  BY DEF EnqueueSend, IInv, FanoutInv, Marked
<1>2. PICK x \in Fanouts : x = fanout[c]
  BY FanoutOf
<1>3. PICK f : f = [x EXCEPT !.pc = "create", !.attempt = None]
  OBVIOUS
<1>4. /\ f.pc = "create" /\ f.event = fanout[c].event /\ f.todo = fanout[c].todo
      /\ f.rows = fanout[c].rows
  BY <1>2, <1>3 DEF Fanouts
<1>5. Proceed(c, f)
  BY <1>2, <1>3 DEF EnqueueSend
<1>6. fanout'[c] = f
  BY <1>5, OtherConsumers
<1>7. FanoutOK(c)'
  BY <1>1, <1>4, <1>6 DEF FanoutOK, Attempts
<1>8. \A d \in Consumers \ {c} : fanout[d].pc \in Marked =>
        /\ fanout[d].event # f.event
        /\ \A a \in AttemptIds : fanout[d].rows[a] = None \/ f.rows[a] = None
  BY <1>1, <1>4 DEF IInv, FanoutInv, FanoutsApart, Marked
<1>. QED  BY <1>1, <1>4, <1>5, <1>7, <1>8, OpenFanout DEF Marked

\* The fan-out commits: the event has one attempt for each target.
LEMMA CommitFanoutStep ==
  ASSUME IInv, NEW c \in Consumers, CommitFanout(c)
  PROVE  /\ FanoutInv'
         /\ Attempts \subseteq Attempts'
         /\ \A a \in Attempts : attempts'[a] = attempts[a]
         /\ \A a \in Attempts' \ Attempts :
              attempts'[a].status = "pending" /\ attempts'[a].no = 0 /\ attempts'[a].retryIn = 0
<1>0. PICK f, e : f = fanout[c] /\ e = fanout[c].event
  OBVIOUS
<1>1. /\ f \in Fanouts /\ f = fanout[c] /\ e = f.event /\ f.pc = "create" /\ e \in EventIds /\ f.todo = {}
      /\ FanoutOK(c)
      /\ processed' = processed \cup {e} /\ drawn' = drawn
  BY <1>0, FanoutOf DEF CommitFanout, IInv, FanoutInv, Marked
<1>2. PICK g : g = [NoFanout EXCEPT !.pc = "ack", !.event = e]
  OBVIOUS
<1>3. g.pc = "ack" /\ g.event = e /\ \A a \in AttemptIds : g.rows[a] = None
  BY <1>2 DEF NoFanout
<1>4. fanout'[c] = g /\ \A d \in Consumers : d # c => fanout'[d] = fanout[d]
  BY <1>1, <1>2, OtherConsumers DEF CommitFanout
<1>5. \A a \in AttemptIds :
        /\ f.rows[a] # None => f.rows[a] \in Targets /\ a \in drawn /\ a \notin Attempts
        /\ attempts'[a] = IF f.rows[a] # None THEN NewAttempt(e, f.rows[a]) ELSE attempts[a]
  BY <1>1 DEF CommitFanout, FanoutOK, Fanouts
<1>6. \A t \in Targets : /\ NewAttempt(e, t) # None
                        /\ NewAttempt(e, t).event = e /\ NewAttempt(e, t).target = t
                        /\ NewAttempt(e, t).status = "pending"
                        /\ NewAttempt(e, t).no = 0 /\ NewAttempt(e, t).retryIn = 0
  <2>1. ASSUME NEW t \in Targets
        PROVE  NewAttempt(e, t) \in Rows
    BY <1>1, DeliveryAssumption DEF NewAttempt, Rows
  <2>2. \A t \in Targets : NewAttempt(e, t) # None
    BY <2>1, DeliveryNoneAssumption
  <2>. QED  BY <2>2 DEF NewAttempt
<1>7. Attempts' = Attempts \cup {a \in AttemptIds : f.rows[a] # None}
  BY <1>5, <1>6 DEF Attempts
<1>8. \A a \in Attempts : attempts'[a] = attempts[a]
  BY <1>5 DEF Attempts
<1>9. \A a \in Attempts' \ Attempts :
        attempts'[a].status = "pending" /\ attempts'[a].no = 0 /\ attempts'[a].retryIn = 0
  BY <1>5, <1>6, <1>7
<1>10. ASSUME NEW d \in Consumers, d # c, fanout[d].pc \in Marked
       PROVE  FanoutOK(d)'
  <2>1. /\ fanout[d].event # e
        /\ \A a \in AttemptIds : f.rows[a] = None \/ fanout[d].rows[a] = None
    BY <1>1, <1>10 DEF IInv, FanoutInv, FanoutsApart, Marked
  <2>2. FanoutOK(d) /\ fanout'[d] = fanout[d]
    BY <1>4, <1>10 DEF IInv, FanoutInv
  <2>3. \A a \in AttemptIds : fanout[d].rows[a] # None => a \notin Attempts'
    BY <1>7, <2>1, <2>2 DEF FanoutOK
  <2>. QED  BY <1>1, <2>1, <2>2, <2>3 DEF FanoutOK
<1>11. \A d \in Consumers :
        /\ fanout'[d].pc # "idle" => fanout'[d].event \in EventIds
        /\ fanout'[d].pc = "enqueue" => fanout'[d].attempt \in AttemptIds
        /\ IF fanout'[d].pc \in Marked THEN FanoutOK(d)'
           ELSE \A a \in AttemptIds : fanout'[d].rows[a] = None
  <2>1. ASSUME NEW d \in Consumers, d # c
        PROVE  /\ fanout'[d].pc # "idle" => fanout'[d].event \in EventIds
               /\ fanout'[d].pc = "enqueue" => fanout'[d].attempt \in AttemptIds
               /\ IF fanout'[d].pc \in Marked THEN FanoutOK(d)'
                  ELSE \A a \in AttemptIds : fanout'[d].rows[a] = None
    BY <1>4, <1>10, <2>1 DEF IInv, FanoutInv
  <2>. QED  BY <1>1, <1>3, <1>4, <2>1 DEF Marked
<1>12. FanoutsApart'
  BY <1>3, <1>4 DEF IInv, FanoutInv, FanoutsApart, Marked
<1>13. AckedIsProcessed'
  BY <1>1, <1>3, <1>4 DEF IInv, FanoutInv, AckedIsProcessed
<1>14. FannedOutOnce'
  <2>1. ASSUME NEW x \in EventIds, NEW t \in Targets, x # e
        PROVE  AttemptsFor(x, t)' = AttemptsFor(x, t)
    BY <1>5, <1>6, <1>7, <1>8, <2>1 DEF AttemptsFor
  <2>2. ASSUME NEW t \in Targets
        PROVE  \E a \in AttemptIds : AttemptsFor(e, t)' = {a}
    <3>1. AttemptsFor(e, t) = {}
      BY <1>1 DEF IInv, FanoutInv, FannedOutOnce, FanoutOK
    <3>2. PICK a \in AttemptIds : f.rows[a] = t
      BY <1>1 DEF FanoutOK
    <3>3. t # None
      BY DeliveryNoneAssumption
    <3>4. \A b \in AttemptIds : f.rows[b] = t => b = a
      BY <1>1, <3>2, <3>3 DEF FanoutOK
    <3>5. AttemptsFor(e, t)' = {b \in AttemptIds : f.rows[b] = t}
      <4>1. ASSUME NEW b \in Attempts
            PROVE  b \notin AttemptsFor(e, t)' /\ f.rows[b] # t
        BY <1>5, <1>8, <3>1, <3>3, <4>1 DEF AttemptsFor, Attempts
      <4>2. ASSUME NEW b \in AttemptIds \ Attempts
            PROVE  b \in AttemptsFor(e, t)' <=> f.rows[b] = t
        BY <1>5, <1>6, <1>7, <3>3, <4>2 DEF AttemptsFor
      <4>3. AttemptsFor(e, t)' \subseteq AttemptIds
        BY DEF AttemptsFor, Attempts
      <4>. QED  BY <4>1, <4>2, <4>3
    <3>. QED  BY <3>2, <3>4, <3>5
  <2>3. ASSUME NEW x \in EventIds, NEW t \in Targets, x # e
        PROVE  (IF x \in processed
                  THEN \E a \in AttemptIds : AttemptsFor(x, t) = {a}
                  ELSE AttemptsFor(x, t) = {})'
    BY <1>1, <2>1, <2>3 DEF IInv, FanoutInv, FannedOutOnce
  <2>. QED  BY <1>1, <2>2, <2>3 DEF FannedOutOnce
<1>15. Attempts' \subseteq drawn'
  BY <1>1, <1>5, <1>7 DEF IInv, FanoutInv
<1>. QED  BY <1>7, <1>8, <1>9, <1>11, <1>12, <1>13, <1>14, <1>15 DEF FanoutInv

LEMMA ConsumerKeeps ==
  ASSUME IInv, NEW c \in Consumers, ConsumerStep(c) \/ AbortFanout(c), UNCHANGED executorVars
  PROVE  IInv'
<1>1. TInv'
  BY ConsumerTypes
<1>2. CASE CommitFanout(c)
  <2>1. hour' = hour
    BY <1>2 DEF CommitFanout
  <2>. QED  BY <1>1, <1>2, <2>1, CommitFanoutStep, WorkersKept DEF IInv
<1>3. CASE ~CommitFanout(c)
  <2>1. attempts' = attempts /\ hour' = hour
    BY <1>3 DEF ConsumerStep, Receive, MarkProcessed, CreateAttempt, EnqueueSend, Ack,
                AbortFanout, dbVars
  <2>2. FanoutInv'
    BY <1>3, ReceiveStep, MarkStep, CreateStep, EnqueueSendStep, NoFanoutStep
    DEF ConsumerStep, Ack, AbortFanout
  <2>. QED  BY <1>1, <2>1, <2>2, SameRowsKept
<1>. QED  BY <1>2, <1>3

LEMMA EnvironmentKeeps ==
  ASSUME IInv, Environment, UNCHANGED <<fanout, executorVars>>
  PROVE  IInv'
<1>1. TInv'
  BY EnvironmentTypes
<1>2. UNCHANGED <<attempts, drawn, processed, hour>>
  BY DEF Environment, Announce, RestartRedis
<1>3. SameAttempts
  BY <1>2 DEF SameAttempts, Attempts
<1>4. FanoutInv'
  BY <1>2, <1>3, FanoutKept
<1>. QED  BY <1>1, <1>2, <1>4, SameRowsKept

-----------------------------------------------------------------------------
(* The clock keeps the invariant.                                          *)

LEMMA DownType ==
  ASSUME NEW n \in Nat
  PROVE  /\ Down(n) \in Nat /\ Down(n) <= n
         /\ Down(n) > 0 => n > 0 /\ Down(n) = n - 1
         /\ \A m \in Nat : n <= m => Down(n) <= Down(m)
BY DEF Down

\* An hour brings a row nearer to its retry.
LEMMA DownRow ==
  ASSUME NEW row \in Rows, NEW new, new = [row EXCEPT !.retryIn = Down(@)]
  PROVE  /\ new \in Rows
         /\ new.event = row.event /\ new.target = row.target /\ new.no = row.no
         /\ new.status = row.status /\ new.retryIn = Down(row.retryIn)
<1>1. Down(row.retryIn) \in Nat
  BY DownType DEF Rows
<1>. QED  BY <1>1 DEF Rows

LEMMA DownJob ==
  ASSUME NEW j \in Jobs, NEW new, new = [j EXCEPT !.wait = Down(@)]
  PROVE  /\ new \in Jobs
         /\ new.kind = j.kind /\ new.attempt = j.attempt /\ new.copy = j.copy
         /\ new.wait = Down(j.wait)
<1>1. Down(j.wait) \in Nat
  BY DownType DEF Jobs
<1>. QED  BY <1>1 DEF Jobs

LEMMA DownRun ==
  ASSUME NEW r \in Runs, r.write \in Rows, NEW new, new = [r EXCEPT !.write.retryIn = Down(@)]
  PROVE  /\ new \in Runs
         /\ new.pc = r.pc /\ new.job = r.job /\ new.defer = r.defer
         /\ new.write \in Rows
         /\ new.write.event = r.write.event /\ new.write.target = r.write.target
         /\ new.write.no = r.write.no /\ new.write.status = r.write.status
         /\ new.write.retryIn = Down(r.write.retryIn)
<1>1. PICK row : row = [r.write EXCEPT !.retryIn = Down(@)]
  OBVIOUS
<1>2. new = [r EXCEPT !.write = row]
  BY <1>1 DEF Runs
<1>3. /\ row \in Rows
      /\ row.event = r.write.event /\ row.target = r.write.target /\ row.no = r.write.no
      /\ row.status = r.write.status /\ row.retryIn = Down(r.write.retryIn)
  BY <1>1, DownRow
<1>4. new = [pc |-> r.pc, job |-> r.job, write |-> row, defer |-> r.defer]
  BY <1>2 DEF Runs
<1>. QED  BY <1>3, <1>4 DEF Runs

\* What was to come at an hour of the day is to come at the same hour, an hour later.
LEMMA SameHour ==
  ASSUME NEW h \in Hours, NEW n \in Nat, Down(n) > 0
  PROVE  (((h + 1) % Day) + Down(n)) % Day = (h + n) % Day
<1>1. h \in Int /\ h + 1 \in Int /\ Down(n) = n - 1 /\ n - 1 \in Int
  BY DownType DEF Hours
<1>2. (((h + 1) % Day) + (n - 1)) % Day = ((h + 1) + (n - 1)) % Day
  BY <1>1, AddHours
<1>3. (h + 1) + (n - 1) = h + n
  BY <1>1
<1>. QED  BY <1>1, <1>2, <1>3

\* A row stays right when an hour passes.
LEMMA TickRow ==
  ASSUME NEW row \in Rows, RowOK(row), hour \in Hours, hour' = (hour + 1) % Day, NEW new,
         new.target = row.target, new.no = row.no, new.status = row.status,
         new.retryIn = Down(row.retryIn)
  PROVE  /\ new.status = "dead" <=> new.no = MaxAttempts
         /\ new.retryIn > 0 =>
              ~InQuietHours((hour' + new.retryIn) % Day, Quiet[new.target])
<1>1. row.retryIn \in Nat
  BY DEF Rows
<1>2. ASSUME new.retryIn > 0
      PROVE  ~InQuietHours((hour' + new.retryIn) % Day, Quiet[new.target])
  <2>1. row.retryIn > 0
    BY <1>1, <1>2, DownType
  <2>2. (hour' + new.retryIn) % Day = (hour + row.retryIn) % Day
    BY <1>1, <1>2, SameHour
  <2>. QED  BY <2>1, <2>2 DEF RowOK
<1>. QED  BY <1>2 DEF RowOK

LEMMA TickQueue ==
  ASSUME IInv, Tick
  PROVE  queue' \in SUBSET Jobs /\ IsFiniteSet(queue')
<1>1. queue \in SUBSET Jobs /\ IsFiniteSet(queue)
  BY DEF IInv, TInv, TypeOK, DbTypeOK
<1>2. queue' = {[j EXCEPT !.wait = Down(@)] : j \in queue}
  BY DEF Tick
<1>3. \A j \in queue : [j EXCEPT !.wait = Down(@)] \in Jobs
  BY <1>1, DownJob
<1> DEFINE f == [j \in queue |-> [j EXCEPT !.wait = Down(@)]]
<1>4. f \in [queue -> queue'] /\ \A k \in queue' : \E j \in queue : f[j] = k
  BY <1>2
<1> HIDE DEF f
<1>. QED  BY <1>1, <1>2, <1>3, <1>4, FiniteImage

\* What an hour leaves of the rows and of the runs.
LEMMA TickRows ==
  ASSUME IInv, Tick
  PROVE  /\ attempts' \in [AttemptIds -> Rows \cup {None}]
         /\ SameAttempts
         /\ \A a \in Attempts : /\ attempts'[a] \in Rows
                                /\ attempts'[a].no = attempts[a].no
                                /\ attempts'[a].status = attempts[a].status
                                /\ attempts'[a].retryIn = Down(attempts[a].retryIn)
<1>1. attempts' = [a \in AttemptIds |->
         IF a \in Attempts THEN [attempts[a] EXCEPT !.retryIn = Down(@)] ELSE None]
  BY DEF Tick
<1>2. ASSUME NEW a \in Attempts
      PROVE  /\ attempts'[a] \in Rows
             /\ attempts'[a].event = attempts[a].event
             /\ attempts'[a].target = attempts[a].target
             /\ attempts'[a].no = attempts[a].no
             /\ attempts'[a].status = attempts[a].status
             /\ attempts'[a].retryIn = Down(attempts[a].retryIn)
  <2>1. attempts[a] \in Rows /\ a \in AttemptIds
    BY RowsOf
  <2>2. attempts'[a] = [attempts[a] EXCEPT !.retryIn = Down(@)]
    BY <1>1, <2>1
  <2>. QED  BY <2>1, <2>2, DownRow
<1>3. \A a \in AttemptIds \ Attempts : attempts'[a] = None
  BY <1>1
<1>4. Attempts' = Attempts
  BY <1>2, <1>3, DeliveryNoneAssumption DEF Attempts
<1>5. attempts' \in [AttemptIds -> Rows \cup {None}]
  <2>1. \A a \in AttemptIds : attempts'[a] \in Rows \cup {None}
    BY <1>2, <1>3
  <2>. QED  BY <1>1, <2>1
<1>. QED  BY <1>2, <1>4, <1>5 DEF SameAttempts

LEMMA TickRuns ==
  ASSUME IInv, Tick, NEW w \in Workers
  PROVE  /\ workers'[w] \in Runs
         /\ workers[w].pc \notin Open => workers'[w] = workers[w]
         /\ workers'[w].pc = workers[w].pc /\ workers'[w].job = workers[w].job
         /\ workers'[w].defer = workers[w].defer
         /\ workers[w].pc \in Open =>
              LET old == workers[w].write
                  new == workers'[w].write
              IN /\ new \in Rows
                 /\ new.event = old.event /\ new.target = old.target
                 /\ new.no = old.no /\ new.status = old.status
                 /\ new.retryIn = Down(old.retryIn)
<1>1. workers'[w] = IF workers[w].write # None
                      THEN [workers[w] EXCEPT !.write.retryIn = Down(@)] ELSE workers[w]
  BY DEF Tick
<1>2. CASE workers[w].pc \in Open
  <2>1. workers[w].write \in Rows /\ workers[w].write # None
    BY <1>2, OpenRun, DeliveryNoneAssumption
  <2>2. workers[w] \in Runs
    BY RunOf
  <2>3. workers'[w] = [workers[w] EXCEPT !.write.retryIn = Down(@)]
    BY <1>1, <2>1
  <2>. QED  BY <1>2, <2>1, <2>2, <2>3, DownRun
<1>3. CASE workers[w].pc \notin Open
  BY <1>1, <1>3, RunOf DEF IInv, WorkerOK
<1>. QED  BY <1>2, <1>3

LEMMA TickKeeps ==
  ASSUME IInv, Tick
  PROVE  IInv'
<1>1. /\ SameAttempts
      /\ \A a \in Attempts : /\ attempts'[a] \in Rows
                             /\ attempts'[a].no = attempts[a].no
                             /\ attempts'[a].status = attempts[a].status
                             /\ attempts'[a].retryIn = Down(attempts[a].retryIn)
  BY TickRows
<1>2. /\ hour' = (hour + 1) % Day /\ hour \in Hours
      /\ UNCHANGED <<drawn, processed, unacked, crashes, losses, fanout,
                     sends, unrecorded, outcomes>>
  BY DEF Tick, IInv, TInv, TypeOK, DbTypeOK
<1>3. TInv'
  <2>1. hour' \in Hours
    BY <1>2, ModDay DEF Hours
  <2>2. workers' \in [Workers -> Runs]
    <3>1. workers' = [w \in Workers |-> workers'[w]]
      BY DEF Tick
    <3>2. \A w \in Workers : workers'[w] \in Runs
      BY TickRuns
    <3>. QED  BY <3>1, <3>2
  <2>3. DbTypeOK'
    BY <1>2, <2>1, TickQueue, TickRows DEF IInv, TInv, TypeOK, DbTypeOK
  <2>4. FanoutTypeOK' /\ ExecutorTypeOK'
    BY <1>2, <2>2 DEF IInv, TInv, TypeOK, FanoutTypeOK, ExecutorTypeOK
  <2>. QED  BY <2>3, <2>4, TickQueue DEF TInv, TypeOK
<1>4. FanoutInv'
  BY <1>1, <1>2, FanoutKept
<1>5. ASSUME NEW w \in Workers
      PROVE  WorkerOK(w)'
  <2>1. CASE workers[w].pc \notin Open
    BY <1>1, <1>2, <2>1, TickRuns DEF IInv, WorkerOK, Open
  <2>2. CASE workers[w].pc \in Open
    <3>1. /\ workers[w].job \in Jobs /\ workers[w].job.wait = 0
          /\ workers[w].write \in Rows
          /\ workers[w].job.attempt \in Attempts
          /\ Tried(attempts[workers[w].job.attempt], workers[w].write)
          /\ workers[w].pc = "publish" => workers[w].write.status \in {"sent", "dead"}
          /\ workers[w].pc = "enqueue" => /\ workers[w].write.status = "failed"
                                          /\ workers[w].write.retryIn <= workers[w].defer
          /\ workers[w].pc = "commit" => \/ workers[w].write.status = "failed"
                                         \/ Outcome(workers[w].write) \in outcomes
      BY <2>2 DEF IInv, WorkerOK, Open
    <3>2. /\ workers'[w].pc = workers[w].pc /\ workers'[w].job = workers[w].job
          /\ workers'[w].defer = workers[w].defer
          /\ workers'[w].write \in Rows
          /\ workers'[w].write.event = workers[w].write.event
          /\ workers'[w].write.target = workers[w].write.target
          /\ workers'[w].write.no = workers[w].write.no
          /\ workers'[w].write.status = workers[w].write.status
          /\ workers'[w].write.retryIn = Down(workers[w].write.retryIn)
      BY <2>2, TickRuns
    <3>3. Tried(attempts[workers[w].job.attempt], workers[w].write)'
      BY <1>1, <3>1, <3>2 DEF Tried, SameAttempts
    <3>4. workers'[w].pc = "enqueue" => workers'[w].write.retryIn <= workers'[w].defer
      <4>1. workers[w].write.retryIn \in Nat /\ workers[w].defer \in Nat
        BY <3>1, RunOf DEF Rows, Runs
      <4>2. Down(workers[w].write.retryIn) <= workers[w].write.retryIn
              /\ Down(workers[w].write.retryIn) \in Nat
        BY <4>1, DownType
      <4>. QED  BY <3>1, <3>2, <4>1, <4>2
    <3>5. Outcome(workers[w].write)' = Outcome(workers[w].write)
      BY <3>2 DEF Outcome
    <3>. QED  BY <1>1, <1>2, <2>2, <3>1, <3>2, <3>3, <3>4, <3>5
              DEF WorkerOK, SameAttempts, Open
  <2>. QED  BY <2>1, <2>2
<1>6. OneLock'
  BY TickRuns DEF IInv, OneLock
<1>7. RowsInv'
  <2>1. ASSUME NEW a \in Attempts
        PROVE  RowOK(attempts[a])'
    <3>1. RowOK(attempts[a]) /\ attempts[a] \in Rows
      BY RowsOf DEF IInv, RowsInv
    <3>2. attempts'[a].target = attempts[a].target
      BY <1>1 DEF SameAttempts
    <3>. QED  BY <1>1, <1>2, <3>1, <3>2, TickRow DEF RowOK
  <2>2. ASSUME NEW w \in Workers, workers'[w].pc \in Open
        PROVE  RowOK(workers[w].write)'
    <3>1. workers[w].pc \in Open
      BY <2>2, TickRuns
    <3>2. RowOK(workers[w].write) /\ workers[w].write \in Rows
      BY <3>1, OpenRun
    <3>. QED  BY <1>2, <3>1, <3>2, TickRow, TickRuns DEF RowOK
  <2>. QED  BY <1>1, <2>1, <2>2 DEF RowsInv, SameAttempts
<1>8. SettledIsPublished'
  BY <1>1, <1>2 DEF IInv, SettledIsPublished, SameAttempts
<1>9. SendsInv'
  <2>1. \A p : Delivered(p)' = Delivered(p)
    BY <1>1 DEF Delivered, SameAttempts
  <2>2. \A p : Delivering(p)' = Delivering(p)
    BY TickRuns DEF Delivering
  <2>. QED  BY <1>2, <2>1, <2>2 DEF IInv, SendsInv
<1>. QED  BY <1>3, <1>4, <1>5, <1>6, <1>7, <1>8, <1>9 DEF IInv

-----------------------------------------------------------------------------
(* The invariant holds.                                                    *)

LEMMA Initially ==
  Init => IInv
<1> SUFFICES ASSUME Init
             PROVE  IInv
  OBVIOUS
<1>1. Attempts = {} /\ \A e, t : AttemptsFor(e, t) = {}
  BY DEF Init, DbInit, Attempts, AttemptsFor
<1>2. 0 \in Hours /\ 0 \in 0 .. MaxCrashes /\ 0 \in 0 .. MaxLosses
  BY DayAssumption, DeliveryAssumption DEF Hours
<1>3. TInv
  <2>1. DbTypeOK /\ IsFiniteSet(queue)
    BY <1>2, FS_EmptySet DEF Init, DbInit, DbTypeOK
  <2>2. FanoutTypeOK
    BY DEF Init, FanoutInit, FanoutTypeOK, Fanouts, NoFanout
  <2>3. ExecutorTypeOK
    BY DEF Init, ExecutorInit, ExecutorTypeOK, NoRun, Runs
  <2>. QED  BY <2>1, <2>2, <2>3 DEF TInv, TypeOK
<1>4. \A c \in Consumers : fanout[c].pc = "idle" /\ \A a \in AttemptIds : fanout[c].rows[a] = None
  BY DEF Init, FanoutInit, NoFanout
<1>5. FanoutInv
  BY <1>1, <1>4 DEF Init, DbInit, FanoutInv, Marked, FanoutsApart, AckedIsProcessed, FannedOutOnce
<1>6. \A w \in Workers : workers[w] = NoRun /\ workers[w].pc = "idle" /\ workers[w].write = None
  BY DEF Init, ExecutorInit, NoRun
<1>7. (\A w \in Workers : WorkerOK(w)) /\ OneLock /\ RowsInv /\ SettledIsPublished
  BY <1>1, <1>6 DEF WorkerOK, OneLock, RowsInv, SettledIsPublished, Open
<1>8. SendsInv
  <2>1. \A p : ~Delivered(p) /\ ~Delivering(p)
    BY <1>1, <1>6 DEF Delivered, Delivering, Open
  <2>. QED  BY <2>1 DEF SendsInv, Init, ExecutorInit
<1>. QED  BY <1>3, <1>5, <1>7, <1>8 DEF IInv

LEMMA Inductive ==
  IInv /\ [Next]_vars => IInv'
<1> SUFFICES ASSUME IInv, [Next]_vars
             PROVE  IInv'
  OBVIOUS
<1>1. CASE UNCHANGED vars
  <2>1. /\ UNCHANGED <<fanout, workers, sends, unrecorded, outcomes>>
        /\ UNCHANGED <<attempts, drawn, processed, unacked, queue, hour, crashes, losses>>
    BY <1>1 DEF vars, dbVars, executorVars
  <2>2. TInv'
    BY <2>1 DEF IInv, TInv, TypeOK, DbTypeOK, FanoutTypeOK, ExecutorTypeOK
  <2>3. FanoutInv'
    <3>1. SameAttempts
      BY <2>1 DEF SameAttempts, Attempts
    <3>. QED  BY <2>1, <3>1, FanoutKept
  <2>. QED  BY <2>1, <2>2, <2>3, SameRowsKept DEF executorVars
<1>2. CASE Next
  BY <1>2, ConsumerKeeps, WorkerKeeps, EnvironmentKeeps, TickKeeps
  DEF Next, ConsumerNext, WorkerNext
<1>. QED  BY <1>1, <1>2

LEMMA Invariance ==
  Spec => []IInv
BY Initially, Inductive, PTL DEF Spec

-----------------------------------------------------------------------------
(* What the service promises.                                              *)

\* Every variable keeps its type: a message, a row, a job and a run are always
\* whole, the uncommitted ones included.
THEOREM TypeCorrect ==
  Spec => []TypeOK
<1>1. IInv => TypeOK
  BY DEF IInv, TInv
<1>. QED  BY <1>1, Invariance, PTL

\* A processed event has one attempt for each target, any other event none,
\* whatever comes twice, runs at the same time or fails halfway.
THEOREM FannedOutOnceHolds ==
  Spec => []FannedOutOnce
<1>1. IInv => FannedOutOnce
  BY DEF IInv, FanoutInv
<1>. QED  BY <1>1, Invariance, PTL

\* No message is acked before its event is processed.
THEOREM AckedIsProcessedHolds ==
  Spec => []AckedIsProcessed
<1>1. IInv => AckedIsProcessed
  BY DEF IInv, FanoutInv
<1>. QED  BY <1>1, Invariance, PTL

\* A target gets an event once, but for sends whose transaction rolled back.
THEOREM SentOnceUnlessRolledBackHolds ==
  Spec => []SentOnceUnlessRolledBack
<1>1. IInv => SentOnceUnlessRolledBack
  <2>1. SUFFICES ASSUME IInv, NEW p \in EventIds \X Targets
                 PROVE  sends[p] <= 1 + unrecorded[p]
    BY DEF SentOnceUnlessRolledBack
  <2>2. /\ sends[p] = unrecorded[p] + IF Delivered(p) \/ Delivering(p) THEN 1 ELSE 0
        /\ unrecorded[p] \in Nat
    BY <2>1 DEF IInv, SendsInv, TInv, TypeOK, ExecutorTypeOK
  <2>. QED  BY <2>2
<1>. QED  BY <1>1, Invariance, PTL

\* An attempt is settled only with its outcome published.
THEOREM SettledIsPublishedHolds ==
  Spec => []SettledIsPublished
<1>1. IInv => SettledIsPublished
  BY DEF IInv
<1>. QED  BY <1>1, Invariance, PTL

\* No retry is due within the quiet hours of its subscriber.
THEOREM RetriesOutsideQuietHoursHolds ==
  Spec => []RetriesOutsideQuietHours
<1>1. IInv => RetriesOutsideQuietHours
  BY DEF IInv, RowsInv, RowOK, RetriesOutsideQuietHours
<1>. QED  BY <1>1, Invariance, PTL

\* An attempt is given up after MaxAttempts failures, and not before.
THEOREM DeadAtTheLimitHolds ==
  Spec => []DeadAtTheLimit
<1>1. IInv => DeadAtTheLimit
  BY DEF IInv, RowsInv, RowOK, DeadAtTheLimit
<1>. QED  BY <1>1, Invariance, PTL

-----------------------------------------------------------------------------
(* Refinement.                                                             *)

Life == [p \in EventIds \X Targets |-> StateOf(p)]

\* The one attempt of a pair tells its state.
PairsTold ==
    \A p \in EventIds \X Targets :
      /\ AttemptsFor(p[1], p[2]) = {} => StateOf(p) = [state |-> "absent", no |-> 0]
      /\ \A a \in Attempts : attempts[a].event = p[1] /\ attempts[a].target = p[2] =>
           StateOf(p) = [state |-> attempts[a].status, no |-> attempts[a].no]

LEMMA LifeOfPair ==
  IInv => PairsTold
<1> SUFFICES ASSUME IInv, NEW p \in EventIds \X Targets
             PROVE  /\ AttemptsFor(p[1], p[2]) = {} => StateOf(p) = [state |-> "absent", no |-> 0]
                    /\ \A a \in Attempts : attempts[a].event = p[1] /\ attempts[a].target = p[2] =>
                         StateOf(p) = [state |-> attempts[a].status, no |-> attempts[a].no]
  BY DEF PairsTold
<1>1. ASSUME NEW a \in Attempts, attempts[a].event = p[1], attempts[a].target = p[2]
      PROVE  StateOf(p) = [state |-> attempts[a].status, no |-> attempts[a].no]
  <2>1. AttemptsFor(p[1], p[2]) = {a}
    <3>1. a \in AttemptsFor(p[1], p[2])
      BY <1>1 DEF AttemptsFor
    <3>2. \A b \in AttemptsFor(p[1], p[2]) : b = a
      BY <1>1, OneAttempt DEF AttemptsFor
    <3>. QED  BY <3>1, <3>2
  <2>2. (CHOOSE b \in {a} : TRUE) = a
    OBVIOUS
  <2>. QED  BY <2>1, <2>2, Zenon DEF StateOf
<1>2. AttemptsFor(p[1], p[2]) = {} => StateOf(p) = [state |-> "absent", no |-> 0]
  BY DEF StateOf
<1>. QED  BY <1>1, <1>2

LEMMA LifeOfPairNext ==
  IInv' => PairsTold'
BY LifeOfPair, PTL

\* A pair whose attempt keeps its status and its number keeps its state.
LEMMA SamePair ==
  ASSUME IInv, IInv', NEW p \in EventIds \X Targets,
         AttemptsFor(p[1], p[2])' = AttemptsFor(p[1], p[2]),
         \A a \in AttemptsFor(p[1], p[2]) :
           attempts'[a].status = attempts[a].status /\ attempts'[a].no = attempts[a].no
  PROVE  StateOf(p)' = StateOf(p)
<1>1. CASE AttemptsFor(p[1], p[2]) = {}
  BY <1>1, LifeOfPair, LifeOfPairNext DEF PairsTold
<1>2. ASSUME NEW a \in AttemptsFor(p[1], p[2])
      PROVE  StateOf(p)' = StateOf(p)
  <2>1. a \in Attempts /\ attempts[a].event = p[1] /\ attempts[a].target = p[2]
    BY <1>2 DEF AttemptsFor
  <2>2. a \in Attempts' /\ attempts'[a].event = p[1] /\ attempts'[a].target = p[2]
    BY <1>2 DEF AttemptsFor
  <2>. QED  BY <1>2, <2>1, <2>2, LifeOfPair, LifeOfPairNext DEF PairsTold
<1>. QED  BY <1>1, <1>2

LEMMA LifeInitially ==
  Init => Lifecycle!LifeInit
<1> SUFFICES ASSUME Init
             PROVE  Life = [p \in EventIds \X Targets |-> [state |-> "absent", no |-> 0]]
  BY DEF Lifecycle!LifeInit, Life
<1>1. \A p \in EventIds \X Targets : AttemptsFor(p[1], p[2]) = {}
  BY DEF Init, DbInit, AttemptsFor, Attempts
<1>. QED  BY <1>1, Initially, LifeOfPair DEF PairsTold, Life

\* All pairs of the event appear at once.
LEMMA FanoutLife ==
  ASSUME IInv, IInv', NEW c \in Consumers, CommitFanout(c)
  PROVE  \E e \in EventIds :
           /\ \A t \in Targets : Life[<<e, t>>].state = "absent"
           /\ Life' = [p \in EventIds \X Targets |->
                IF p[1] = e THEN [state |-> "pending", no |-> 0] ELSE Life[p]]
<1>1. PICK e : e = fanout[c].event
  OBVIOUS
<1>2. e \in EventIds /\ e \notin processed /\ e \in processed'
  BY <1>1 DEF CommitFanout, IInv, FanoutInv, FanoutOK, Marked
<1>3. /\ Attempts \subseteq Attempts'
      /\ \A a \in Attempts : attempts'[a] = attempts[a]
      /\ \A a \in Attempts' \ Attempts : attempts'[a].status = "pending" /\ attempts'[a].no = 0
  BY CommitFanoutStep
<1>4. \A a \in Attempts' \ Attempts : attempts'[a].event = e
  BY <1>1 DEF CommitFanout, Attempts, NewAttempt
<1>5. \A t \in Targets : AttemptsFor(e, t) = {}
  BY <1>2 DEF IInv, FanoutInv, FannedOutOnce
<1>6. \A t \in Targets : StateOf(<<e, t>>) = [state |-> "absent", no |-> 0]
  BY <1>2, <1>5, LifeOfPair DEF PairsTold
<1>7. ASSUME NEW p \in EventIds \X Targets, p[1] = e
      PROVE  StateOf(p)' = [state |-> "pending", no |-> 0]
  <2>1. p[2] \in Targets
    OBVIOUS
  <2>2. PICK a \in AttemptIds : AttemptsFor(e, p[2])' = {a}
    BY <1>2, <2>1 DEF IInv, FanoutInv, FannedOutOnce
  <2>3. /\ a \in Attempts' /\ attempts'[a].event = e /\ attempts'[a].target = p[2]
    BY <2>2 DEF AttemptsFor
  <2>4. a \notin Attempts
    BY <1>3, <1>5, <2>1, <2>3 DEF AttemptsFor
  <2>. QED  BY <1>3, <1>7, <2>3, <2>4, LifeOfPairNext DEF PairsTold
<1>8. ASSUME NEW p \in EventIds \X Targets, p[1] # e
      PROVE  StateOf(p)' = StateOf(p)
  <2>1. AttemptsFor(p[1], p[2])' = AttemptsFor(p[1], p[2])
    BY <1>3, <1>4, <1>8 DEF AttemptsFor
  <2>2. \A a \in AttemptsFor(p[1], p[2]) : attempts'[a] = attempts[a]
    BY <1>3 DEF AttemptsFor
  <2>. QED  BY <2>1, <2>2, SamePair
<1>. QED  BY <1>2, <1>6, <1>7, <1>8 DEF Life

\* A committed try moves its pair, and no other.
LEMMA CommitLife ==
  ASSUME IInv, IInv', NEW w \in Workers, CommitSend(w)
  PROVE  \E p \in EventIds \X Targets, old \in Rows, new \in Rows :
           /\ Tried(old, new)
           /\ Life[p] = [state |-> old.status, no |-> old.no]
           /\ Life' = [Life EXCEPT ![p] = [state |-> new.status, no |-> new.no]]
<1>1. PICK a, new : a = workers[w].job.attempt /\ new = workers[w].write
  OBVIOUS
<1>2. /\ a \in Attempts /\ a \in AttemptIds /\ new \in Rows /\ attempts[a] \in Rows
      /\ Tried(attempts[a], new)
      /\ attempts' = [attempts EXCEPT ![a] = new]
  BY <1>1, OpenRun, RowsOf DEF CommitSend, Open
<1>3. \A b \in AttemptIds : attempts'[b] = IF b = a THEN new ELSE attempts[b]
  BY <1>2 DEF IInv, TInv, TypeOK, DbTypeOK
<1>4. Attempts' = Attempts
  BY <1>2, <1>3, DeliveryNoneAssumption DEF Attempts
<1>5. PICK p \in EventIds \X Targets : p[1] = attempts[a].event /\ p[2] = attempts[a].target
  <2>1. <<attempts[a].event, attempts[a].target>> \in EventIds \X Targets
    BY <1>2 DEF Rows
  <2>. QED  BY <2>1
<1>6. Life[p] = [state |-> attempts[a].status, no |-> attempts[a].no]
  BY <1>2, <1>5, LifeOfPair DEF PairsTold, Life
<1>7. Life'[p] = [state |-> new.status, no |-> new.no]
  <2>1. a \in Attempts' /\ attempts'[a] = new /\ new.event = p[1] /\ new.target = p[2]
    BY <1>2, <1>3, <1>4, <1>5 DEF Tried
  <2>. QED  BY <2>1, LifeOfPairNext DEF PairsTold, Life
<1>8. ASSUME NEW q \in EventIds \X Targets, q # p
      PROVE  Life'[q] = Life[q]
  <2>1. ~ (q[1] = p[1] /\ q[2] = p[2])
    BY <1>8
  <2>2. AttemptsFor(q[1], q[2])' = AttemptsFor(q[1], q[2])
    BY <1>2, <1>3, <1>4, <1>5, <2>1 DEF AttemptsFor, Tried, Attempts
  <2>3. \A b \in AttemptsFor(q[1], q[2]) : attempts'[b] = attempts[b]
    BY <1>3, <1>5, <2>1 DEF AttemptsFor, Attempts
  <2>. QED  BY <2>2, <2>3, SamePair DEF Life
<1>9. Life' = [Life EXCEPT ![p] = [state |-> new.status, no |-> new.no]]
  BY <1>7, <1>8 DEF Life
<1>. QED  BY <1>2, <1>5, <1>6, <1>9

\* Every other step leaves the lifecycle as it is.
LEMMA OtherLife ==
  ASSUME IInv, IInv', SameAttempts,
         \A a \in Attempts : attempts'[a].status = attempts[a].status
                               /\ attempts'[a].no = attempts[a].no
  PROVE  Life' = Life
<1>1. ASSUME NEW p \in EventIds \X Targets
      PROVE  StateOf(p)' = StateOf(p)
  <2>1. AttemptsFor(p[1], p[2])' = AttemptsFor(p[1], p[2])
    BY DEF AttemptsFor, SameAttempts
  <2>. QED  BY <2>1, SamePair DEF AttemptsFor
<1>. QED  BY <1>1 DEF Life

LEMMA LifeStep ==
  IInv /\ [Next]_vars => [Lifecycle!LifeNext]_Life
<1> SUFFICES ASSUME IInv, [Next]_vars
             PROVE  [Lifecycle!LifeNext]_Life
  OBVIOUS
<1>1. IInv'
  BY Inductive
<1>2. CASE attempts' = attempts
  <2>1. SameAttempts
    BY <1>2 DEF SameAttempts, Attempts
  <2>. QED  BY <1>1, <1>2, <2>1, OtherLife
<1>3. CASE Tick
  BY <1>1, <1>3, TickRows, OtherLife
<1>4. ASSUME NEW c \in Consumers, CommitFanout(c)
      PROVE  Lifecycle!LifeNext
  <2>1. PICK e \in EventIds :
          /\ \A t \in Targets : Life[<<e, t>>].state = "absent"
          /\ Life' = [p \in EventIds \X Targets |->
               IF p[1] = e THEN [state |-> "pending", no |-> 0] ELSE Life[p]]
    BY <1>1, <1>4, FanoutLife
  <2>2. Lifecycle!FanOut(e)
    BY <2>1 DEF Lifecycle!FanOut, Life
  <2>. QED  BY <2>2 DEF Lifecycle!LifeNext
<1>5. ASSUME NEW w \in Workers, CommitSend(w)
      PROVE  Lifecycle!LifeNext
  <2>1. PICK p \in EventIds \X Targets, old \in Rows, new \in Rows :
          /\ Tried(old, new)
          /\ Life[p] = [state |-> old.status, no |-> old.no]
          /\ Life' = [Life EXCEPT ![p] = [state |-> new.status, no |-> new.no]]
    BY <1>1, <1>5, CommitLife
  <2>2. Lifecycle!Open(p)
    BY <2>1 DEF Lifecycle!Open, Life, Tried
  <2>3. Life[p].no = old.no /\ Lifecycle!Become(p, new.status, new.no)
    BY <2>1 DEF Lifecycle!Become, Life
  <2>4. Lifecycle!Postpone(p) \/ Lifecycle!Succeed(p) \/ Lifecycle!Fail(p) \/ Lifecycle!GiveUp(p)
    BY <2>1, <2>2, <2>3
    DEF Tried, Lifecycle!Postpone, Lifecycle!Succeed, Lifecycle!Fail, Lifecycle!GiveUp, Life
  <2>. QED  BY <2>4 DEF Lifecycle!LifeNext
<1>6. CASE Next
  <2>1. \/ attempts' = attempts \/ Tick
        \/ \E c \in Consumers : CommitFanout(c)
        \/ \E w \in Workers : CommitSend(w)
    <3>1. CASE WorkerNext
      BY <3>1 DEF WorkerNext, WorkerStep, ExecuteSend, CrashWorker, FailJob, RollBack, TakeJob,
                  Finish, RetryAttempt, Skip, DelayForQuietHours, SendSucceeds, SendFails,
                  Publish, EnqueueRetry, dbVars
    <3>2. CASE ConsumerNext
      BY <3>2 DEF ConsumerNext, ConsumerStep, AbortFanout, Receive, MarkProcessed,
                  CreateAttempt, EnqueueSend, Ack, dbVars
    <3>3. CASE Environment
      BY <3>3 DEF Environment, Announce, RestartRedis
    <3>. QED  BY <1>6, <3>1, <3>2, <3>3 DEF Next
  <2>. QED  BY <1>2, <1>3, <1>4, <1>5, <2>1
<1>7. CASE UNCHANGED vars
  BY <1>2, <1>7 DEF vars, dbVars
<1>. QED  BY <1>6, <1>7

\* The service implements the lifecycle: the attempts of an event appear in one
\* step, and each goes its way to sent or dead and stays there, in as many tries
\* as it may take and no more.
THEOREM RefinesLifecycle ==
  Spec => ImplementsLifecycle
<1>1. Spec => [][Lifecycle!LifeNext]_Life
  BY LifeStep, Invariance, PTL DEF Spec
<1>2. Spec => Lifecycle!LifeInit
  BY LifeInitially DEF Spec
<1>. QED  BY <1>1, <1>2, PTL DEF ImplementsLifecycle, Lifecycle!LifeSpec, Life
===============================================================================

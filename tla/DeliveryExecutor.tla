--------------------------- MODULE DeliveryExecutor ---------------------------
(***************************************************************************)
(* The arq workers. A send_<channel> job runs execute_send, one            *)
(* transaction around the row of its attempt: it decides on the attempt,   *)
(* calls the provider, publishes the outcome or enqueues the job that will *)
(* try again, and commits. arq takes a job whose function raised out of    *)
(* the queue, and runs a job again whose worker died.                      *)
(*                                                                         *)
(* The provider's send is instantaneous here: the time it takes passes     *)
(* after it, while the transaction is open.                                *)
(***************************************************************************)
EXTENDS DeliveryDb

CONSTANTS Workers,      \* jobs the worker processes run at the same time
          BaseDelay,    \* delivery_base_delay_seconds, in hours
          MaxDelay,     \* delivery_max_delay_seconds
          Jitter        \* delivery_retry_jitter_seconds

ASSUME ExecutorAssumption ==
    /\ BaseDelay \in Nat /\ MaxDelay \in Nat /\ Jitter \in Nat
    /\ IsFiniteSet(Workers)

VARIABLES workers,      \* what each worker is doing
          sends,        \* history: successful sends of each event to each target
          unrecorded,   \* history: those of them whose transaction rolled back
          outcomes      \* delivery.succeeded and delivery.failed events published

executorVars == <<workers, sends, unrecorded, outcomes>>

\* "write" is the uncommitted row of the job's attempt, "defer" the delay of the
\* job that is to try again.
Runs == [pc : {"idle", "start", "publish", "enqueue", "commit", "finish"},
         job : Jobs \cup {None}, write : Rows \cup {None}, defer : Nat]

Outcomes == [event : EventIds, target : Targets, result : {"sent", "dead"}]

ExecutorTypeOK ==
    /\ workers \in [Workers -> Runs]
    /\ sends \in [EventIds \X Targets -> Nat]
    /\ unrecorded \in [EventIds \X Targets -> Nat]
    /\ outcomes \in SUBSET Outcomes

NoRun == [pc |-> "idle", job |-> None, write |-> None, defer |-> 0]

ExecutorInit ==
    /\ workers = [w \in Workers |-> NoRun]
    /\ sends = [p \in EventIds \X Targets |-> 0]
    /\ unrecorded = [p \in EventIds \X Targets |-> 0]
    /\ outcomes = {}

Run(w, run) == workers' = [workers EXCEPT ![w] = run]
Working == {w \in Workers : workers[w].pc # "idle"}
Held == {workers[w].job : w \in Working}

\* arq: a job that is due and that no worker has in progress.
TakeJob(w) ==
    /\ workers[w].pc = "idle"
    /\ \E j \in queue \ Held :
         /\ j.wait = 0
         /\ Run(w, [NoRun EXCEPT !.pc = "start", !.job = j])
    /\ UNCHANGED <<dbVars, sends, unrecorded, outcomes>>

\* The job is done, and leaves the queue.
Finish(w) ==
    /\ workers[w].pc = "finish"
    /\ queue' = queue \ {workers[w].job}
    /\ Run(w, NoRun)
    /\ UNCHANGED <<attempts, drawn, processed, unacked, hour, crashes, losses,
                   sends, unrecorded, outcomes>>

\* retry_attempt
RetryAttempt(w) ==
    /\ workers[w].pc = "start"
    /\ workers[w].job.kind = "retry"
    /\ queue' = Enqueued("send", workers[w].job.attempt, 0, Held)
    /\ Run(w, [workers[w] EXCEPT !.pc = "finish"])
    /\ UNCHANGED <<attempts, drawn, processed, unacked, hour, crashes, losses,
                   sends, unrecorded, outcomes>>

-----------------------------------------------------------------------------
(* execute_send                                                            *)

\* Mutant of Starts: SELECT without FOR UPDATE.
StartsUnlocked(w, a) ==
    /\ workers[w].pc = "start"
    /\ workers[w].job.kind = "send"
    /\ workers[w].job.attempt = a

\* The worker is free to read the row of attempt a: no other worker's
\* transaction holds the lock of its SELECT ... FOR UPDATE.
Starts(w, a) ==
    /\ workers[w].pc = "start"
    /\ workers[w].job.kind = "send"
    /\ workers[w].job.attempt = a
    /\ \A v \in Workers \ {w} :
         workers[v].pc \in {"publish", "enqueue", "commit"} => workers[v].job.attempt # a

QuietNow(a) == QuietFor(hour, Quiet[attempts[a].target])

\* Mutant of Sendable: without the check of the status.
SendableAgain(a) == a \in Attempts /\ attempts[a].retryIn = 0

\* There is such an attempt, it is not settled, and its time has come.
Sendable(a) ==
    /\ a \in Attempts
    /\ attempts[a].status \notin {"sent", "dead"}
    /\ attempts[a].retryIn = 0

Skip(w) ==
    /\ \E a \in AttemptIds : Starts(w, a) /\ ~Sendable(a)
    /\ Run(w, [workers[w] EXCEPT !.pc = "finish"])
    /\ UNCHANGED <<dbVars, sends, unrecorded, outcomes>>

\* Mutant of DelayForQuietHours: the delay counts as a try.
DelayCounted(w) ==
    /\ \E a \in AttemptIds :
         /\ Starts(w, a)
         /\ Sendable(a)
         /\ QuietNow(a) > 0
         /\ Run(w, [workers[w] EXCEPT
              !.pc = "enqueue", !.defer = QuietNow(a),
              !.write = [attempts[a] EXCEPT !.no = @ + 1, !.status = "failed",
                                            !.retryIn = QuietNow(a)]])
    /\ UNCHANGED <<dbVars, sends, unrecorded, outcomes>>

\* mark_delayed, and a job for the end of the quiet hours.
DelayForQuietHours(w) ==
    /\ \E a \in AttemptIds :
         /\ Starts(w, a)
         /\ Sendable(a)
         /\ QuietNow(a) > 0
         /\ Run(w, [workers[w] EXCEPT
              !.pc = "enqueue", !.defer = QuietNow(a),
              !.write = [attempts[a] EXCEPT !.status = "failed", !.retryIn = QuietNow(a)]])
    /\ UNCHANGED <<dbVars, sends, unrecorded, outcomes>>

\* The provider delivered: mark_sent.
SendSucceeds(w) ==
    /\ \E a \in AttemptIds :
         /\ Starts(w, a)
         /\ Sendable(a)
         /\ QuietNow(a) = 0
         /\ Run(w, [workers[w] EXCEPT
              !.pc = "publish",
              !.write = [attempts[a] EXCEPT !.status = "sent", !.retryIn = 0]])
         /\ sends' = [sends EXCEPT ![<<attempts[a].event, attempts[a].target>>] = @ + 1]
    /\ UNCHANGED <<dbVars, unrecorded, outcomes>>

\* compute_backoff_delay: the delays the jitter allows.
BackoffDelays(no) ==
    {delay \in 0 .. MaxDelay : \E jitter \in 0 .. Jitter :
        LET full == BaseDelay * 2 ^ (no - 1) + jitter
        IN delay = IF full <= MaxDelay THEN full ELSE MaxDelay}

\* Mutant of RetryAfter: the end of the backoff alone.
RetryAfterBackoff(delay, window) == delay

\* The later of the end of a backoff and the end of the quiet hours it falls in,
\* from now on.
RetryAfter(delay, window) == delay + QuietFor((hour + delay) % Day, window)

\* Mutant of SendFails: one try more than MaxAttempts.
SendFailsOnceMore(w) ==
    /\ \E a \in AttemptIds :
         LET row == [attempts[a] EXCEPT !.no = @ + 1]
         IN /\ Starts(w, a)
            /\ Sendable(a)
            /\ QuietNow(a) = 0
            /\ \/ /\ row.no > MaxAttempts
                  /\ Run(w, [workers[w] EXCEPT
                       !.pc = "publish",
                       !.write = [row EXCEPT !.status = "dead", !.retryIn = 0]])
               \/ /\ row.no <= MaxAttempts
                  /\ \E delay \in BackoffDelays(row.no) :
                       LET wait == RetryAfter(delay, Quiet[row.target])
                       IN Run(w, [workers[w] EXCEPT
                            !.pc = "enqueue", !.defer = wait,
                            !.write = [row EXCEPT !.status = "failed", !.retryIn = wait]])
    /\ UNCHANGED <<dbVars, sends, unrecorded, outcomes>>

\* The provider did not deliver: mark_failed, as dead when no attempt is left.
SendFails(w) ==
    /\ \E a \in AttemptIds :
         LET row == [attempts[a] EXCEPT !.no = @ + 1]
         IN /\ Starts(w, a)
            /\ Sendable(a)
            /\ QuietNow(a) = 0
            /\ \/ /\ row.no >= MaxAttempts
                  /\ Run(w, [workers[w] EXCEPT
                       !.pc = "publish",
                       !.write = [row EXCEPT !.status = "dead", !.retryIn = 0]])
               \/ /\ row.no < MaxAttempts
                  /\ \E delay \in BackoffDelays(row.no) :
                       LET wait == RetryAfter(delay, Quiet[row.target])
                       IN Run(w, [workers[w] EXCEPT
                            !.pc = "enqueue", !.defer = wait,
                            !.write = [row EXCEPT !.status = "failed", !.retryIn = wait]])
    /\ UNCHANGED <<dbVars, sends, unrecorded, outcomes>>

\* Mutant of Publish: an exception of publish_json is swallowed.
PublishQuietly(w) ==
    /\ workers[w].pc = "publish"
    /\ Run(w, [workers[w] EXCEPT !.pc = "commit"])
    /\ UNCHANGED <<dbVars, sends, unrecorded, outcomes>>

\* The outcome goes to the stream, before the commit.
Publish(w) ==
    /\ workers[w].pc = "publish"
    /\ outcomes' = outcomes \cup
         {[event |-> workers[w].write.event, target |-> workers[w].write.target,
           result |-> workers[w].write.status]}
    /\ Run(w, [workers[w] EXCEPT !.pc = "commit"])
    /\ UNCHANGED <<dbVars, sends, unrecorded>>

\* Mutant of EnqueueRetry: without _defer_by.
EnqueueRetryAtOnce(w) ==
    /\ workers[w].pc = "enqueue"
    /\ queue' = Enqueued("retry", workers[w].job.attempt, 0, Held)
    /\ Run(w, [workers[w] EXCEPT !.pc = "commit"])
    /\ UNCHANGED <<attempts, drawn, processed, unacked, hour, crashes, losses,
                   sends, unrecorded, outcomes>>

\* enqueue_job("retry_attempt", ..., _defer_by)
EnqueueRetry(w) ==
    /\ workers[w].pc = "enqueue"
    /\ queue' = Enqueued("retry", workers[w].job.attempt, workers[w].defer, Held)
    /\ Run(w, [workers[w] EXCEPT !.pc = "commit"])
    /\ UNCHANGED <<attempts, drawn, processed, unacked, hour, crashes, losses,
                   sends, unrecorded, outcomes>>

CommitSend(w) ==
    /\ workers[w].pc = "commit"
    /\ attempts' = [attempts EXCEPT ![workers[w].job.attempt] = workers[w].write]
    /\ Run(w, [workers[w] EXCEPT !.pc = "finish", !.write = None, !.defer = 0])
    /\ UNCHANGED <<drawn, processed, unacked, queue, hour, crashes, losses,
                   sends, unrecorded, outcomes>>

-----------------------------------------------------------------------------
(* Failures.                                                               *)

\* The transaction rolls back, a send it was to record with it.
RollBack(w) ==
    /\ unrecorded' =
         IF workers[w].write # None /\ workers[w].write.status = "sent"
           THEN [unrecorded EXCEPT ![<<workers[w].write.event, workers[w].write.target>>] = @ + 1]
           ELSE unrecorded
    /\ Run(w, NoRun)
    /\ UNCHANGED <<attempts, drawn, processed, unacked, hour, sends, outcomes>>

\* The worker dies; its job is run again.
CrashWorker(w) ==
    /\ workers[w].pc # "idle"
    /\ RollBack(w)
    /\ Crash
    /\ UNCHANGED <<queue, losses>>

\* The database, the provider, the stream or Redis raises: arq takes the job, as
\* failed, out of the queue.
FailJob(w) ==
    /\ workers[w].pc \in {"start", "publish", "enqueue", "commit"}
    /\ RollBack(w)
    /\ queue' = queue \ {workers[w].job}
    /\ Loss
    /\ UNCHANGED crashes

ExecuteSend(w) ==
    Skip(w) \/ DelayForQuietHours(w) \/ SendSucceeds(w) \/ SendFails(w)

WorkerStep(w) ==
    \/ TakeJob(w) \/ RetryAttempt(w) \/ ExecuteSend(w) \/ Publish(w)
    \/ EnqueueRetry(w) \/ CommitSend(w) \/ Finish(w)

WorkerNext == \E w \in Workers : WorkerStep(w) \/ CrashWorker(w) \/ FailJob(w)
===============================================================================

-------------------------- MODULE DeliveryJobsProofs --------------------------
(***************************************************************************)
(* Proofs about the job queue of Delivery: while no job is lost, an        *)
(* attempt to be tried again has a job that tries it, in its time.         *)
(***************************************************************************)
EXTENDS DeliveryProofs

-----------------------------------------------------------------------------
(* The inductive invariant.                                                *)

\* Jobs with the same function and attempt have different ids; a job is in
\* progress once, and leaves the queue meanwhile only when it is lost.
JobIds ==
    /\ \A i, j \in queue : i.kind = j.kind /\ i.attempt = j.attempt /\ i.copy = j.copy => i = j
    /\ \A v, w \in Workers :
         v # w /\ workers[v].pc # "idle" /\ workers[w].pc # "idle" =>
           workers[v].job # workers[w].job
    /\ losses = 0 => \A w \in Workers : workers[w].pc # "idle" => workers[w].job \in queue

\* A job for the attempt a, not before its time, that no worker is done with.
Waits(j, a, time) ==
    /\ j \in queue /\ j.attempt = a /\ time <= j.wait
    /\ \A v \in Workers : workers[v].pc = "finish" => workers[v].job # j

\* The job that tries again is there before the row says that there is to be
\* another try, and is not the one that is being done.
JobsWait ==
    losses = 0 =>
      /\ \A a \in Attempts : attempts[a].status = "failed" =>
           \E j \in queue : Waits(j, a, attempts[a].retryIn)
      /\ \A w \in Workers : workers[w].pc = "commit" /\ workers[w].write.status = "failed" =>
           \E j \in queue : j # workers[w].job
                              /\ Waits(j, workers[w].job.attempt, workers[w].write.retryIn)

JInv == JobIds /\ JobsWait

-----------------------------------------------------------------------------
(* What steps rely on.                                                     *)

\* The queue with one more job.
LEMMA QueueGrows ==
  ASSUME IInv, JobIds, NEW held \in SUBSET Jobs, IsFiniteSet(held),
         NEW kind \in {"send", "retry"}, NEW a \in AttemptIds, NEW wait \in Nat,
         queue' = Enqueued(kind, a, wait, held)
  PROVE  \E k \in Jobs :
           /\ queue' = queue \cup {k} /\ k.attempt = a /\ k.wait = wait /\ k \notin held
           /\ \A i, j \in queue' :
                i.kind = j.kind /\ i.attempt = j.attempt /\ i.copy = j.copy => i = j
<1>1. queue \in SUBSET Jobs /\ IsFiniteSet(queue)
  BY DEF IInv, TInv, TypeOK, DbTypeOK
<1>2. PICK k \in Jobs :
        /\ queue' = queue \cup {k}
        /\ k.kind = kind /\ k.attempt = a /\ k.wait = wait
        /\ \A i \in queue \cup held : i.kind = kind /\ i.attempt = a => i.copy # k.copy
  BY <1>1, EnqueuedJob
<1>3. k \notin held
  BY <1>2
<1>4. \A i, j \in queue' : i.kind = j.kind /\ i.attempt = j.attempt /\ i.copy = j.copy => i = j
  BY <1>2 DEF JobIds
<1>. QED  BY <1>2, <1>3, <1>4

\* Workers go on with their jobs, or leave them.
LEMMA SameJobs ==
  ASSUME JobIds,
         \A i, j \in queue' : i.kind = j.kind /\ i.attempt = j.attempt /\ i.copy = j.copy => i = j,
         \A v \in Workers : workers'[v].pc # "idle" =>
           workers[v].pc # "idle" /\ workers'[v].job = workers[v].job,
         losses' = 0 => /\ losses = 0
                        /\ \A v \in Workers :
                             workers'[v].pc # "idle" /\ workers[v].job \in queue =>
                               workers'[v].job \in queue'
  PROVE  JobIds'
BY DEF JobIds

\* No worker is done with a job that was not before, no row is to be tried again
\* that was not before, and only jobs that are done leave the queue.
LEMMA SameWaits ==
  ASSUME JobsWait, losses' = 0 => losses = 0,
         \A a \in Attempts' : attempts'[a].status = "failed" =>
           a \in Attempts /\ attempts'[a] = attempts[a],
         \A w \in Workers : workers'[w].pc = "finish" => workers'[w] = workers[w],
         \A w \in Workers : workers'[w].pc = "commit" /\ workers'[w].write.status = "failed" =>
           workers'[w] = workers[w],
         \A j \in queue \ queue' : \E v \in Workers :
           workers[v].pc = "finish" /\ workers[v].job = j
  PROVE  JobsWait'
<1>1. SUFFICES ASSUME losses = 0, losses' = 0
               PROVE  JobsWait'
  BY DEF JobsWait
<1>2. \A j, a, time : Waits(j, a, time) => j \in queue' /\ Waits(j, a, time)'
  BY DEF Waits
<1>3. ASSUME NEW a \in Attempts', attempts'[a].status = "failed"
      PROVE  (\E j \in queue : Waits(j, a, attempts[a].retryIn))'
  <2>1. PICK j \in queue : Waits(j, a, attempts[a].retryIn)
    BY <1>1, <1>3 DEF JobsWait
  <2>. QED  BY <1>2, <1>3, <2>1
<1>4. ASSUME NEW w \in Workers, workers'[w].pc = "commit", workers'[w].write.status = "failed"
      PROVE  (\E j \in queue : j # workers[w].job
                /\ Waits(j, workers[w].job.attempt, workers[w].write.retryIn))'
  <2>1. workers'[w] = workers[w]
    BY <1>4
  <2>2. PICK j \in queue : j # workers[w].job
               /\ Waits(j, workers[w].job.attempt, workers[w].write.retryIn)
    BY <1>1, <1>4, <2>1 DEF JobsWait
  <2>. QED  BY <1>2, <2>1, <2>2
<1>. QED  BY <1>3, <1>4 DEF JobsWait

-----------------------------------------------------------------------------
(* The steps of a worker.                                                  *)

LEMMA HeldJob ==
  ASSUME IInv, NEW w \in Workers, workers[w].pc # "idle"
  PROVE  /\ workers[w].job \in Held /\ workers[w].job \in Jobs
         /\ workers[w].job.wait = 0 /\ workers[w].job.attempt \in AttemptIds
BY DEF IInv, WorkerOK, Held, Working, Jobs

LEMMA TakeJobs ==
  ASSUME IInv, JInv, NEW w \in Workers, TakeJob(w)
  PROVE  JInv'
<1>1. PICK j \in queue \ Held : j.wait = 0 /\ Run(w, [NoRun EXCEPT !.pc = "start", !.job = j])
  BY DEF TakeJob
<1>2. PICK r : r = [NoRun EXCEPT !.pc = "start", !.job = j]
  OBVIOUS
<1>3. r.pc = "start" /\ r.job = j
  BY <1>2 DEF NoRun
<1>4. workers'[w] = r /\ \A v \in Workers : v # w => workers'[v] = workers[v]
  BY <1>1, <1>2, OtherWorkers DEF Run
<1>5. UNCHANGED <<attempts, queue, losses>>
  BY DEF TakeJob, dbVars
<1>6. \A v \in Workers : workers[v].pc # "idle" => workers[v].job # j
  BY <1>1, HeldJob
<1>7. JobIds'
  BY <1>1, <1>3, <1>4, <1>5, <1>6 DEF JInv, JobIds
<1>8. JobsWait'
  BY <1>3, <1>4, <1>5, SameWaits DEF JInv, Attempts
<1>. QED  BY <1>7, <1>8 DEF JInv

LEMMA FinishJobs ==
  ASSUME IInv, JInv, NEW w \in Workers, Finish(w)
  PROVE  JInv'
<1>1. /\ workers[w].pc = "finish" /\ queue' = queue \ {workers[w].job}
      /\ UNCHANGED <<attempts, losses>>
  BY DEF Finish
<1>2. workers'[w].pc = "idle" /\ \A v \in Workers : v # w => workers'[v] = workers[v]
  <2>1. NoRun.pc = "idle"
    BY DEF NoRun
  <2>. QED  BY <2>1, OtherWorkers DEF Finish, Run
<1>3. JobIds'
  BY <1>1, <1>2, SameJobs DEF JInv, JobIds
<1>4. JobsWait'
  BY <1>1, <1>2, SameWaits DEF JInv, Attempts
<1>. QED  BY <1>3, <1>4 DEF JInv

LEMMA DyingJobs ==
  ASSUME IInv, JInv, NEW w \in Workers, CrashWorker(w) \/ FailJob(w)
  PROVE  JInv'
<1>1. workers'[w].pc = "idle" /\ \A v \in Workers : v # w => workers'[v] = workers[v]
  <2>1. NoRun.pc = "idle"
    BY DEF NoRun
  <2>. QED  BY <2>1, OtherWorkers DEF CrashWorker, FailJob, RollBack, Run
<1>2. attempts' = attempts /\ queue' \subseteq queue
  BY DEF CrashWorker, FailJob, RollBack
<1>3. CASE CrashWorker(w)
  <2>1. UNCHANGED <<attempts, queue, losses>>
    BY <1>2, <1>3 DEF CrashWorker
  <2>2. JobIds'
    BY <1>1, <2>1, SameJobs DEF JInv, JobIds
  <2>3. JobsWait'
    BY <1>1, <2>1, SameWaits DEF JInv, Attempts
  <2>. QED  BY <2>2, <2>3 DEF JInv
<1>4. CASE FailJob(w)
  <2>1. losses' # 0
    BY <1>4 DEF FailJob, Loss, IInv, TInv, TypeOK, DbTypeOK
  <2>2. JobIds'
    BY <1>1, <1>2, <2>1, SameJobs DEF JInv, JobIds
  <2>. QED  BY <2>1, <2>2 DEF JInv, JobsWait
<1>. QED  BY <1>3, <1>4

\* A worker goes on, not done and with no retry to be committed.
LEMMA GoingOnJobs ==
  ASSUME IInv, JInv, NEW w \in Workers, NEW r, workers' = [workers EXCEPT ![w] = r],
         workers[w].pc # "idle", r.job = workers[w].job, r.pc # "finish",
         r.pc = "commit" => r.write.status # "failed",
         UNCHANGED <<attempts, queue, losses>>
  PROVE  JInv'
<1>1. workers'[w] = r /\ \A v \in Workers : v # w => workers'[v] = workers[v]
  BY OtherWorkers
<1>2. JobIds'
  BY <1>1, SameJobs DEF JInv, JobIds
<1>3. JobsWait'
  BY <1>1, SameWaits DEF JInv, Attempts
<1>. QED  BY <1>2, <1>3 DEF JInv

LEMMA TryJobs ==
  ASSUME IInv, JInv, NEW w \in Workers, NEW a, NEW pc, NEW new, NEW defer,
         Tries(w, a, pc, new, defer)
  PROVE  JInv'
<1>1. PICK r : r = [pc |-> pc, job |-> workers[w].job, write |-> new, defer |-> defer]
  OBVIOUS
<1>2. r.pc \in {"publish", "enqueue"} /\ r.job = workers[w].job
  BY <1>1 DEF Tries
<1>3. /\ workers' = [workers EXCEPT ![w] = r] /\ workers[w].pc = "start"
      /\ UNCHANGED <<attempts, queue, losses>>
  BY <1>1 DEF Tries, Starts, dbVars
<1>. QED  BY <1>2, <1>3, GoingOnJobs

LEMMA PublishJobs ==
  ASSUME IInv, JInv, NEW w \in Workers, Publish(w)
  PROVE  JInv'
<1>1. workers[w].pc = "publish" /\ workers[w].write.status \in {"sent", "dead"}
  BY DEF Publish, IInv, WorkerOK
<1>2. PICK x \in Runs : x = workers[w]
  BY RunOf
<1>3. PICK r : r = [x EXCEPT !.pc = "commit"]
  OBVIOUS
<1>4. r.pc = "commit" /\ r.job = workers[w].job /\ r.write = workers[w].write
  BY <1>2, <1>3 DEF Runs
<1>5. workers' = [workers EXCEPT ![w] = r] /\ UNCHANGED <<attempts, queue, losses>>
  BY <1>2, <1>3 DEF Publish, Run, dbVars
<1>. QED  BY <1>1, <1>4, <1>5, GoingOnJobs

\* The worker w goes to pc, with nothing else of its run changed.
LEMMA RunTo ==
  ASSUME IInv, NEW w \in Workers, NEW pc, Run(w, [workers[w] EXCEPT !.pc = pc])
  PROVE  /\ workers'[w].pc = pc /\ workers'[w].job = workers[w].job
         /\ workers'[w].write = workers[w].write
         /\ \A v \in Workers : v # w => workers'[v] = workers[v]
<1>1. PICK x \in Runs : x = workers[w]
  BY RunOf
<1>2. PICK r : r = [x EXCEPT !.pc = pc]
  OBVIOUS
<1>3. r.pc = pc /\ r.job = workers[w].job /\ r.write = workers[w].write
  BY <1>1, <1>2 DEF Runs
<1>4. workers' = [workers EXCEPT ![w] = r]
  BY <1>1, <1>2 DEF Run
<1>. QED  BY <1>3, <1>4, OtherWorkers

\* The job that is to try again is there when the transaction is to commit.
LEMMA EnqueueJobs ==
  ASSUME IInv, JInv, NEW w \in Workers, EnqueueRetry(w)
  PROVE  JInv'
<1> DEFINE a == workers[w].job.attempt
<1>1. /\ workers[w].pc = "enqueue" /\ UNCHANGED <<attempts, losses>>
      /\ workers[w].write.status = "failed" /\ workers[w].write.retryIn <= workers[w].defer
  BY DEF EnqueueRetry, IInv, WorkerOK
<1>2. PICK k \in Jobs :
        /\ queue' = queue \cup {k} /\ k.attempt = a /\ k.wait = workers[w].defer /\ k \notin Held
        /\ \A i, j \in queue' :
             i.kind = j.kind /\ i.attempt = j.attempt /\ i.copy = j.copy => i = j
  BY ReadyRun, HeldJobs, QueueGrows DEF EnqueueRetry, JInv
<1>3. /\ workers'[w].pc = "commit" /\ workers'[w].job = workers[w].job
      /\ workers'[w].write = workers[w].write
      /\ \A v \in Workers : v # w => workers'[v] = workers[v]
  BY RunTo DEF EnqueueRetry
<1>4. JobIds'
  BY <1>1, <1>2, <1>3, SameJobs DEF JInv, JobIds
<1>5. ASSUME losses' = 0
      PROVE  JobsWait'
  <2>1. \A j, b, time : Waits(j, b, time) => j \in queue' /\ Waits(j, b, time)'
    BY <1>2, <1>3 DEF Waits
  <2>2. Waits(k, a, workers[w].write.retryIn)' /\ k # workers[w].job
    <3>1. \A v \in Workers : workers[v].pc # "idle" => workers[v].job # k
      BY <1>2, HeldJob
    <3>. QED  BY <1>1, <1>2, <1>3, <3>1 DEF Waits
  <2>3. ASSUME NEW b \in Attempts', attempts'[b].status = "failed"
        PROVE  (\E j \in queue : Waits(j, b, attempts[b].retryIn))'
    <3>1. b \in Attempts /\ attempts'[b] = attempts[b]
      BY <1>1, <2>3 DEF Attempts
    <3>2. PICK j \in queue : Waits(j, b, attempts[b].retryIn)
      BY <1>1, <1>5, <2>3, <3>1 DEF JInv, JobsWait
    <3>. QED  BY <2>1, <3>1, <3>2
  <2>4. ASSUME NEW v \in Workers, workers'[v].pc = "commit", workers'[v].write.status = "failed"
        PROVE  (\E j \in queue : j # workers[v].job
                  /\ Waits(j, workers[v].job.attempt, workers[v].write.retryIn))'
    <3>1. CASE v = w
      BY <1>2, <1>3, <2>2, <3>1
    <3>2. CASE v # w
      <4>1. workers'[v] = workers[v]
        BY <1>3, <3>2
      <4>2. PICK j \in queue : j # workers[v].job
                   /\ Waits(j, workers[v].job.attempt, workers[v].write.retryIn)
        BY <1>1, <1>5, <2>4, <4>1 DEF JInv, JobsWait
      <4>. QED  BY <2>1, <4>1, <4>2
    <3>. QED  BY <3>1, <3>2
  <2>. QED  BY <2>3, <2>4 DEF JobsWait
<1>. QED  BY <1>4, <1>5 DEF JInv, JobsWait

\* The row that is committed has a job, and other rows have theirs: the job
\* that is done was for the row that is committed.
LEMMA CommitJobs ==
  ASSUME IInv, JInv, NEW w \in Workers, CommitSend(w)
  PROVE  JInv'
<1> DEFINE a == workers[w].job.attempt
           new == workers[w].write
<1>1. /\ workers[w].pc = "commit" /\ workers[w].pc \in Open
      /\ a \in Attempts /\ a \in AttemptIds /\ new \in Rows
      /\ attempts' = [attempts EXCEPT ![a] = new]
      /\ UNCHANGED <<queue, losses>>
  BY OpenRun, RowsOf DEF CommitSend, Open
<1>2. /\ workers'[w].pc = "finish" /\ workers'[w].job = workers[w].job
      /\ \A v \in Workers : v # w => workers'[v] = workers[v]
  <2>1. PICK x \in Runs : x = [workers[w] EXCEPT !.pc = "finish", !.write = None]
    BY RunOf DEF Runs
  <2>2. PICK r : r = [x EXCEPT !.defer = 0]
    OBVIOUS
  <2>3. x.pc = "finish" /\ x.job = workers[w].job
    BY <2>1, RunOf DEF Runs
  <2>4. r.pc = "finish" /\ r.job = workers[w].job
    BY <2>2, <2>3 DEF Runs
  <2>5. [workers[w] EXCEPT !.pc = "finish", !.write = None, !.defer = 0] = r
    BY <2>1, <2>2, Zenon
  <2>6. workers' = [workers EXCEPT ![w] = r]
    BY <2>5 DEF CommitSend, Run
  <2>. QED  BY <2>4, <2>6, OtherWorkers
<1>3. \A b \in AttemptIds : attempts'[b] = IF b = a THEN new ELSE attempts[b]
  BY <1>1 DEF IInv, TInv, TypeOK, DbTypeOK
<1>4. Attempts' = Attempts
  BY <1>1, <1>3, DeliveryNoneAssumption DEF Attempts
<1>5. JobIds'
  BY <1>1, <1>2, SameJobs DEF JInv, JobIds
<1>6. ASSUME losses = 0
      PROVE  JobsWait'
  <2>1. \A j, b, time : Waits(j, b, time) /\ j # workers[w].job => Waits(j, b, time)'
    BY <1>1, <1>2 DEF Waits
  <2>2. ASSUME NEW b \in Attempts', attempts'[b].status = "failed"
        PROVE  \E j \in queue : Waits(j, b, attempts[b].retryIn)'
    <3>1. CASE b = a
      <4>1. new.status = "failed" /\ attempts'[b] = new
        BY <1>1, <1>3, <2>2, <3>1
      <4>2. PICK j \in queue : j # workers[w].job /\ Waits(j, a, new.retryIn)
        BY <1>1, <1>6, <4>1 DEF JInv, JobsWait
      <4>. QED  BY <2>1, <3>1, <4>1, <4>2
    <3>2. CASE b # a
      <4>1. b \in Attempts /\ attempts'[b] = attempts[b]
        BY <1>3, <1>4, <2>2, <3>2 DEF Attempts
      <4>2. PICK j \in queue : Waits(j, b, attempts[b].retryIn)
        BY <1>6, <2>2, <4>1 DEF JInv, JobsWait
      <4>3. j # workers[w].job
        BY <3>2, <4>2 DEF Waits
      <4>. QED  BY <2>1, <4>1, <4>2, <4>3
    <3>. QED  BY <3>1, <3>2
  <2>3. ASSUME NEW v \in Workers, workers'[v].pc = "commit", workers'[v].write.status = "failed"
        PROVE  (\E j \in queue : j # workers[v].job
                  /\ Waits(j, workers[v].job.attempt, workers[v].write.retryIn))'
    <3>1. v # w /\ workers'[v] = workers[v]
      BY <1>2, <2>3
    <3>2. workers[v].job.attempt # a
      BY <1>1, <2>3, <3>1 DEF IInv, OneLock, Open
    <3>3. PICK j \in queue : j # workers[v].job
                 /\ Waits(j, workers[v].job.attempt, workers[v].write.retryIn)
      BY <1>6, <2>3, <3>1 DEF JInv, JobsWait
    <3>4. j # workers[w].job
      BY <3>2, <3>3 DEF Waits
    <3>. QED  BY <1>1, <2>1, <3>1, <3>3, <3>4
  <2>. QED  BY <1>1, <2>2, <2>3 DEF JobsWait
<1>. QED  BY <1>1, <1>5, <1>6 DEF JInv, JobsWait

\* An attempt is skipped while another transaction is not at it, and its time
\* has not come or it is settled: the job is not the one it waits for.
LEMMA SkipJobs ==
  ASSUME IInv, JInv, NEW w \in Workers, Skip(w)
  PROVE  JInv'
<1>1. PICK a \in AttemptIds : Starts(w, a) /\ ~Sendable(a)
  BY DEF Skip
<1>2. /\ workers[w].pc = "start" /\ workers[w].job.attempt = a
      /\ UNCHANGED <<attempts, queue, losses>>
  BY <1>1 DEF Skip, Starts, dbVars
<1>3. /\ workers'[w].pc = "finish" /\ workers'[w].job = workers[w].job
      /\ \A v \in Workers : v # w => workers'[v] = workers[v]
  BY RunTo DEF Skip
<1>4. workers[w].job.wait = 0
  BY <1>2, HeldJob
<1>5. JobIds'
  BY <1>2, <1>3, SameJobs DEF JInv, JobIds
<1>6. ASSUME losses = 0
      PROVE  JobsWait'
  <2>1. \A j, b, time : Waits(j, b, time) /\ j # workers[w].job => Waits(j, b, time)'
    BY <1>2, <1>3 DEF Waits
  <2>2. ASSUME NEW b \in Attempts', attempts'[b].status = "failed"
        PROVE  \E j \in queue : Waits(j, b, attempts[b].retryIn)'
    <3>1. b \in Attempts /\ attempts'[b] = attempts[b]
      BY <1>2, <2>2 DEF Attempts
    <3>2. PICK j \in queue : Waits(j, b, attempts[b].retryIn)
      BY <1>6, <2>2, <3>1 DEF JInv, JobsWait
    <3>3. j # workers[w].job
      <4>1. SUFFICES ASSUME j = workers[w].job
                     PROVE  FALSE
        OBVIOUS
      <4>2. b = a /\ attempts[a].retryIn <= 0
        BY <1>2, <1>4, <3>2, <4>1 DEF Waits
      <4>3. attempts[a].retryIn = 0
        BY <3>1, <4>2, RowsOf DEF Rows
      <4>. QED  BY <1>1, <2>2, <3>1, <4>2, <4>3 DEF Sendable
    <3>. QED  BY <2>1, <3>1, <3>2, <3>3
  <2>3. ASSUME NEW v \in Workers, workers'[v].pc = "commit", workers'[v].write.status = "failed"
        PROVE  (\E j \in queue : j # workers[v].job
                  /\ Waits(j, workers[v].job.attempt, workers[v].write.retryIn))'
    <3>1. v # w /\ workers'[v] = workers[v]
      BY <1>3, <2>3
    <3>2. workers[v].job.attempt # a
      BY <1>1, <2>3, <3>1 DEF Starts
    <3>3. PICK j \in queue : j # workers[v].job
                 /\ Waits(j, workers[v].job.attempt, workers[v].write.retryIn)
      BY <1>6, <2>3, <3>1 DEF JInv, JobsWait
    <3>4. j # workers[w].job
      BY <1>2, <3>2, <3>3 DEF Waits
    <3>. QED  BY <1>2, <2>1, <3>1, <3>3, <3>4
  <2>. QED  BY <1>2, <2>2, <2>3 DEF JobsWait
<1>. QED  BY <1>2, <1>5, <1>6 DEF JInv, JobsWait

\* retry_attempt hands what waits for it on to a job that sends.
LEMMA RetryJobs ==
  ASSUME IInv, JInv, NEW w \in Workers, RetryAttempt(w)
  PROVE  JInv'
<1> DEFINE a == workers[w].job.attempt
<1>1. workers[w].pc = "start" /\ UNCHANGED <<attempts, losses>>
  BY DEF RetryAttempt
<1>2. a \in AttemptIds /\ workers[w].job.wait = 0
  BY <1>1, HeldJob
<1>3. PICK k \in Jobs :
        /\ queue' = queue \cup {k} /\ k.attempt = a /\ k.wait = 0 /\ k \notin Held
        /\ \A i, j \in queue' :
             i.kind = j.kind /\ i.attempt = j.attempt /\ i.copy = j.copy => i = j
  BY <1>2, HeldJobs, QueueGrows DEF RetryAttempt, JInv
<1>4. /\ workers'[w].pc = "finish" /\ workers'[w].job = workers[w].job
      /\ \A v \in Workers : v # w => workers'[v] = workers[v]
  BY RunTo DEF RetryAttempt
<1>5. \A v \in Workers : workers[v].pc # "idle" => workers[v].job # k
  BY <1>3, HeldJob
<1>6. JobIds'
  BY <1>1, <1>3, <1>4, SameJobs DEF JInv, JobIds
<1>7. ASSUME losses = 0
      PROVE  JobsWait'
  <2>1. ASSUME NEW j, NEW b, NEW time \in Nat, Waits(j, b, time)
        PROVE  Waits(j, b, time)' \/ (j = workers[w].job /\ Waits(k, b, time)')
    <3>1. CASE j # workers[w].job
      BY <1>3, <1>4, <2>1, <3>1 DEF Waits
    <3>2. CASE j = workers[w].job
      BY <1>1, <1>2, <1>3, <1>4, <1>5, <2>1, <3>2 DEF Waits
    <3>. QED  BY <3>1, <3>2
  <2>2. ASSUME NEW b \in Attempts', attempts'[b].status = "failed"
        PROVE  \E j \in queue' : Waits(j, b, attempts[b].retryIn)'
    <3>1. b \in Attempts /\ attempts'[b] = attempts[b] /\ attempts[b].retryIn \in Nat
      BY <1>1, <2>2, RowsOf DEF Attempts, Rows
    <3>2. PICK j \in queue : Waits(j, b, attempts[b].retryIn)
      BY <1>7, <2>2, <3>1 DEF JInv, JobsWait
    <3>. QED  BY <1>3, <2>1, <3>1, <3>2
  <2>3. ASSUME NEW v \in Workers, workers'[v].pc = "commit", workers'[v].write.status = "failed"
        PROVE  (\E j \in queue : j # workers[v].job
                  /\ Waits(j, workers[v].job.attempt, workers[v].write.retryIn))'
    <3>1. v # w /\ workers'[v] = workers[v]
      BY <1>4, <2>3
    <3>2. workers[v].write.retryIn \in Nat
      BY <2>3, <3>1, OpenRun DEF Open, Rows
    <3>3. PICK j \in queue : j # workers[v].job
                 /\ Waits(j, workers[v].job.attempt, workers[v].write.retryIn)
      BY <1>7, <2>3, <3>1 DEF JInv, JobsWait
    <3>4. k # workers[v].job
      BY <1>5, <2>3, <3>1
    <3>. QED  BY <1>3, <2>1, <3>1, <3>2, <3>3, <3>4
  <2>. QED  BY <2>2, <2>3 DEF JobsWait
<1>. QED  BY <1>1, <1>6, <1>7 DEF JInv, JobsWait

LEMMA WorkerJobs ==
  ASSUME IInv, JInv, NEW w \in Workers, WorkerStep(w) \/ CrashWorker(w) \/ FailJob(w)
  PROVE  JInv'
<1>1. CASE DelayForQuietHours(w) \/ SendSucceeds(w) \/ SendFails(w)
  BY <1>1, DelayTries, SuccessTries, FailureTries, TryJobs
<1>. QED
  BY <1>1, TakeJobs, RetryJobs, SkipJobs, PublishJobs, EnqueueJobs, CommitJobs, FinishJobs, DyingJobs
  DEF WorkerStep, ExecuteSend

-----------------------------------------------------------------------------
(* The other steps.                                                        *)

LEMMA ConsumerJobs ==
  ASSUME IInv, JInv, NEW c \in Consumers, ConsumerStep(c) \/ AbortFanout(c), UNCHANGED executorVars
  PROVE  JInv'
<1>1. workers' = workers /\ losses' = losses
  BY DEF executorVars, ConsumerStep, AbortFanout, Receive, MarkProcessed, CreateAttempt,
         EnqueueSend, CommitFanout, Ack, dbVars
<1>2. /\ queue \subseteq queue'
      /\ \A i, j \in queue' : i.kind = j.kind /\ i.attempt = j.attempt /\ i.copy = j.copy => i = j
  <2>1. CASE EnqueueSend(c)
    <3>1. fanout[c].attempt \in AttemptIds
      BY <2>1 DEF EnqueueSend, IInv, FanoutInv
    <3>2. IsFiniteSet({}) /\ {} \in SUBSET Jobs
      BY FS_EmptySet
    <3>. QED  BY <2>1, <3>1, <3>2, QueueGrows DEF EnqueueSend, JInv
  <2>2. CASE ~EnqueueSend(c)
    <3>1. queue' = queue
      BY <2>2 DEF ConsumerStep, AbortFanout, Receive, MarkProcessed, CreateAttempt,
                  CommitFanout, Ack, dbVars
    <3>. QED  BY <3>1 DEF JInv, JobIds
  <2>. QED  BY <2>1, <2>2
<1>3. \A a \in Attempts' : attempts'[a].status = "failed" =>
        a \in Attempts /\ attempts'[a] = attempts[a]
  <2>1. CASE CommitFanout(c)
    BY <2>1, CommitFanoutStep
  <2>2. CASE ~CommitFanout(c)
    <3>1. attempts' = attempts
      BY <2>2 DEF ConsumerStep, AbortFanout, Receive, MarkProcessed, CreateAttempt,
                  EnqueueSend, Ack, dbVars
    <3>. QED  BY <3>1 DEF Attempts
  <2>. QED  BY <2>1, <2>2
<1>4. JobIds'
  BY <1>1, <1>2, SameJobs DEF JInv
<1>5. JobsWait'
  BY <1>1, <1>2, <1>3, SameWaits DEF JInv
<1>. QED  BY <1>4, <1>5 DEF JInv

LEMMA EnvironmentJobs ==
  ASSUME IInv, JInv, Environment, UNCHANGED <<fanout, executorVars>>
  PROVE  JInv'
<1>1. workers' = workers /\ attempts' = attempts
  BY DEF executorVars, Environment, Announce, RestartRedis
<1>2. CASE queue' = queue /\ losses' = losses
  <2>1. JobIds'
    BY <1>1, <1>2, SameJobs DEF JInv, JobIds
  <2>2. JobsWait'
    BY <1>1, <1>2, SameWaits DEF JInv, Attempts
  <2>. QED  BY <2>1, <2>2 DEF JInv
<1>3. CASE queue' = {} /\ losses' # 0
  <2>1. JobIds'
    BY <1>1, <1>3, SameJobs DEF JInv
  <2>. QED  BY <1>3, <2>1 DEF JInv, JobsWait
<1>4. (queue' = queue /\ losses' = losses) \/ (queue' = {} /\ losses' # 0)
  BY DEF Environment, Announce, RestartRedis, Loss, IInv, TInv, TypeOK, DbTypeOK
<1>. QED  BY <1>2, <1>3, <1>4

\* Jobs and rows come nearer to their time together.
LEMMA TickJobs ==
  ASSUME IInv, JInv, Tick
  PROVE  JInv'
<1>1. /\ queue' = {[j EXCEPT !.wait = Down(@)] : j \in queue}
      /\ losses' = losses /\ queue \in SUBSET Jobs
  BY DEF Tick, IInv, TInv, TypeOK, DbTypeOK
<1>2. PICK next : next = [j \in queue |-> [j EXCEPT !.wait = Down(@)]]
  OBVIOUS
<1>3. ASSUME NEW j \in queue
      PROVE  /\ next[j] \in queue' /\ next[j].kind = j.kind /\ next[j].attempt = j.attempt
             /\ next[j].copy = j.copy /\ next[j].wait = Down(j.wait)
             /\ j.wait \in Nat
             /\ j.wait = 0 => next[j] = j
  <2>1. j \in Jobs /\ next[j] = [j EXCEPT !.wait = Down(@)] /\ next[j] \in queue'
    BY <1>1, <1>2
  <2>2. /\ next[j].kind = j.kind /\ next[j].attempt = j.attempt
        /\ next[j].copy = j.copy /\ next[j].wait = Down(j.wait)
    BY <2>1, DownJob
  <2>3. j.wait = 0 => next[j] = j
    <3>1. SUFFICES ASSUME j.wait = 0
                   PROVE  next[j] = j
      OBVIOUS
    <3>2. Down(j.wait) = j.wait
      BY <3>1 DEF Down
    <3>. QED  BY <2>1, <3>2 DEF Jobs
  <2>. QED  BY <2>1, <2>2, <2>3 DEF Jobs
<1>4. \A k \in queue' : \E j \in queue : k = next[j]
  BY <1>1, <1>2
<1>5. \A w \in Workers : workers'[w].pc = workers[w].pc /\ workers'[w].job = workers[w].job
  BY TickRuns
<1>6. \A i, j \in queue' : i.kind = j.kind /\ i.attempt = j.attempt /\ i.copy = j.copy => i = j
  BY <1>3, <1>4 DEF JInv, JobIds
<1>7. ASSUME losses = 0, NEW w \in Workers, workers[w].pc # "idle"
      PROVE  /\ workers[w].job \in queue'
             /\ \A j \in queue : next[j] = workers[w].job => j = workers[w].job
  <2>1. workers[w].job \in queue /\ workers[w].job.wait = 0
    BY <1>7, HeldJob DEF JInv, JobIds
  <2>2. next[workers[w].job] = workers[w].job
    BY <1>3, <2>1
  <2>. QED  BY <1>3, <2>1, <2>2 DEF JInv, JobIds
<1>8. JobIds'
  BY <1>1, <1>5, <1>6, <1>7, SameJobs DEF JInv
<1>9. ASSUME losses = 0
      PROVE  JobsWait'
  <2>1. ASSUME NEW j \in queue, NEW a, NEW time \in Nat, Waits(j, a, time)
        PROVE  Waits(next[j], a, Down(time))'
    <3>1. next[j] \in queue' /\ next[j].attempt = a
      BY <1>3, <2>1 DEF Waits
    <3>2. Down(time) <= next[j].wait
      BY <1>3, <2>1, DownType DEF Waits
    <3>3. \A v \in Workers : workers[v].pc = "finish" => workers[v].job # next[j]
      BY <1>7, <1>9, <2>1 DEF Waits
    <3>4. \A n : Down(n)' = Down(n)
      BY DEF Down
    <3>. QED  BY <1>5, <3>1, <3>2, <3>3, <3>4 DEF Waits
  <2>2. ASSUME NEW a \in Attempts', attempts'[a].status = "failed"
        PROVE  (\E j \in queue : Waits(j, a, attempts[a].retryIn))'
    <3>1. /\ a \in Attempts /\ attempts[a].status = "failed" /\ attempts[a].retryIn \in Nat
          /\ attempts'[a].retryIn = Down(attempts[a].retryIn)
      BY <2>2, TickRows, RowsOf DEF SameAttempts, Rows
    <3>2. PICK j \in queue : Waits(j, a, attempts[a].retryIn)
      BY <1>9, <3>1 DEF JInv, JobsWait
    <3>3. next[j] \in queue'
      BY <1>3
    <3>. QED  BY <2>1, <3>1, <3>2, <3>3 DEF Waits
  <2>3. ASSUME NEW w \in Workers, workers'[w].pc = "commit", workers'[w].write.status = "failed"
        PROVE  (\E j \in queue : j # workers[w].job
                  /\ Waits(j, workers[w].job.attempt, workers[w].write.retryIn))'
    <3>1. /\ workers[w].pc = "commit" /\ workers[w].write.status = "failed"
          /\ workers[w].write.retryIn \in Nat
          /\ workers'[w].write.retryIn = Down(workers[w].write.retryIn)
      BY <2>3, OpenRun, TickRuns DEF Open, Rows
    <3>2. PICK j \in queue : j # workers[w].job
                 /\ Waits(j, workers[w].job.attempt, workers[w].write.retryIn)
      BY <1>9, <3>1 DEF JInv, JobsWait
    <3>3. next[j] # workers[w].job
      BY <1>7, <1>9, <3>1, <3>2
    <3>. QED  BY <1>3, <1>5, <2>1, <3>1, <3>2, <3>3 DEF Waits
  <2>. QED  BY <2>2, <2>3 DEF JobsWait
<1>. QED  BY <1>1, <1>8, <1>9 DEF JInv, JobsWait

-----------------------------------------------------------------------------
(* The invariant holds.                                                    *)

LEMMA JobsInitially ==
  Init => JInv
<1> SUFFICES ASSUME Init
             PROVE  JInv
  OBVIOUS
<1>1. queue = {} /\ Attempts = {} /\ \A w \in Workers : workers[w].pc = "idle"
  BY DEF Init, DbInit, Attempts, ExecutorInit, NoRun
<1>. QED  BY <1>1 DEF JInv, JobIds, JobsWait

LEMMA JobsInductive ==
  IInv /\ JInv /\ [Next]_vars => JInv'
<1> SUFFICES ASSUME IInv, JInv, [Next]_vars
             PROVE  JInv'
  OBVIOUS
<1>1. CASE UNCHANGED vars
  <2>1. UNCHANGED <<attempts, queue, losses, workers>>
    BY <1>1 DEF vars, dbVars, executorVars
  <2>2. JobIds'
    BY <2>1 DEF JInv, JobIds
  <2>3. JobsWait'
    BY <2>1, SameWaits DEF JInv, Attempts
  <2>. QED  BY <2>2, <2>3 DEF JInv
<1>2. CASE Next
  BY <1>2, ConsumerJobs, WorkerJobs, EnvironmentJobs, TickJobs
  DEF Next, ConsumerNext, WorkerNext
<1>. QED  BY <1>1, <1>2

\* While no job is lost, an attempt that failed or was put off has a job in the
\* queue that runs no sooner than its time: it is not forgotten, and the job is
\* not dropped for having come too soon.
THEOREM RetriesAreQueuedHolds ==
  Spec => []RetriesAreQueued
<1>1. Spec => []JInv
  BY JobsInitially, JobsInductive, Invariance, PTL DEF Spec
<1>2. JInv => RetriesAreQueued
  BY DEF JInv, JobsWait, Waits, RetriesAreQueued
<1>. QED  BY <1>1, <1>2, PTL
===============================================================================

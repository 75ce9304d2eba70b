------------------------ MODULE NotificationsScheduler ------------------------
(***************************************************************************)
(* The notifications-scheduler processes. SchedulerLoop runs a tick, waits *)
(* and runs the next, whatever came of the one before. A tick is one       *)
(* transaction: it locks a batch of due notifications (skipping the rows   *)
(* another scheduler has locked), marks them queued and writes an outbox   *)
(* event for each.                                                         *)
(***************************************************************************)
EXTENDS NotificationsDb

CONSTANT SchedulerBatch    \* scheduler_batch_size

ASSUME SchedulerBatchAssumption == SchedulerBatch \in Nat

VARIABLE tick              \* each scheduler's transaction

SchedulerTypeOK ==
    tick \in [Schedulers -> [pc : {"idle", "locked", "marked"}, queued : SUBSET Ids]]

NoTick == [pc |-> "idle", queued |-> {}]

SchedulerInit == tick = [s \in Schedulers |-> NoTick]

\* Mutant of Due: without scheduled_at <= now().
DueAtAnyTime == {n \in Stored : notes[n].status = "scheduled"}

\* WHERE status = 'scheduled' AND scheduled_at <= now()
Due == {n \in Stored : notes[n].status = "scheduled" /\ notes[n].scheduledAt <= now}

\* Mutant of LockDue: without FOR UPDATE SKIP LOCKED.
LockDueShared(s) ==
    /\ tick[s].pc = "idle"
    /\ \E due \in Batches(Due, SchedulerBatch, [n \in Due |-> notes[n].scheduledAt]) :
         /\ due # {}
         /\ locked' = [locked EXCEPT ![s] = due]
    /\ tick' = [tick EXCEPT ![s] = [pc |-> "locked", queued |-> {}]]
    /\ UNCHANGED <<notes, outbox, stream, now, faults>>

\* lock_due_scheduled_batch. A tick that finds nothing to lock changes nothing.
LockDue(s) ==
    /\ tick[s].pc = "idle"
    /\ \E batch \in Batches({n \in Due : ~RowLocked(n)}, SchedulerBatch,
                            [n \in Due |-> notes[n].scheduledAt]) :
         /\ batch # {}
         /\ locked' = [locked EXCEPT ![s] = batch]
    /\ tick' = [tick EXCEPT ![s] = [pc |-> "locked", queued |-> {}]]
    /\ UNCHANGED <<notes, outbox, stream, now, faults>>

\* mark_queued_by_ids: the rows its UPDATE returns are the ones still scheduled.
MarkQueued(s) ==
    /\ tick[s].pc = "locked"
    /\ tick' = [tick EXCEPT ![s] =
         [pc |-> "marked",
          queued |-> {n \in locked[s] : notes[n].status = "scheduled"}]]
    /\ UNCHANGED dbVars

\* One create_event per row returned, each with an id of its own; then the
\* transaction commits its writes and lets the locks go.
CommitTick(s) ==
    /\ tick[s].pc = "marked"
    /\ \E id \in [tick[s].queued -> EventIds \ Events] :
         /\ \A m, n \in tick[s].queued : id[m] = id[n] => m = n
         /\ outbox' = [e \in EventIds |->
              IF \E n \in tick[s].queued : id[n] = e
                THEN NewEvent(CHOOSE n \in tick[s].queued : id[n] = e)
                ELSE outbox[e]]
    /\ notes' = [n \in Ids |-> IF n \in tick[s].queued
                                 THEN [notes[n] EXCEPT !.status = "queued"]
                                 ELSE notes[n]]
    /\ locked' = [locked EXCEPT ![s] = {}]
    /\ tick' = [tick EXCEPT ![s] = NoTick]
    /\ UNCHANGED <<stream, now, faults>>

\* Mutant of AbortTick: a connection that keeps its transaction open.
AbortTickLeaky(s) ==
    /\ tick[s].pc # "idle"
    /\ tick' = [tick EXCEPT ![s] = NoTick]
    /\ Fault
    /\ UNCHANGED <<notes, outbox, locked, stream, now>>

\* The process dies or a statement fails: run_forever catches what is raised,
\* the transaction has rolled back, and a later tick starts over.
AbortTick(s) ==
    /\ tick[s].pc # "idle"
    /\ locked' = [locked EXCEPT ![s] = {}]
    /\ tick' = [tick EXCEPT ![s] = NoTick]
    /\ Fault
    /\ UNCHANGED <<notes, outbox, stream, now>>

SchedulerStep(s) == LockDue(s) \/ MarkQueued(s) \/ CommitTick(s)

SchedulerNext == \E s \in Schedulers : SchedulerStep(s) \/ AbortTick(s)
=============================================================================

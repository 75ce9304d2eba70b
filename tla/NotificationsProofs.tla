------------------------- MODULE NotificationsProofs -------------------------
(***************************************************************************)
(* Proofs about Notifications, for any number of requests, schedulers and  *)
(* publishers, any batch limits, and any number of notifications, keys,    *)
(* users and faults.                                                       *)
(***************************************************************************)
EXTENDS Notifications, TLAPS

-----------------------------------------------------------------------------
(* The inductive invariant.                                                *)

\* What a handler carries between its steps: an id it has drawn is no row's
\* and no other handler's; the row it is about to insert meets its time; the
\* key it has inserted is no row's and no other open transaction's.
Creating == {"insert", "commit", "duplicate"}

HandlerInv ==
    \A h \in Handlers :
        /\ api[h].pc # "idle" => api[h].user \in Users
        /\ api[h].pc \in Creating =>
             /\ api[h].note \in Ids \ Stored
             /\ \A g \in Handlers \ {h} : api[g].note # api[h].note
        /\ api[h].pc \in {"cancel", "cancelling", "respond"} => api[h].note \in Stored
        /\ api[h].pc \in {"insert", "commit"} /\ api[h].status = "created" =>
             (api[h].at = None \/ api[h].at <= now)
        /\ api[h].pc \in {"insert", "commit"} /\ api[h].status = "scheduled" =>
             api[h].at \in Times

KeyOf(n, user, key) ==
    n \in Stored /\ notes[n].owner = user /\ notes[n].key = key

KeyFree(h) ==
    api[h].pc = "commit" /\ api[h].key # None =>
      /\ \A n \in Ids : ~KeyOf(n, api[h].user, api[h].key)
      /\ ~KeyTaken(h)

KeyStored(h) ==
    api[h].pc = "respond" /\ api[h].key # None =>
      KeyOf(api[h].note, api[h].user, api[h].key)

KeyInv ==
    /\ \A h \in Handlers : KeyFree(h) /\ KeyStored(h)
    /\ \A a \in answers : KeyOf(a.note, a.user, a.key)

\* Row locks are exclusive, and a locked row stays scheduled and due.
LockInv ==
    \A s \in Schedulers :
        /\ tick[s].queued \subseteq locked[s]
        /\ tick[s].pc = "idle" => locked[s] = {}
        /\ \A n \in locked[s] :
             /\ n \in Stored
             /\ notes[n].status = "scheduled"
             /\ notes[n].scheduledAt <= now
             /\ \A t \in Schedulers \ {s} : n \notin locked[t]

\* The parts of OneEventEach, and that no notification is early.
EventInv ==
    /\ \A e \in Events :
         /\ outbox[e].note \in Stored
         /\ notes[outbox[e].note].status \in {"created", "queued"}
         /\ \A f \in Events : outbox[f].note = outbox[e].note => f = e
    /\ \A n \in Stored : notes[n].status \in {"created", "queued"} =>
         /\ \E e \in Events : outbox[e].note = n
         /\ notes[n].scheduledAt = None \/ notes[n].scheduledAt <= now
    /\ \A n \in Stored : notes[n].status = "scheduled" => notes[n].scheduledAt \in Times

\* Row locks on events are exclusive, and a locked event stays unpublished; what
\* a publisher marks as sent is in the stream, and is a committed event.
BatchInv ==
    /\ \A p \in Publishers :
         /\ \A e \in batch[p].held :
              /\ e \in Events
              /\ ~outbox[e].published
              /\ \A q \in Publishers \ {p} : e \notin batch[q].held
         /\ batch[p].todo \subseteq batch[p].held
         /\ batch[p].failed \subseteq batch[p].held
         /\ \A e \in batch[p].sent : e \in batch[p].held /\ stream[e] > 0
         /\ batch[p].pc = "mark" => batch[p].event \in batch[p].held /\ stream[batch[p].event] > 0
         /\ batch[p].pc = "markFailed" => batch[p].event \in batch[p].held
    /\ \A e \in EventIds : stream[e] > 0 => e \in Events

IInv ==
    /\ TypeOK
    /\ HandlerInv
    /\ KeyInv
    /\ DuplicateHasRow
    /\ OneRowPerKey
    /\ LockInv
    /\ EventInv
    /\ BatchInv
    /\ PublishedIsStored

-----------------------------------------------------------------------------
(* Type correctness. It leans on HandlerInv: the row a handler inserts has *)
(* an owner and an id because the handler has not been idle.               *)

LEMMA InitIInv == Init => IInv
<1> USE BoundsAssumption DEF Init, DbInit, ApiInit, SchedulerInit, PublisherInit,
        Stored, Events, Idle, NoTick, NoBatch
<1>1. Init => TypeOK
  BY NoneAssumption DEF TypeOK, DbTypeOK, ApiTypeOK, SchedulerTypeOK, PublisherTypeOK,
     Times, Requests, Pcs, Transactions
<1>2. Init => HandlerInv /\ KeyInv /\ DuplicateHasRow /\ OneRowPerKey
  BY DEF HandlerInv, Creating, KeyInv, KeyFree, KeyStored, DuplicateHasRow, OneRowPerKey
<1>3. Init => LockInv /\ EventInv
  BY DEF LockInv, EventInv
<1>4. Init => BatchInv /\ PublishedIsStored
  BY DEF BatchInv, PublishedIsStored
<1> QED BY <1>1, <1>2, <1>3, <1>4 DEF IInv

LEMMA BecomeType ==
    ASSUME ApiTypeOK, NEW h \in Handlers, NEW r \in Requests, Become(h, r)
    PROVE  api' \in [Handlers -> Requests]
BY DEF ApiTypeOK, Become

LEMMA ContinueType ==
    ASSUME PublisherTypeOK, NEW p \in Publishers, NEW tx \in Transactions, Continue(p, tx)
    PROVE  PublisherTypeOK'
BY DEF PublisherTypeOK, Continue

LEMMA NullTypes == Idle \in Requests /\ NoBatch \in Transactions
BY DEF Idle, Requests, Pcs, NoBatch, Transactions

LEMMA UnchangedTables ==
    ASSUME DbTypeOK, UNCHANGED <<notes, outbox, locked, stream, now>>,
           faults' = faults \/ Fault
    PROVE  DbTypeOK'
<1>1. faults' \in 0 .. MaxFaults
  BY BoundsAssumption DEF DbTypeOK, Fault
<1> QED BY <1>1 DEF DbTypeOK

\* Each field of a request, of a transaction and of a row.
LEMMA Fields ==
    /\ \A h \in Handlers : ApiTypeOK =>
         /\ api[h] \in Requests
         /\ api[h].user \in Users \cup {None}
         /\ api[h].key \in Keys \cup {None}
         /\ api[h].at \in Times \cup {None}
         /\ api[h].status \in {"created", "scheduled"}
    /\ \A p \in Publishers : PublisherTypeOK =>
         /\ batch[p] \in Transactions
         /\ batch[p].held \subseteq EventIds
         /\ batch[p].todo \subseteq EventIds
         /\ batch[p].event \in EventIds \cup {None}
    /\ \A n \in Stored : DbTypeOK => n \in Ids /\ notes[n] \in NoteRows
    /\ \A e \in Events : DbTypeOK => e \in EventIds /\ outbox[e] \in EventRows
<1>1. ASSUME NEW r \in Requests
      PROVE  /\ r.user \in Users \cup {None}
             /\ r.key \in Keys \cup {None}
             /\ r.at \in Times \cup {None}
             /\ r.status \in {"created", "scheduled"}
  BY DEF Requests
<1>2. ASSUME NEW tx \in Transactions
      PROVE  tx.held \subseteq EventIds /\ tx.todo \subseteq EventIds /\ tx.event \in EventIds \cup {None}
  BY DEF Transactions
<1>3. \A n \in Stored : DbTypeOK => n \in Ids /\ notes[n] \in NoteRows
  BY DEF Stored, DbTypeOK
<1>4. \A e \in Events : DbTypeOK => e \in EventIds /\ outbox[e] \in EventRows
  BY DEF Events, DbTypeOK
<1> QED BY <1>1, <1>2, <1>3, <1>4 DEF ApiTypeOK, PublisherTypeOK

LEMMA ApiTypeStep ==
    ASSUME DbTypeOK, ApiTypeOK, HandlerInv, ApiNext
    PROVE  DbTypeOK' /\ ApiTypeOK'
<1>1. PICK h \in Handlers :
        \/ ReceiveCreate(h) \/ CheckKey(h) \/ Insert(h) \/ Commit(h)
        \/ Respond(h) \/ Reread(h)
        \/ ReceiveCancel(h) \/ ReadForCancel(h) \/ CancelIfScheduled(h)
        \/ AbortHandler(h)
  BY DEF ApiNext
<1>2. /\ api[h] \in Requests
      /\ api[h].status \in {"created", "scheduled"}
      /\ api[h].key \in Keys \cup {None}
      /\ api[h].at \in Times \cup {None}
      /\ answers \subseteq Answers
  BY Fields DEF ApiTypeOK
<1>3. \A pc \in Pcs : [api[h] EXCEPT !.pc = pc] \in Requests
  BY <1>2 DEF Requests
<1>4. ASSUME NEW found \in SUBSET Stored, NEW new \in BOOLEAN, api[h].pc # "idle"
      PROVE  Answered(h, found, new) \subseteq Answers
  BY <1>2, <1>4 DEF Answered, Answers, HandlerInv, Stored
<1>5. WithKey(api[h].user, api[h].key) \subseteq Stored
  BY DEF WithKey
<1>6. ASSUME UNCHANGED <<notes, outbox, locked, stream, now, answers>>,
             faults' = faults \/ Fault,
             NEW r \in Requests, Become(h, r)
      PROVE  DbTypeOK' /\ ApiTypeOK'
  BY <1>2, <1>6, BecomeType, UnchangedTables DEF ApiTypeOK
<1>7. CASE ReceiveCreate(h)
  <2>1. PICK u \in Users, k \in Keys \cup {None}, t \in Times \cup {None} :
          Become(h, [api[h] EXCEPT !.pc = "create", !.user = u, !.key = k, !.at = t])
    BY <1>7 DEF ReceiveCreate
  <2>2. [api[h] EXCEPT !.pc = "create", !.user = u, !.key = k, !.at = t] \in Requests
    BY <1>2 DEF Requests, Pcs
  <2> QED BY <1>6, <1>7, <2>1, <2>2 DEF ReceiveCreate, dbVars
<1>8. CASE CheckKey(h)
  <2>1. CASE UNCHANGED answers
    <3>1. PICK r \in Requests : Become(h, r)
      <4>1. CASE Done(h)
        BY <4>1, NullTypes DEF Done
      <4>2. CASE ~ Done(h)
        <5>1. PICK n \in FreshIds : 
                Become(h, [api[h] EXCEPT !.pc = "insert", !.note = n,
                    !.status = IF Immediate(api[h].at) THEN "created" ELSE "scheduled"])
          BY <1>8, <4>2 DEF CheckKey
        <5>2. [api[h] EXCEPT !.pc = "insert", !.note = n,
                    !.status = IF Immediate(api[h].at) THEN "created" ELSE "scheduled"] \in Requests
          BY <1>2 DEF Requests, Pcs, FreshIds
        <5> QED BY <5>1, <5>2
      <4> QED BY <4>1, <4>2
    <3> QED BY <1>6, <1>8, <2>1, <3>1 DEF CheckKey, dbVars
  <2>2. CASE ~ UNCHANGED answers
    <3>1. /\ answers' = answers \cup Answered(h, WithKey(api[h].user, api[h].key), FALSE)
          /\ Done(h)
          /\ api[h].pc # "idle"
          /\ UNCHANGED dbVars
      BY <1>8, <2>2 DEF CheckKey, Answered
    <3> QED BY <1>2, <1>4, <1>5, <3>1, BecomeType, NullTypes, UnchangedTables
            DEF Done, dbVars, ApiTypeOK
  <2> QED BY <2>1, <2>2
<1>9. CASE Insert(h)
  <2>1. PICK r \in Requests : Become(h, r)
    BY <1>3, <1>9 DEF Insert, Goto, Pcs
  <2> QED BY <1>6, <1>9, <2>1 DEF Insert, dbVars
<1>10. CASE Commit(h)
  <2>1. /\ api[h].user \in Users /\ api[h].note \in Ids
        /\ api[h].pc = "commit"
    BY <1>10 DEF Commit, HandlerInv, Creating
  <2>2. [owner |-> api[h].user, key |-> api[h].key,
         scheduledAt |-> api[h].at, status |-> api[h].status] \in NoteRows
    BY <1>2, <2>1 DEF NoteRows, Statuses
  <2>3. notes' \in [Ids -> NoteRows \cup {None}]
    BY <1>10, <2>1, <2>2 DEF Commit, DbTypeOK
  <2>4. NewEvent(api[h].note) \in EventRows
    BY <2>1 DEF NewEvent, EventRows, DbTypeOK
  <2>5. outbox' \in [EventIds -> EventRows \cup {None}]
    BY <1>10, <2>4 DEF Commit, DbTypeOK
  <2>6. api' \in [Handlers -> Requests]
    BY <1>3, <1>10, BecomeType DEF Commit, Goto, Pcs
  <2> QED BY <1>2, <1>10, <2>3, <2>5, <2>6 DEF Commit, DbTypeOK, ApiTypeOK
<1>11. CASE Respond(h)
  <2>1. api[h].note \in Stored /\ api[h].pc # "idle"
    BY <1>11 DEF Respond, HandlerInv
  <2> QED BY <1>2, <1>4, <1>11, <2>1, BecomeType, NullTypes, UnchangedTables
          DEF Respond, Done, dbVars, ApiTypeOK
<1>12. CASE Reread(h)
  BY <1>2, <1>4, <1>5, <1>12, BecomeType, NullTypes, UnchangedTables
     DEF Reread, Done, dbVars, ApiTypeOK
<1>13. CASE ReceiveCancel(h)
  <2>1. PICK u \in Users, n \in Stored :
          Become(h, [api[h] EXCEPT !.pc = "cancel", !.user = u, !.note = n])
    BY <1>13 DEF ReceiveCancel
  <2>2. [api[h] EXCEPT !.pc = "cancel", !.user = u, !.note = n] \in Requests
    BY <1>2 DEF Requests, Pcs, Stored
  <2> QED BY <1>6, <1>13, <2>1, <2>2 DEF ReceiveCancel, dbVars
<1>14. CASE ReadForCancel(h)
  <2>1. PICK r \in Requests : Become(h, r)
    BY <1>3, <1>14, NullTypes DEF ReadForCancel, Goto, Done, Pcs
  <2> QED BY <1>6, <1>14, <2>1 DEF ReadForCancel, dbVars
<1>15. CASE CancelIfScheduled(h)
  <2>1. api[h].note \in Ids /\ notes[api[h].note] \in NoteRows
    BY <1>15, Fields DEF CancelIfScheduled, HandlerInv
  <2>2. [notes[api[h].note] EXCEPT !.status = "cancelled"] \in NoteRows
    BY <2>1 DEF NoteRows, Statuses
  <2>3. notes' \in [Ids -> NoteRows \cup {None}]
    BY <1>15, <2>1, <2>2 DEF CancelIfScheduled, DbTypeOK
  <2> QED BY <1>2, <1>15, <2>3, BecomeType, NullTypes
          DEF CancelIfScheduled, Done, DbTypeOK, ApiTypeOK
<1>16. CASE AbortHandler(h)
  BY <1>6, <1>16, NullTypes DEF AbortHandler, Done
<1> QED BY <1>1, <1>7, <1>8, <1>9, <1>10, <1>11, <1>12, <1>13, <1>14, <1>15, <1>16

LEMMA SchedulerTypeStep ==
    ASSUME DbTypeOK, SchedulerTypeOK, LockInv, SchedulerNext
    PROVE  DbTypeOK' /\ SchedulerTypeOK'
<1>1. PICK s \in Schedulers : LockDue(s) \/ MarkQueued(s) \/ CommitTick(s) \/ AbortTick(s)
  BY DEF SchedulerNext, SchedulerStep
<1>2. CASE LockDue(s)
  BY <1>2 DEF LockDue, Batches, Due, Stored, DbTypeOK, SchedulerTypeOK
<1>3. CASE MarkQueued(s)
  <2>1. SchedulerTypeOK'
    BY <1>3 DEF MarkQueued, DbTypeOK, SchedulerTypeOK
  <2> QED BY <1>3, <2>1, UnchangedTables DEF MarkQueued, dbVars
<1>4. CASE CommitTick(s)
  <2>1. ASSUME NEW n \in tick[s].queued
        PROVE  n \in Ids /\ [notes[n] EXCEPT !.status = "queued"] \in NoteRows
    <3>1. n \in Ids /\ notes[n] \in NoteRows
      BY Fields DEF LockInv
    <3> QED BY <3>1 DEF NoteRows, Statuses
  <2>2. notes' \in [Ids -> NoteRows \cup {None}]
    BY <1>4, <2>1 DEF CommitTick, DbTypeOK
  <2>3. \A n \in Ids : NewEvent(n) \in EventRows
    BY DEF NewEvent, EventRows, DbTypeOK
  <2>4. outbox' \in [EventIds -> EventRows \cup {None}]
    <3>1. PICK id \in [tick[s].queued -> EventIds \ Events] :
            outbox' = [e \in EventIds |->
              IF \E n \in tick[s].queued : id[n] = e
                THEN NewEvent(CHOOSE n \in tick[s].queued : id[n] = e)
                ELSE outbox[e]]
      BY <1>4 DEF CommitTick
    <3>2. ASSUME NEW e \in EventIds
          PROVE  (IF \E n \in tick[s].queued : id[n] = e
                    THEN NewEvent(CHOOSE n \in tick[s].queued : id[n] = e)
                    ELSE outbox[e]) \in EventRows \cup {None}
      <4>1. CASE \E n \in tick[s].queued : id[n] = e
        <5>1. (CHOOSE n \in tick[s].queued : id[n] = e) \in Ids
          BY <2>1, <4>1
        <5> QED BY <2>3, <4>1, <5>1
      <4>2. CASE ~ \E n \in tick[s].queued : id[n] = e
        BY <4>2 DEF DbTypeOK
      <4> QED BY <4>1, <4>2
    <3> QED BY <3>1, <3>2
  <2> QED BY <1>4, <2>2, <2>4 DEF CommitTick, NoTick, DbTypeOK, SchedulerTypeOK
<1>5. CASE AbortTick(s)
  BY <1>5, BoundsAssumption DEF AbortTick, Fault, NoTick, DbTypeOK, SchedulerTypeOK
<1> QED BY <1>1, <1>2, <1>3, <1>4, <1>5

LEMMA PublisherTypeStep ==
    ASSUME DbTypeOK, PublisherTypeOK, BatchInv, PublisherNext
    PROVE  DbTypeOK' /\ PublisherTypeOK'
<1>1. PICK p \in Publishers :
        \/ LockUnpublished(p) \/ Publish(p) \/ MarkPublished(p) \/ MarkFailed(p)
        \/ CommitBatch(p) \/ PublishFails(p) \/ AbortBatch(p)
  BY DEF PublisherNext, PublisherStep
<1>2. batch[p] \in Transactions
  BY DEF PublisherTypeOK
<1>3. CASE LockUnpublished(p)
  <2>1. PICK b \in SUBSET EventIds :
          Continue(p, [NoBatch EXCEPT !.pc = "publish", !.held = b, !.todo = b])
    BY <1>3 DEF LockUnpublished, Batches, Unpublished, Events
  <2>2. [NoBatch EXCEPT !.pc = "publish", !.held = b, !.todo = b] \in Transactions
    BY NullTypes DEF Transactions
  <2> QED BY <1>3, <2>1, <2>2, ContinueType, UnchangedTables DEF LockUnpublished, dbVars
<1>4. ASSUME NEW pc \in {"mark", "markFailed"}, NEW e \in NextEvent(p)
      PROVE  /\ e \in EventIds
             /\ [batch[p] EXCEPT !.pc = pc, !.event = e, !.todo = @ \ {e}] \in Transactions
  BY <1>2 DEF Transactions, NextEvent
<1>5. CASE Publish(p)
  <2>1. PICK e \in NextEvent(p) :
          /\ stream' = [stream EXCEPT ![e] = @ + 1]
          /\ Continue(p, [batch[p] EXCEPT !.pc = "mark", !.event = e, !.todo = @ \ {e}])
    BY <1>5 DEF Publish
  <2>2. PublisherTypeOK'
    BY <1>4, <2>1, ContinueType
  <2>3. stream' \in [EventIds -> Nat]
    <3>1. e \in EventIds /\ stream[e] \in Nat
      BY <1>4 DEF DbTypeOK
    <3> QED BY <2>1, <3>1 DEF DbTypeOK
  <2> QED BY <1>5, <2>2, <2>3 DEF Publish, DbTypeOK
<1>6. CASE PublishFails(p)
  <2>1. PICK e \in NextEvent(p) :
          /\ UNCHANGED stream \/ stream' = [stream EXCEPT ![e] = @ + 1]
          /\ Continue(p, [batch[p] EXCEPT !.pc = "markFailed", !.event = e, !.todo = @ \ {e}])
    BY <1>6 DEF PublishFails
  <2>2. faults' \in 0 .. MaxFaults
    BY <1>6, BoundsAssumption DEF PublishFails, Fault, DbTypeOK
  <2>3. PublisherTypeOK'
    BY <1>4, <2>1, ContinueType
  <2>4. stream' \in [EventIds -> Nat]
    <3>1. e \in EventIds /\ stream[e] \in Nat
      BY <1>4 DEF DbTypeOK
    <3> QED BY <2>1, <3>1 DEF DbTypeOK
  <2> QED BY <1>6, <2>2, <2>3, <2>4 DEF PublishFails, DbTypeOK
<1>7. CASE MarkPublished(p)
  <2>1. [batch[p] EXCEPT !.pc = "publish", !.event = None,
                         !.sent = @ \cup {batch[p].event}] \in Transactions
    <3>1. batch[p].event \in EventIds
      BY <1>7 DEF MarkPublished, BatchInv, Events
    <3> QED BY <1>2, <3>1 DEF Transactions
  <2> QED BY <1>7, <2>1, ContinueType, UnchangedTables DEF MarkPublished, dbVars
<1>8. CASE MarkFailed(p)
  <2>1. [batch[p] EXCEPT !.pc = "publish", !.event = None,
                         !.failed = @ \cup {batch[p].event}] \in Transactions
    <3>1. batch[p].event \in EventIds
      BY <1>8 DEF MarkFailed, BatchInv, Events
    <3> QED BY <1>2, <3>1 DEF Transactions
  <2> QED BY <1>8, <2>1, ContinueType, UnchangedTables DEF MarkFailed, dbVars
<1>9. CASE CommitBatch(p)
  <2>1. outbox' \in [EventIds -> EventRows \cup {None}]
    <3>1. \A e \in batch[p].sent \cup batch[p].failed : outbox[e] \in EventRows
      BY Fields DEF BatchInv
    <3>2. ASSUME NEW row \in EventRows, NEW sent \in BOOLEAN
          PROVE  [row EXCEPT !.published = @ \/ sent, !.failed = ~sent] \in EventRows
      BY DEF EventRows
    <3> QED BY <1>9, <3>1, <3>2 DEF CommitBatch, DbTypeOK
  <2> QED BY <1>9, <2>1, NullTypes, ContinueType DEF CommitBatch, DbTypeOK
<1>10. CASE AbortBatch(p)
  BY <1>10, NullTypes, ContinueType, UnchangedTables DEF AbortBatch
<1> QED BY <1>1, <1>3, <1>5, <1>6, <1>7, <1>8, <1>9, <1>10

LEMMA TypeStep == IInv /\ [Next]_vars => TypeOK'
<1> SUFFICES ASSUME IInv, [Next]_vars PROVE TypeOK'
  OBVIOUS
<1> USE DEF IInv, TypeOK
<1>1. CASE ApiNext /\ UNCHANGED <<tick, batch>>
  BY <1>1, ApiTypeStep DEF SchedulerTypeOK, PublisherTypeOK
<1>2. CASE SchedulerNext /\ UNCHANGED <<apiVars, batch>>
  BY <1>2, SchedulerTypeStep DEF ApiTypeOK, PublisherTypeOK, apiVars
<1>3. CASE PublisherNext /\ UNCHANGED <<apiVars, tick>>
  BY <1>3, PublisherTypeStep DEF ApiTypeOK, SchedulerTypeOK, apiVars
<1>4. CASE Tick /\ UNCHANGED <<apiVars, tick, batch>>
  <2>1. now' \in Times
    BY <1>4, BoundsAssumption DEF Tick, Times, DbTypeOK
  <2> QED BY <1>4, <2>1 DEF Tick, apiVars, DbTypeOK, ApiTypeOK, SchedulerTypeOK, PublisherTypeOK
<1>5. CASE UNCHANGED vars
  BY <1>5, UnchangedTables
     DEF vars, dbVars, apiVars, ApiTypeOK, SchedulerTypeOK, PublisherTypeOK
<1> QED BY <1>1, <1>2, <1>3, <1>4, <1>5 DEF Next

-----------------------------------------------------------------------------
(* What a step leaves of the tables.                                       *)

\* The steps of a handler that write neither table.
LEMMA QuietHandlers ==
    ASSUME ApiNext
    PROVE  \/ \E h \in Handlers : Commit(h) \/ CancelIfScheduled(h)
           \/ UNCHANGED <<notes, outbox, locked, stream, now>>
BY DEF ApiNext, ReceiveCreate, CheckKey, Insert, Respond, Reread, ReceiveCancel,
       ReadForCancel, AbortHandler, dbVars

LEMMA QuietSchedulers ==
    ASSUME SchedulerNext
    PROVE  \/ \E s \in Schedulers : CommitTick(s)
           \/ UNCHANGED <<notes, outbox, stream, now>>
BY DEF SchedulerNext, SchedulerStep, LockDue, MarkQueued, AbortTick, dbVars

LEMMA QuietPublishers ==
    ASSUME PublisherNext
    PROVE  \/ \E p \in Publishers : CommitBatch(p)
           \/ UNCHANGED <<notes, outbox, locked, now>>
BY DEF PublisherNext, PublisherStep, LockUnpublished, Publish, PublishFails, MarkPublished,
       MarkFailed, AbortBatch, dbVars

\* The step of History: rows stay, and of a row only what History allows changes.
TablesStay ==
    /\ \A n \in Stored :
         /\ notes'[n] # None
         /\ notes'[n] # notes[n] =>
              /\ notes[n].status = "scheduled"
              /\ notes'[n] \in {[notes[n] EXCEPT !.status = s] : s \in {"queued", "cancelled"}}
    /\ \A e \in Events :
         /\ outbox'[e] # None
         /\ outbox'[e].note = outbox[e].note
         /\ outbox[e].published => outbox'[e] = outbox[e]

LEMMA HistoryStep == IInv /\ [Next]_vars => TablesStay
<1> SUFFICES ASSUME IInv, [Next]_vars PROVE TablesStay
  OBVIOUS
<1>1. /\ \A n \in Stored : notes[n] \in NoteRows /\ n \in Ids /\ notes[n] # None
      /\ \A e \in Events : outbox[e] \in EventRows /\ e \in EventIds /\ outbox[e] # None
  BY Fields, NoneAssumption DEF IInv, TypeOK
<1>2. ASSUME NEW row \in NoteRows, NEW st \in {"queued", "cancelled"}
      PROVE  [row EXCEPT !.status = st] \in NoteRows
  BY DEF NoteRows, Statuses
<1>3. CASE UNCHANGED <<notes, outbox>>
  BY <1>1, <1>3 DEF TablesStay
<1>4. ASSUME NEW h \in Handlers, Commit(h)
      PROVE  TablesStay
  <2>1. api[h].note \in Ids \ Stored
    BY <1>4 DEF Commit, IInv, HandlerInv, Creating
  <2>2. \A n \in Stored : notes'[n] = notes[n]
    BY <1>1, <1>4, <2>1 DEF Commit, IInv, TypeOK, DbTypeOK
  <2>3. \A e \in Events : outbox'[e] = outbox[e]
    BY <1>1, <1>4 DEF Commit, IInv, TypeOK, DbTypeOK
  <2> QED BY <1>1, <2>2, <2>3 DEF TablesStay
<1>5. ASSUME NEW h \in Handlers, CancelIfScheduled(h)
      PROVE  TablesStay
  <2>1. api[h].note \in Stored
    BY <1>5 DEF CancelIfScheduled, IInv, HandlerInv
  <2>2. ASSUME NEW n \in Stored
        PROVE  \/ notes'[n] = notes[n]
               \/ notes[n].status = "scheduled" /\ notes'[n] = [notes[n] EXCEPT !.status = "cancelled"]
    BY <1>1, <1>5, <2>1 DEF CancelIfScheduled, IInv, TypeOK, DbTypeOK
  <2> QED BY <1>1, <1>2, <1>5, <2>2, NoneAssumption DEF TablesStay, CancelIfScheduled
<1>6. ASSUME NEW s \in Schedulers, CommitTick(s)
      PROVE  TablesStay
  <2>1. ASSUME NEW n \in Stored
        PROVE  \/ notes'[n] = notes[n]
               \/ notes[n].status = "scheduled" /\ notes'[n] = [notes[n] EXCEPT !.status = "queued"]
    BY <1>1, <1>6 DEF CommitTick, IInv, LockInv
  <2>2. \A e \in Events : outbox'[e] = outbox[e]
    BY <1>1, <1>6 DEF CommitTick
  <2> QED BY <1>1, <1>2, <2>1, <2>2, NoneAssumption DEF TablesStay
<1>7. ASSUME NEW p \in Publishers, CommitBatch(p)
      PROVE  TablesStay
  <2>1. ASSUME NEW e \in Events
        PROVE  /\ outbox'[e] # None
               /\ outbox'[e].note = outbox[e].note
               /\ outbox[e].published => outbox'[e] = outbox[e]
    <3>1. outbox[e] \in EventRows /\ e \in EventIds
      BY <1>1
    <3>2. e \in batch[p].sent \cup batch[p].failed => ~outbox[e].published
      BY DEF IInv, BatchInv
    <3>3. ASSUME NEW row \in EventRows, NEW sent \in BOOLEAN
          PROVE  LET new == [row EXCEPT !.published = @ \/ sent, !.failed = ~sent]
                 IN new \in EventRows /\ new.note = row.note
      BY DEF EventRows
    <3>4. \/ outbox'[e] = outbox[e]
          \/ /\ e \in batch[p].sent \cup batch[p].failed
             /\ outbox'[e] = [outbox[e] EXCEPT !.published = @ \/ e \in batch[p].sent,
                                               !.failed = ~(e \in batch[p].sent)]
      BY <1>7, <3>1 DEF CommitBatch
    <3> QED BY <1>1, <3>1, <3>2, <3>3, <3>4, NoneAssumption
  <2> QED BY <1>1, <1>7, <2>1 DEF TablesStay, CommitBatch
<1> QED BY <1>3, <1>4, <1>5, <1>6, <1>7, QuietHandlers, QuietSchedulers, QuietPublishers
        DEF Next, vars, dbVars, Tick

LEMMA InvTablesStay ==
    ASSUME IInv, TablesStay, TypeOK'
    PROVE  /\ \A n \in Stored :
                /\ n \in Stored'
                /\ notes'[n].owner = notes[n].owner
                /\ notes'[n].key = notes[n].key
                /\ notes'[n].scheduledAt = notes[n].scheduledAt
                /\ notes[n].status # "scheduled" => notes'[n] = notes[n]
                /\ notes'[n] # notes[n] => notes'[n].status \in {"queued", "cancelled"}
           /\ \A e \in Events :
                /\ e \in Events'
                /\ outbox'[e].note = outbox[e].note
                /\ outbox[e].published => outbox'[e].published
<1>1. /\ \A n \in Stored : notes[n] \in NoteRows /\ n \in Ids
      /\ \A e \in Events : e \in EventIds
  BY Fields DEF IInv, TypeOK
<1>2. ASSUME NEW row \in NoteRows, NEW st \in {"queued", "cancelled"}
      PROVE  LET new == [row EXCEPT !.status = st]
             IN /\ new.owner = row.owner /\ new.key = row.key
                /\ new.scheduledAt = row.scheduledAt /\ new.status = st
  BY DEF NoteRows
<1>3. ASSUME NEW n \in Stored
      PROVE  \/ notes'[n] = notes[n]
             \/ /\ notes[n].status = "scheduled"
                /\ \E st \in {"queued", "cancelled"} : notes'[n] = [notes[n] EXCEPT !.status = st]
  BY DEF TablesStay
<1>4. \A n \in Stored : n \in Stored'
  BY <1>1 DEF TablesStay, Stored
<1>5. \A e \in Events : e \in Events'
  BY <1>1 DEF TablesStay, Events
<1>6. ASSUME NEW n \in Stored
      PROVE  /\ notes'[n].owner = notes[n].owner
             /\ notes'[n].key = notes[n].key
             /\ notes'[n].scheduledAt = notes[n].scheduledAt
             /\ notes[n].status # "scheduled" => notes'[n] = notes[n]
             /\ notes'[n] # notes[n] => notes'[n].status \in {"queued", "cancelled"}
  <2>1. CASE notes'[n] = notes[n]
    BY <2>1
  <2>2. CASE notes'[n] # notes[n]
    <3>1. PICK st \in {"queued", "cancelled"} :
            notes[n].status = "scheduled" /\ notes'[n] = [notes[n] EXCEPT !.status = st]
      BY <1>3, <2>2
    <3> QED BY <1>1, <1>2, <3>1
  <2> QED BY <2>1, <2>2
<1>7. \A e \in Events : /\ outbox'[e].note = outbox[e].note
                        /\ outbox[e].published => outbox'[e].published
  BY DEF TablesStay
<1> QED BY <1>4, <1>5, <1>6, <1>7

-----------------------------------------------------------------------------
(* Row locks of the schedulers.                                            *)

LEMMA LockStep == IInv /\ [Next]_vars => LockInv'
<1> SUFFICES ASSUME IInv, [Next]_vars PROVE LockInv'
  OBVIOUS
<1>1. /\ LockInv /\ locked \in [Schedulers -> SUBSET Ids]
      /\ tick \in [Schedulers -> [pc : {"idle", "locked", "marked"}, queued : SUBSET Ids]]
      /\ \A n \in Stored : notes[n] \in NoteRows /\ n \in Ids /\ notes[n] # None
  BY Fields, NoneAssumption DEF IInv, TypeOK, DbTypeOK, SchedulerTypeOK
<1>2. CASE UNCHANGED <<notes, locked, tick, now>>
  BY <1>1, <1>2 DEF LockInv, Stored
<1>3. ASSUME NEW h \in Handlers, Commit(h), UNCHANGED tick
      PROVE  LockInv'
  <2>1. api[h].note \in Ids \ Stored
    BY <1>3 DEF Commit, IInv, HandlerInv, Creating
  <2>2. \A n \in Stored : notes'[n] = notes[n]
    BY <1>1, <1>3, <2>1 DEF Commit, IInv, TypeOK, DbTypeOK
  <2>3. Stored \subseteq Stored'
    BY <1>1, <2>2 DEF Stored
  <2> QED BY <1>1, <1>3, <2>2, <2>3 DEF LockInv, Commit
<1>4. ASSUME NEW h \in Handlers, CancelIfScheduled(h), UNCHANGED tick
      PROVE  LockInv'
  <2>1. api[h].note \in Stored /\ ~RowLocked(api[h].note)
    BY <1>4 DEF CancelIfScheduled, IInv, HandlerInv
  <2>2. \A s \in Schedulers : \A n \in locked[s] : n \in Stored /\ notes'[n] = notes[n]
    BY <1>1, <1>4, <2>1 DEF CancelIfScheduled, RowLocked, LockInv, IInv, TypeOK, DbTypeOK
  <2>3. \A s \in Schedulers : \A n \in locked[s] : n \in Stored'
    BY <1>1, <2>2 DEF Stored
  <2>4. UNCHANGED <<locked, tick, now>>
    BY <1>4 DEF CancelIfScheduled
  <2> QED BY <1>1, <2>2, <2>3, <2>4 DEF LockInv
<1>5. ASSUME NEW s \in Schedulers, LockDue(s)
      PROVE  LockInv'
  <2>1. PICK b \in SUBSET {n \in Due : ~RowLocked(n)} : locked' = [locked EXCEPT ![s] = b]
    BY <1>5 DEF LockDue, Batches
  <2>2. \A n \in b : /\ n \in Stored
                     /\ notes[n].status = "scheduled"
                     /\ notes[n].scheduledAt <= now
                     /\ \A t \in Schedulers : n \notin locked[t]
    BY <2>1 DEF Due, RowLocked
  <2>3. /\ tick'[s] = [pc |-> "locked", queued |-> {}]
        /\ \A t \in Schedulers \ {s} : tick'[t] = tick[t] /\ locked'[t] = locked[t]
        /\ locked'[s] = b
    BY <1>1, <1>5, <2>1 DEF LockDue
  <2>4. Stored' = Stored /\ notes' = notes /\ now' = now
    BY <1>5 DEF LockDue, Stored
  <2> QED BY <1>1, <2>2, <2>3, <2>4 DEF LockInv
<1>6. ASSUME NEW s \in Schedulers, MarkQueued(s)
      PROVE  LockInv'
  <2>1. /\ tick'[s].pc = "marked" /\ tick'[s].queued \subseteq locked[s]
        /\ \A t \in Schedulers \ {s} : tick'[t] = tick[t]
    BY <1>1, <1>6 DEF MarkQueued
  <2>2. UNCHANGED <<notes, locked, now, Stored>>
    BY <1>6 DEF MarkQueued, dbVars, Stored
  <2> QED BY <1>1, <2>1, <2>2 DEF LockInv
<1>7. ASSUME NEW s \in Schedulers, CommitTick(s) \/ AbortTick(s)
      PROVE  LockInv'
  <2>1. /\ tick'[s] = [pc |-> "idle", queued |-> {}]
        /\ locked'[s] = {}
        /\ \A t \in Schedulers \ {s} : tick'[t] = tick[t] /\ locked'[t] = locked[t]
        /\ now' = now
    BY <1>1, <1>7 DEF CommitTick, AbortTick, NoTick
  <2>2. ASSUME NEW t \in Schedulers \ {s}, NEW n \in locked[t]
        PROVE  n \in Stored' /\ notes'[n] = notes[n]
    <3>1. n \in Stored /\ n \notin tick[s].queued
      BY <1>1 DEF LockInv
    <3> QED BY <1>1, <1>7, <3>1 DEF CommitTick, AbortTick, Stored
  <2> QED BY <1>1, <2>1, <2>2 DEF LockInv
<1>8. CASE Tick /\ UNCHANGED <<apiVars, tick, batch>>
  <2>1. now \in Nat /\ now' = now + 1
    BY <1>8, BoundsAssumption DEF Tick, IInv, TypeOK, DbTypeOK, Times
  <2>2. \A s \in Schedulers : \A n \in locked[s] : notes[n].scheduledAt \in Nat
    BY <1>1, BoundsAssumption DEF LockInv, IInv, EventInv, Times
  <2>3. \A s \in Schedulers : \A n \in locked[s] : notes[n].scheduledAt <= now'
    BY <1>1, <2>1, <2>2 DEF LockInv
  <2> QED BY <1>1, <1>8, <2>3 DEF LockInv, Tick, Stored
<1> QED BY <1>2, <1>3, <1>4, <1>5, <1>6, <1>7, <1>8, QuietHandlers, QuietPublishers
        DEF Next, vars, dbVars, SchedulerNext, SchedulerStep, CommitBatch

-----------------------------------------------------------------------------
(* One event for each notification that is out, none for the others.       *)

LEMMA EventStep == IInv /\ [Next]_vars => EventInv'
<1> SUFFICES ASSUME IInv, [Next]_vars PROVE EventInv'
  OBVIOUS
<1>1. /\ EventInv
      /\ \A n \in Stored : notes[n] \in NoteRows /\ n \in Ids /\ notes[n] # None
      /\ \A e \in Events : outbox[e] \in EventRows /\ e \in EventIds /\ outbox[e] # None
      /\ notes \in [Ids -> NoteRows \cup {None}]
      /\ outbox \in [EventIds -> EventRows \cup {None}]
  BY Fields, NoneAssumption DEF IInv, TypeOK, DbTypeOK
<1>2. \A n \in Ids : NewEvent(n) \in EventRows /\ NewEvent(n).note = n /\ NewEvent(n) # None
  <2>1. now \in Times
    BY DEF IInv, TypeOK, DbTypeOK
  <2>2. \A n \in Ids : NewEvent(n) \in EventRows /\ NewEvent(n).note = n
    BY <2>1 DEF NewEvent, EventRows
  <2> QED BY <2>2, NoneAssumption
<1>3. CASE UNCHANGED <<notes, outbox, now>>
  BY <1>3 DEF EventInv, Stored, Events, IInv
<1>4. ASSUME NEW h \in Handlers, Commit(h)
      PROVE  EventInv'
  <2> DEFINE n == api[h].note
             row == [owner |-> api[h].user, key |-> api[h].key,
                     scheduledAt |-> api[h].at, status |-> api[h].status]
  <2>1. /\ n \in Ids /\ n \notin Stored
        /\ api[h].status \in {"created", "scheduled"}
        /\ api[h].status = "created" => (api[h].at = None \/ api[h].at <= now)
        /\ api[h].status = "scheduled" => api[h].at \in Times
    BY <1>4, Fields DEF Commit, IInv, TypeOK, HandlerInv, Creating
  <2>2. row \in NoteRows /\ row # None
    BY <1>4, Fields, NoneAssumption DEF Commit, IInv, TypeOK, HandlerInv, NoteRows, Statuses
  <2>3. /\ notes' = [notes EXCEPT ![n] = row]
        /\ now' = now
        /\ \/ api[h].status = "created" /\ \E e \in EventIds \ Events : outbox' = [outbox EXCEPT ![e] = NewEvent(n)]
           \/ api[h].status # "created" /\ outbox' = outbox
    BY <1>4 DEF Commit
  <2> HIDE DEF row
  <2>4. /\ Stored' = Stored \cup {n}
        /\ \A m \in Stored : notes'[m] = notes[m]
        /\ notes'[n] = row
    BY <1>1, <2>1, <2>2, <2>3 DEF Stored
  <2>5. row.status = api[h].status /\ row.scheduledAt = api[h].at
    BY DEF row
  <2>6. CASE api[h].status = "created"
    <3>1. PICK e \in EventIds \ Events : outbox' = [outbox EXCEPT ![e] = NewEvent(n)]
      BY <2>3, <2>6
    <3>2. /\ Events' = Events \cup {e}
          /\ \A f \in Events : outbox'[f] = outbox[f]
          /\ outbox'[e].note = n
      BY <1>1, <1>2, <2>1, <3>1 DEF Events
    <3> QED BY <1>1, <2>1, <2>3, <2>4, <2>5, <2>6, <3>2 DEF EventInv
  <2>7. CASE api[h].status = "scheduled"
    <3>1. Events' = Events /\ outbox' = outbox
      BY <2>3, <2>7 DEF Events
    <3> QED BY <1>1, <2>1, <2>3, <2>4, <2>5, <2>7, <3>1 DEF EventInv
  <2> QED BY <2>1, <2>6, <2>7
<1>5. ASSUME NEW h \in Handlers, CancelIfScheduled(h)
      PROVE  EventInv'
  <2> DEFINE n == api[h].note
  <2>1. n \in Stored
    BY <1>5 DEF CancelIfScheduled, IInv, HandlerInv
  <2>2. /\ Events' = Events /\ outbox' = outbox /\ now' = now
        /\ notes' = IF notes[n].status = "scheduled"
                      THEN [notes EXCEPT ![n].status = "cancelled"] ELSE notes
    BY <1>5 DEF CancelIfScheduled, Events
  <2>3. CASE notes[n].status # "scheduled"
    BY <1>3, <2>2, <2>3
  <2>4. CASE notes[n].status = "scheduled"
    <3>1. \A e \in Events : outbox[e].note # n
      BY <1>1, <2>4 DEF EventInv
    <3>2. /\ \A m \in Stored \ {n} : notes'[m] = notes[m]
          /\ notes'[n].status = "cancelled"
      BY <1>1, <2>1, <2>2, <2>4 DEF NoteRows
    <3>3. Stored' = Stored
      BY <1>1, <2>1, <2>2, <2>4, HistoryStep, InvTablesStay, TypeStep DEF Stored
    <3> QED BY <1>1, <2>1, <2>2, <3>1, <3>2, <3>3 DEF EventInv
  <2> QED BY <2>3, <2>4
<1>6. ASSUME NEW s \in Schedulers, CommitTick(s)
      PROVE  EventInv'
  <2> DEFINE Q == tick[s].queued
  <2>1. \A n \in Q : /\ n \in Stored /\ n \in Ids
                     /\ notes[n].status = "scheduled"
                     /\ notes[n].scheduledAt <= now
                     /\ \A e \in Events : outbox[e].note # n
    BY <1>1 DEF IInv, LockInv, EventInv
  <2>2. PICK id \in [Q -> EventIds \ Events] :
          /\ \A m, n \in Q : id[m] = id[n] => m = n
          /\ outbox' = [e \in EventIds |->
               IF \E n \in Q : id[n] = e
                 THEN NewEvent(CHOOSE n \in Q : id[n] = e)
                 ELSE outbox[e]]
    BY <1>6 DEF CommitTick
  <2>3. /\ notes' = [n \in Ids |-> IF n \in Q THEN [notes[n] EXCEPT !.status = "queued"]
                                              ELSE notes[n]]
        /\ now' = now
    BY <1>6 DEF CommitTick
  <2> HIDE DEF Q
  <2>4. /\ \A n \in Stored \ Q : notes'[n] = notes[n]
        /\ \A n \in Q : /\ notes'[n].status = "queued"
                        /\ notes'[n].scheduledAt = notes[n].scheduledAt
    BY <1>1, <2>1, <2>3 DEF NoteRows
  <2>5. Stored' = Stored
    <3>1. Stored \subseteq Stored'
      BY HistoryStep, InvTablesStay, TypeStep
    <3>2. \A n \in Ids \ Stored : notes'[n] = None
      BY <2>1, <2>3 DEF Stored
    <3> QED BY <3>1, <3>2 DEF Stored
  <2>6. ASSUME NEW n \in Q
        PROVE  id[n] \in EventIds \ Events /\ outbox'[id[n]] = NewEvent(n)
    <3>1. id[n] \in EventIds \ Events /\ \E m \in Q : id[m] = id[n]
      BY <2>2
    <3>2. (CHOOSE m \in Q : id[m] = id[n]) = n
      BY <2>2
    <3> QED BY <2>2, <3>1, <3>2
  <2>7. \A e \in Events : e \in Events' /\ outbox'[e] = outbox[e]
    BY <1>1, <2>2 DEF Events
  <2>8. \A n \in Q : id[n] \in Events' /\ outbox'[id[n]].note = n
    BY <1>2, <2>1, <2>6 DEF Events
  <2>9. \A e \in Events' : e \in Events \/ \E n \in Q : e = id[n]
    BY <1>1, <2>2 DEF Events
  <2>10. ASSUME NEW e \in Events'
         PROVE  /\ outbox'[e].note \in Stored'
                /\ notes'[outbox'[e].note].status \in {"created", "queued"}
                /\ \A f \in Events' : outbox'[f].note = outbox'[e].note => f = e
    <3>1. CASE e \in Events
      <4>1. outbox'[e].note \in Stored \ Q
        BY <1>1, <2>1, <2>7, <3>1 DEF EventInv
      <4>2. \A f \in Events' : outbox'[f].note = outbox'[e].note => f \in Events
        BY <2>8, <2>9, <4>1
      <4> QED BY <1>1, <2>4, <2>5, <2>7, <3>1, <4>1, <4>2 DEF EventInv
    <3>2. CASE e \notin Events
      <4>1. PICK n \in Q : e = id[n]
        BY <2>9, <3>2
      <4>2. outbox'[e].note = n /\ n \in Stored'
        BY <2>1, <2>5, <2>8, <4>1
      <4>3. ASSUME NEW f \in Events', outbox'[f].note = n PROVE f = e
        <5>1. f \notin Events
          BY <2>1, <2>7, <4>3
        <5>2. PICK m \in Q : f = id[m]
          BY <2>9, <4>3, <5>1
        <5> QED BY <2>8, <4>1, <4>3, <5>2
      <4> QED BY <2>4, <4>2, <4>3
    <3> QED BY <3>1, <3>2
  <2>11. ASSUME NEW n \in Stored'
         PROVE  /\ notes'[n].status \in {"created", "queued"} =>
                     /\ \E e \in Events' : outbox'[e].note = n
                     /\ notes'[n].scheduledAt = None \/ notes'[n].scheduledAt <= now'
                /\ notes'[n].status = "scheduled" => notes'[n].scheduledAt \in Times
    <3>1. CASE n \in Q
      BY <2>1, <2>3, <2>4, <2>8, <3>1
    <3>2. CASE n \notin Q
      BY <1>1, <2>3, <2>4, <2>5, <2>7, <3>2 DEF EventInv
    <3> QED BY <3>1, <3>2
  <2> QED BY <2>10, <2>11 DEF EventInv
<1>7. ASSUME NEW p \in Publishers, CommitBatch(p)
      PROVE  EventInv'
  <2>1. UNCHANGED <<notes, now, Stored>>
    BY <1>7 DEF CommitBatch, Stored
  <2>2. \A e \in Events : e \in Events' /\ outbox'[e].note = outbox[e].note
    BY HistoryStep, InvTablesStay, TypeStep
  <2>3. \A e \in Events' : e \in Events
    BY <1>1, <1>7 DEF CommitBatch, Events, IInv, BatchInv
  <2> QED BY <1>1, <2>1, <2>2, <2>3 DEF EventInv
<1>8. CASE Tick
  <2>1. now \in Nat /\ now' = now + 1
    BY <1>8, BoundsAssumption DEF Tick, IInv, TypeOK, DbTypeOK, Times
  <2>2. \A n \in Stored : notes[n].scheduledAt = None \/ notes[n].scheduledAt \in Nat
    BY <1>1, BoundsAssumption DEF NoteRows, Times
  <2>3. UNCHANGED <<notes, outbox, Stored, Events>>
    BY <1>8 DEF Tick, Stored, Events
  <2> QED BY <1>1, <2>1, <2>2, <2>3 DEF EventInv
<1> QED BY <1>3, <1>4, <1>5, <1>6, <1>7, <1>8, QuietHandlers, QuietSchedulers, QuietPublishers
        DEF Next, vars, dbVars

-----------------------------------------------------------------------------
(* What handlers carry.                                                    *)

LEMMA HandlerStep == IInv /\ [Next]_vars => HandlerInv'
<1> SUFFICES ASSUME IInv, [Next]_vars PROVE HandlerInv'
  OBVIOUS
<1>1. /\ HandlerInv
      /\ api \in [Handlers -> Requests]
      /\ \A h \in Handlers : /\ api[h] \in Requests
                             /\ api[h].user \in Users \cup {None}
                             /\ api[h].at \in Times \cup {None}
      /\ now \in Times
  BY Fields DEF IInv, TypeOK, DbTypeOK, ApiTypeOK
<1>2. \A n \in Stored : n \in Stored'
  BY HistoryStep, InvTablesStay, TypeStep
<1>3. ASSUME UNCHANGED <<api, now>>, Stored' = Stored
      PROVE  HandlerInv'
  BY <1>1, <1>3 DEF HandlerInv
<1>4. CASE ApiNext
  <2>1. PICK h \in Handlers :
          \/ ReceiveCreate(h) \/ CheckKey(h) \/ Insert(h) \/ Commit(h)
          \/ Respond(h) \/ Reread(h)
          \/ ReceiveCancel(h) \/ ReadForCancel(h) \/ CancelIfScheduled(h)
          \/ AbortHandler(h)
    BY <1>4 DEF ApiNext
  \* Enough for a step that makes r of the request of h: what r says of itself,
  \* and that no other handler's id is taken or inserted.
  <2>2. ASSUME NEW r \in Requests, Become(h, r), now' = now,
               r.pc # "idle" => r.user \in Users,
               r.pc \in Creating => r.note \in Ids \ Stored',
               r.pc \in {"cancel", "cancelling", "respond"} => r.note \in Stored',
               r.pc \in {"insert", "commit"} /\ r.status = "created" => (r.at = None \/ r.at <= now),
               r.pc \in {"insert", "commit"} /\ r.status = "scheduled" => r.at \in Times,
               \A g \in Handlers \ {h} : r.pc \in Creating => api[g].note # r.note,
               \A g \in Handlers \ {h} : api[g].pc \in Creating =>
                 api[g].note \notin Stored' /\ api[g].note # r.note
        PROVE  HandlerInv'
    <3>1. /\ api'[h] = r
          /\ \A g \in Handlers \ {h} : api'[g] = api[g]
      BY <1>1, <2>2 DEF Become
    <3> QED BY <1>1, <1>2, <2>2, <3>1 DEF HandlerInv
  <2>3. ASSUME Done(h), now' = now, Stored' = Stored
        PROVE  HandlerInv'
    <3>1. /\ Idle \in Requests /\ Idle.pc = "idle" /\ Idle.note = None
      BY NullTypes DEF Idle
    <3>2. \A g \in Handlers : api[g].pc \in Creating => api[g].note \notin Stored /\ api[g].note # None
      BY <1>1, NoneAssumption DEF HandlerInv
    <3> QED BY <2>2, <2>3, <3>1, <3>2 DEF Done, Creating
  <2>4. UNCHANGED <<notes, now>> => Stored' = Stored /\ now' = now
    BY DEF Stored
  <2>5. CASE ReceiveCreate(h)
    <3>1. PICK u \in Users, k \in Keys \cup {None}, t \in Times \cup {None} :
            Become(h, [api[h] EXCEPT !.pc = "create", !.user = u, !.key = k, !.at = t])
      BY <2>5 DEF ReceiveCreate
    <3> DEFINE r == [api[h] EXCEPT !.pc = "create", !.user = u, !.key = k, !.at = t]
    <3>2. r \in Requests /\ r.pc = "create" /\ r.user = u /\ r.note = api[h].note
      BY <1>1 DEF Requests, Pcs
    <3>3. Stored' = Stored /\ now' = now
      BY <2>4, <2>5 DEF ReceiveCreate, dbVars
    <3>4. \A g \in Handlers \ {h} : api[g].pc \in Creating =>
            api[g].note \notin Stored /\ api[g].note # api[h].note
      BY <1>1 DEF HandlerInv
    <3> HIDE DEF r
    <3>5. Become(h, r)
      BY <3>1 DEF r
    <3> QED BY <2>2, <3>2, <3>3, <3>4, <3>5 DEF Creating
  <2>6. CASE CheckKey(h)
    <3>1. Stored' = Stored /\ now' = now /\ api[h].pc = "create"
      BY <2>4, <2>6 DEF CheckKey, dbVars
    <3>2. CASE Done(h)
      BY <2>3, <3>1, <3>2
    <3>3. CASE ~ Done(h)
      <4> DEFINE st == IF Immediate(api[h].at) THEN "created" ELSE "scheduled"
      <4>1. PICK n \in FreshIds :
              Become(h, [api[h] EXCEPT !.pc = "insert", !.note = n, !.status = st])
        BY <2>6, <3>3 DEF CheckKey
      <4> DEFINE r == [api[h] EXCEPT !.pc = "insert", !.note = n, !.status = st]
      <4>2. /\ r \in Requests /\ r.pc = "insert" /\ r.note = n /\ r.status = st
            /\ r.user = api[h].user /\ r.at = api[h].at
        BY <1>1, <4>1 DEF Requests, Pcs, FreshIds
      <4>3. /\ st = "created" => (r.at = None \/ r.at <= now)
            /\ st = "scheduled" => r.at \in Times
        BY <1>1, <4>2 DEF Immediate
      <4>4. n \in Ids \ Stored /\ \A g \in Handlers : api[g].note # n
        BY DEF FreshIds
      <4>5. api[h].user \in Users
        BY <1>1, <3>1 DEF HandlerInv
      <4>6. \A g \in Handlers \ {h} : api[g].pc \in Creating => api[g].note \notin Stored
        BY <1>1 DEF HandlerInv
      <4> HIDE DEF r, st
      <4>7. Become(h, r)
        BY <4>1 DEF r
      <4> QED BY <2>2, <3>1, <4>2, <4>3, <4>4, <4>5, <4>6, <4>7 DEF Creating
    <3> QED BY <3>2, <3>3
  <2>7. ASSUME NEW pc \in Pcs, Goto(h, pc), now' = now,
               api[h].pc # "idle", pc \in Creating => api[h].pc \in Creating,
               pc \in {"insert", "commit"} => api[h].pc \in {"insert", "commit"},
               pc \in {"cancel", "cancelling", "respond"} => api[h].note \in Stored',
               pc \in Creating => api[h].note \notin Stored',
               \A g \in Handlers \ {h} : api[g].pc \in Creating => api[g].note \notin Stored'
        PROVE  HandlerInv'
    <3> DEFINE r == [api[h] EXCEPT !.pc = pc]
    <3>1. /\ r \in Requests /\ r.pc = pc /\ r.user = api[h].user /\ r.note = api[h].note
          /\ r.at = api[h].at /\ r.status = api[h].status
      BY <1>1 DEF Requests, Pcs
    <3> HIDE DEF r
    <3>2. Become(h, r)
      BY <2>7 DEF Goto, r
    <3>3. \A g \in Handlers \ {h} : api[g].pc \in Creating => api[g].note # api[h].note
      BY <1>1 DEF HandlerInv
    <3> QED BY <1>1, <2>2, <2>7, <3>1, <3>2, <3>3 DEF HandlerInv
  <2>8. \A g \in Handlers : api[g].pc \in Creating => api[g].note \in Ids \ Stored
    BY <1>1 DEF HandlerInv
  <2>9. CASE Insert(h)
    <3>1. Stored' = Stored /\ now' = now /\ api[h].pc = "insert"
      BY <2>4, <2>9 DEF Insert, dbVars
    <3>2. Goto(h, "duplicate") \/ Goto(h, "commit")
      BY <2>9 DEF Insert
    <3> QED BY <2>7, <2>8, <3>1, <3>2 DEF Creating, Pcs
  <2>10. CASE Commit(h)
    <3>1. now' = now /\ api[h].pc = "commit" /\ Goto(h, "respond")
      BY <2>10 DEF Commit
    <3>2. Stored' = Stored \cup {api[h].note}
      <4>1. api[h].note \in Ids
        BY <2>8, <3>1 DEF Creating
      <4>2. [owner |-> api[h].user, key |-> api[h].key,
             scheduledAt |-> api[h].at, status |-> api[h].status] \in NoteRows
        BY <1>1, <3>1, Fields DEF HandlerInv, NoteRows, Statuses, IInv, TypeOK
      <4>3. \A n \in Ids : notes'[n] # None <=> n \in Stored \/ n = api[h].note
        BY <2>10, <4>1, <4>2, NoneAssumption DEF Commit, Stored, IInv, TypeOK, DbTypeOK
      <4> QED BY <4>1, <4>3 DEF Stored
    <3>3. \A g \in Handlers \ {h} : api[g].pc \in Creating => api[g].note # api[h].note
      BY <1>1 DEF HandlerInv
    <3> QED BY <2>7, <2>8, <3>1, <3>2, <3>3 DEF Creating, Pcs
  <2>11. CASE Respond(h) \/ Reread(h) \/ AbortHandler(h)
    BY <2>3, <2>4, <2>11 DEF Respond, Reread, AbortHandler, dbVars
  <2>12. CASE ReceiveCancel(h)
    <3>1. PICK u \in Users, n \in Stored :
            Become(h, [api[h] EXCEPT !.pc = "cancel", !.user = u, !.note = n])
      BY <2>12 DEF ReceiveCancel
    <3> DEFINE r == [api[h] EXCEPT !.pc = "cancel", !.user = u, !.note = n]
    <3>2. r \in Requests /\ r.pc = "cancel" /\ r.user = u /\ r.note = n
      BY <1>1 DEF Requests, Pcs, Stored
    <3>3. Stored' = Stored /\ now' = now
      BY <2>4, <2>12 DEF ReceiveCancel, dbVars
    <3> HIDE DEF r
    <3>4. Become(h, r)
      BY <3>1 DEF r
    <3> QED BY <2>2, <2>8, <3>2, <3>3, <3>4 DEF Creating
  <2>13. CASE ReadForCancel(h)
    <3>1. Stored' = Stored /\ now' = now /\ api[h].pc = "cancel"
      BY <2>4, <2>13 DEF ReadForCancel, dbVars
    <3>2. Done(h) \/ Goto(h, "cancelling")
      BY <2>13 DEF ReadForCancel
    <3>3. api[h].note \in Stored
      BY <1>1, <3>1 DEF HandlerInv
    <3> QED BY <2>3, <2>7, <2>8, <3>1, <3>2, <3>3 DEF Creating, Pcs
  <2>14. CASE CancelIfScheduled(h)
    <3>1. now' = now /\ Done(h)
      BY <2>14 DEF CancelIfScheduled
    <3>2. Stored' = Stored
      <4>1. \A n \in Ids \ Stored : notes'[n] = None
        BY <1>1, <2>14 DEF CancelIfScheduled, HandlerInv, Stored, IInv, TypeOK, DbTypeOK
      <4> QED BY <1>2, <4>1 DEF Stored
    <3> QED BY <2>3, <3>1, <3>2
  <2> QED BY <2>1, <2>5, <2>6, <2>9, <2>10, <2>11, <2>12, <2>13, <2>14
<1>5. CASE SchedulerNext /\ UNCHANGED apiVars
  <2>1. UNCHANGED <<api, now>>
    BY <1>5, QuietSchedulers DEF apiVars, CommitTick
  <2>2. Stored' = Stored
    <3>1. ASSUME NEW s \in Schedulers, CommitTick(s)
          PROVE  \A n \in Ids \ Stored : notes'[n] = None
      BY <3>1 DEF CommitTick, IInv, LockInv, Stored
    <3> QED BY <1>2, <1>5, <3>1, QuietSchedulers DEF Stored
  <2> QED BY <1>3, <2>1, <2>2
<1>6. CASE PublisherNext /\ UNCHANGED apiVars
  BY <1>3, <1>6, QuietPublishers DEF apiVars, CommitBatch, Stored
<1>7. CASE Tick /\ UNCHANGED apiVars
  <2>1. now \in Nat /\ now' = now + 1 /\ Times \subseteq Nat
    BY <1>1, <1>7, BoundsAssumption DEF Tick, Times
  <2>2. \A h \in Handlers : api[h].at = None \/ api[h].at \in Nat
    BY <1>1, <2>1
  <2>3. UNCHANGED <<api, Stored>>
    BY <1>7 DEF Tick, apiVars, Stored
  <2> QED BY <1>1, <2>1, <2>2, <2>3 DEF HandlerInv
<1>8. CASE UNCHANGED vars
  BY <1>3, <1>8 DEF vars, dbVars, apiVars, Stored
<1> QED BY <1>4, <1>5, <1>6, <1>7, <1>8 DEF Next

-----------------------------------------------------------------------------
(* Idempotency keys.                                                       *)

\* Only the commit of a creation adds a row.
LEMMA NewRows ==
    ASSUME IInv, [Next]_vars
    PROVE  \/ Stored' = Stored
           \/ \E h \in Handlers : Commit(h)
<1>1. \A n \in Stored : n \in Stored'
  BY HistoryStep, InvTablesStay, TypeStep
<1>2. ASSUME NEW n \in Ids \ Stored, n \in Stored'
      PROVE  \E h \in Handlers : Commit(h)
  <2>1. notes[n] = None /\ notes'[n] # None
    BY <1>2 DEF Stored
  <2>2. ASSUME NEW s \in Schedulers, CommitTick(s) PROVE notes'[n] = notes[n]
    BY <1>2, <2>2 DEF CommitTick, IInv, LockInv, TypeOK, DbTypeOK
  <2>3. ASSUME NEW h \in Handlers, CancelIfScheduled(h) PROVE notes'[n] = notes[n]
    BY <1>2, <2>3 DEF CancelIfScheduled, IInv, HandlerInv, TypeOK, DbTypeOK
  <2> QED BY <2>1, <2>2, <2>3, QuietHandlers, QuietSchedulers, QuietPublishers
          DEF Next, vars, dbVars, Tick, CommitBatch
<1> QED BY <1>1, <1>2 DEF Stored

LEMMA KeyStep == IInv /\ [Next]_vars => KeyInv' /\ DuplicateHasRow' /\ OneRowPerKey'
<1> SUFFICES ASSUME IInv, [Next]_vars PROVE KeyInv' /\ DuplicateHasRow' /\ OneRowPerKey'
  OBVIOUS
<1>1. /\ KeyInv /\ OneRowPerKey
      /\ \A h \in Handlers : api[h].pc = "duplicate" =>
           api[h].key # None /\ \E n \in Ids : KeyOf(n, api[h].user, api[h].key)
      /\ api \in [Handlers -> Requests]
      /\ answers \subseteq Answers
      /\ \A h \in Handlers : /\ api[h] \in Requests
                             /\ api[h].key \in Keys \cup {None}
                             /\ api[h].pc # "idle" => api[h].user \in Users
  BY Fields DEF IInv, TypeOK, ApiTypeOK, HandlerInv, DuplicateHasRow, WithKey, KeyOf, Stored
\* Rows keep their keys.
<1>2. \A n \in Stored : /\ n \in Stored'
                        /\ notes'[n].owner = notes[n].owner
                        /\ notes'[n].key = notes[n].key
  BY HistoryStep, InvTablesStay, TypeStep
<1>3. ASSUME Stored' = Stored
      PROVE  /\ \A n, u, k : KeyOf(n, u, k)' <=> KeyOf(n, u, k)
             /\ OneRowPerKey'
  BY <1>1, <1>2, <1>3 DEF KeyOf, OneRowPerKey
<1>4. ASSUME \A h \in Handlers : (api[h].pc = "duplicate" =>
               api[h].key # None /\ \E n \in Ids : KeyOf(n, api[h].user, api[h].key))'
      PROVE  DuplicateHasRow'
  BY <1>4 DEF DuplicateHasRow, WithKey, KeyOf
<1>5. ASSUME UNCHANGED apiVars, Stored' = Stored
      PROVE  KeyInv' /\ DuplicateHasRow' /\ OneRowPerKey'
  <2>1. UNCHANGED <<api, answers>>
    BY <1>5 DEF apiVars
  <2>2. \A n \in Stored : notes'[n].owner = notes[n].owner /\ notes'[n].key = notes[n].key
    BY <1>2
  <2>3. KeyInv'
    BY <1>1, <1>5, <2>1, <2>2 DEF KeyInv, KeyFree, KeyStored, KeyOf, KeyTaken
  <2>4. DuplicateHasRow'
    BY <1>1, <1>4, <1>5, <2>1, <2>2 DEF KeyOf
  <2> QED BY <1>3, <1>5, <2>3, <2>4
<1>6. CASE ApiNext
  <2>1. PICK h \in Handlers :
          \/ ReceiveCreate(h) \/ CheckKey(h) \/ Insert(h) \/ Commit(h)
          \/ Respond(h) \/ Reread(h)
          \/ ReceiveCancel(h) \/ ReadForCancel(h) \/ CancelIfScheduled(h)
          \/ AbortHandler(h)
    BY <1>6 DEF ApiNext
  \* A step of h that inserts no row: enough that h's new request and the
  \* answers agree with the table.
  <2>2. ASSUME NEW r, Become(h, r), Stored' = Stored,
               r.pc \in {"commit", "respond", "duplicate"} =>
                 r.user = api[h].user /\ r.key = api[h].key,
               r.pc = "commit" /\ r.key # None =>
                 (\A n \in Ids : ~KeyOf(n, r.user, r.key)) /\ ~KeyTaken(h),
               r.pc = "respond" /\ r.key # None => KeyOf(r.note, r.user, r.key),
               r.pc = "duplicate" => r.key # None /\ \E n \in Ids : KeyOf(n, r.user, r.key),
               \A a \in answers' : KeyOf(a.note, a.user, a.key)
        PROVE  KeyInv' /\ DuplicateHasRow' /\ OneRowPerKey'
    <3>1. /\ \A n, u, k : KeyOf(n, u, k)' <=> KeyOf(n, u, k)
          /\ OneRowPerKey'
      BY <1>3, <2>2
    <3>2. /\ api'[h] = r
          /\ \A g \in Handlers \ {h} : api'[g] = api[g]
      BY <1>1, <2>2 DEF Become
    <3>3. \A n \in Stored : notes'[n].owner = notes[n].owner /\ notes'[n].key = notes[n].key
      BY <1>2
    <3>4. \A a \in answers' : KeyOf(a.note, a.user, a.key)'
      BY <2>2, <3>1
    <3>5. DuplicateHasRow'
      <4> SUFFICES ASSUME NEW g \in Handlers
                   PROVE (api[g].pc = "duplicate" =>
                     api[g].key # None /\ \E n \in Ids : KeyOf(n, api[g].user, api[g].key))'
        BY <1>4
      <4>1. CASE g = h
        BY <2>2, <3>2, <3>3, <4>1 DEF KeyOf
      <4>2. CASE g # h
        BY <1>1, <2>2, <3>2, <3>3, <4>2 DEF KeyOf
      <4> QED BY <4>1, <4>2
    <3>6. ASSUME NEW g \in Handlers PROVE KeyFree(g)' /\ KeyStored(g)'
      <4>1. CASE g = h
        <5>1. KeyStored(g)'
          BY <2>2, <3>2, <3>3, <4>1 DEF KeyStored, KeyOf
        <5>2. KeyFree(g)'
          BY <2>2, <3>2, <3>3, <4>1 DEF KeyFree, KeyOf, KeyTaken
        <5> QED BY <5>1, <5>2
      <4>2. CASE g # h
        <5>1. KeyStored(g)'
          BY <1>1, <2>2, <3>2, <3>3, <4>2 DEF KeyInv, KeyStored, KeyOf
        <5>2. (api[g].pc = "commit" /\ api[g].key # None => \A n \in Ids : ~KeyOf(n, api[g].user, api[g].key))'
          BY <1>1, <2>2, <3>2, <3>3, <4>2 DEF KeyInv, KeyFree, KeyOf
        <5>3. (api[g].pc = "commit" /\ api[g].key # None => ~KeyTaken(g))'
          BY <1>1, <2>2, <3>2, <4>2 DEF KeyInv, KeyFree, KeyTaken
        <5> QED BY <5>1, <5>2, <5>3 DEF KeyFree
      <4> QED BY <4>1, <4>2
    <3>7. KeyInv'
      BY <3>4, <3>6 DEF KeyInv
    <3> QED BY <3>1, <3>5, <3>7
  <2>3. \A a \in answers : KeyOf(a.note, a.user, a.key)
    BY <1>1 DEF KeyInv
  <2>4. UNCHANGED notes => Stored' = Stored
    BY DEF Stored
  <2>5. Idle.pc = "idle"
    BY DEF Idle
  <2>6. ASSUME NEW found, NEW new \in BOOLEAN,
               found \subseteq WithKey(api[h].user, api[h].key) \/ api[h].key = None
        PROVE  \A a \in Answered(h, found, new) : KeyOf(a.note, a.user, a.key)
    BY <2>6 DEF Answered, WithKey, KeyOf
  <2>7. CASE ReceiveCreate(h)
    <3>1. PICK u \in Users, k \in Keys \cup {None}, t \in Times \cup {None} :
            Become(h, [api[h] EXCEPT !.pc = "create", !.user = u, !.key = k, !.at = t])
      BY <2>7 DEF ReceiveCreate
    <3>2. [api[h] EXCEPT !.pc = "create", !.user = u, !.key = k, !.at = t].pc = "create"
      BY <1>1 DEF Requests
    <3> QED BY <2>2, <2>3, <2>4, <2>7, <3>1, <3>2 DEF ReceiveCreate, dbVars
  <2>8. CASE CheckKey(h)
    <3>1. UNCHANGED notes /\ api[h].pc = "create"
      BY <2>8 DEF CheckKey, dbVars
    <3>2. CASE /\ Done(h)
               /\ answers' = answers \cup
                    Answered(h, IF api[h].key = None THEN {}
                                ELSE WithKey(api[h].user, api[h].key), FALSE)
      <4>1. \A a \in answers' : KeyOf(a.note, a.user, a.key)
        BY <2>3, <2>6, <3>2
      <4> QED BY <2>2, <2>4, <2>5, <3>1, <3>2, <4>1 DEF Done
    <3>3. CASE /\ UNCHANGED answers
               /\ \E n \in FreshIds :
                    Become(h, [api[h] EXCEPT
                      !.pc = "insert", !.note = n,
                      !.status = IF Immediate(api[h].at) THEN "created" ELSE "scheduled"])
      <4>1. PICK n \in FreshIds :
              Become(h, [api[h] EXCEPT
                !.pc = "insert", !.note = n,
                !.status = IF Immediate(api[h].at) THEN "created" ELSE "scheduled"])
        BY <3>3
      <4>2. [api[h] EXCEPT
              !.pc = "insert", !.note = n,
              !.status = IF Immediate(api[h].at) THEN "created" ELSE "scheduled"].pc = "insert"
        BY <1>1 DEF Requests
      <4> QED BY <2>2, <2>3, <2>4, <3>1, <3>3, <4>1, <4>2
    <3> QED BY <2>8, <3>2, <3>3 DEF CheckKey
  <2>9. \A pc \in Pcs : LET r == [api[h] EXCEPT !.pc = pc]
                        IN r.pc = pc /\ r.user = api[h].user /\ r.key = api[h].key /\ r.note = api[h].note
    BY <1>1 DEF Requests
  <2>10. CASE Insert(h)
    <3>1. UNCHANGED <<notes, answers>> /\ ~KeyTaken(h)
      BY <2>10 DEF Insert, dbVars
    <3>2. CASE /\ Goto(h, "duplicate")
               /\ api[h].key # None /\ WithKey(api[h].user, api[h].key) # {}
      <4>1. \E n \in Ids : KeyOf(n, api[h].user, api[h].key)
        BY <3>2 DEF WithKey, KeyOf, Stored
      <4> QED BY <2>2, <2>3, <2>4, <2>9, <3>1, <3>2, <4>1 DEF Goto, Pcs
    <3>3. CASE /\ Goto(h, "commit")
               /\ ~(api[h].key # None /\ WithKey(api[h].user, api[h].key) # {})
      <4>1. api[h].key # None => \A n \in Ids : ~KeyOf(n, api[h].user, api[h].key)
        BY <3>3 DEF WithKey, KeyOf, Stored
      <4> QED BY <2>2, <2>3, <2>4, <2>9, <3>1, <3>3, <4>1 DEF Goto, Pcs
    <3> QED BY <2>10, <3>2, <3>3 DEF Insert
  <2>11. CASE Commit(h)
    <3> DEFINE n == api[h].note
               row == [owner |-> api[h].user, key |-> api[h].key,
                       scheduledAt |-> api[h].at, status |-> api[h].status]
    <3>1. /\ api[h].pc = "commit" /\ n \in Ids /\ n \notin Stored /\ UNCHANGED answers
          /\ api[h].user \in Users
      BY <1>1, <2>11 DEF Commit, IInv, HandlerInv, Creating
    <3>2. row # None
      BY <1>1, <3>1, Fields, NoneAssumption DEF NoteRows, Statuses, IInv, TypeOK
    <3>3. notes' = [notes EXCEPT ![n] = row]
      BY <2>11 DEF Commit
    <3>4. row.owner = api[h].user /\ row.key = api[h].key
      OBVIOUS
    <3> HIDE DEF row
    <3>5. /\ Stored' = Stored \cup {n} /\ notes'[n] = row
          /\ \A m \in Stored : notes'[m] = notes[m]
      BY <3>1, <3>2, <3>3 DEF Stored, IInv, TypeOK, DbTypeOK
    <3>6. /\ api'[h].pc = "respond" /\ api'[h].user = api[h].user
          /\ api'[h].key = api[h].key /\ api'[h].note = n
          /\ \A g \in Handlers \ {h} : api'[g] = api[g]
      BY <1>1, <2>9, <2>11 DEF Commit, Goto, Become, Pcs
    <3>7. api[h].key # None => /\ \A m \in Ids : ~KeyOf(m, api[h].user, api[h].key)
                               /\ ~KeyTaken(h)
      BY <1>1, <3>1 DEF KeyInv, KeyFree
    <3>8. OneRowPerKey'
      <4>1. \A m \in Stored : api[h].key # None =>
              ~(notes[m].owner = api[h].user /\ notes[m].key = api[h].key)
        BY <3>7 DEF KeyOf, Stored
      <4> QED BY <1>1, <3>4, <3>5, <4>1 DEF OneRowPerKey
    <3>9. \A a \in answers' : KeyOf(a.note, a.user, a.key)'
      BY <1>1, <3>1, <3>5 DEF KeyInv, KeyOf
    <3>10. DuplicateHasRow'
      <4> SUFFICES ASSUME NEW g \in Handlers
                   PROVE (api[g].pc = "duplicate" =>
                     api[g].key # None /\ \E m \in Ids : KeyOf(m, api[g].user, api[g].key))'
        BY <1>4
      <4>1. CASE g = h
        BY <3>6, <4>1
      <4>2. CASE g # h
        BY <1>1, <3>5, <3>6, <4>2 DEF KeyOf
      <4> QED BY <4>1, <4>2
    <3>11. ASSUME NEW g \in Handlers PROVE KeyFree(g)' /\ KeyStored(g)'
      <4>1. CASE g = h
        BY <3>4, <3>5, <3>6, <4>1 DEF KeyFree, KeyStored, KeyOf
      <4>2. CASE g # h
        <5>1. KeyStored(g)'
          BY <1>1, <3>5, <3>6, <4>2 DEF KeyInv, KeyStored, KeyOf
        <5>2. (api[g].pc = "commit" /\ api[g].key # None => ~KeyTaken(g))'
          BY <1>1, <3>6, <4>2 DEF KeyInv, KeyFree, KeyTaken
        <5>3. api[g].pc = "commit" /\ api[g].key # None =>
                ~(api[g].user = api[h].user /\ api[g].key = api[h].key)
          BY <3>1, <3>7, <4>2 DEF KeyTaken
        <5>4. (api[g].pc = "commit" /\ api[g].key # None => \A m \in Ids : ~KeyOf(m, api[g].user, api[g].key))'
          BY <1>1, <3>4, <3>5, <3>6, <4>2, <5>3 DEF KeyInv, KeyFree, KeyOf
        <5> QED BY <5>1, <5>2, <5>4 DEF KeyFree
      <4> QED BY <4>1, <4>2
    <3>12. KeyInv'
      BY <3>9, <3>11 DEF KeyInv
    <3> QED BY <3>8, <3>10, <3>12
  <2>12. CASE Respond(h)
    <3>1. api[h].key # None => api[h].note \in WithKey(api[h].user, api[h].key)
      BY <1>1, <2>12 DEF Respond, KeyInv, KeyStored, KeyOf, WithKey
    <3>2. \A a \in answers' : KeyOf(a.note, a.user, a.key)
      BY <2>3, <2>6, <2>12, <3>1 DEF Respond
    <3> QED BY <2>2, <2>4, <2>5, <2>12, <3>2 DEF Respond, Done, dbVars
  <2>13. CASE Reread(h)
    <3>1. \A a \in answers' : KeyOf(a.note, a.user, a.key)
      BY <2>3, <2>6, <2>13 DEF Reread
    <3> QED BY <2>2, <2>4, <2>5, <2>13, <3>1 DEF Reread, Done, dbVars
  <2>14. CASE ReceiveCancel(h)
    <3>1. PICK u \in Users, n \in Stored :
            Become(h, [api[h] EXCEPT !.pc = "cancel", !.user = u, !.note = n])
      BY <2>14 DEF ReceiveCancel
    <3>2. [api[h] EXCEPT !.pc = "cancel", !.user = u, !.note = n].pc = "cancel"
      BY <1>1 DEF Requests
    <3> QED BY <2>2, <2>3, <2>4, <2>14, <3>1, <3>2 DEF ReceiveCancel, dbVars
  <2>15. CASE ReadForCancel(h)
    <3>1. Goto(h, "cancelling") \/ Done(h)
      BY <2>15 DEF ReadForCancel
    <3> QED BY <2>2, <2>3, <2>4, <2>5, <2>9, <2>15, <3>1 DEF ReadForCancel, Goto, Done, Pcs, dbVars
  <2>16. CASE CancelIfScheduled(h)
    <3>1. Stored' = Stored
      <4>1. \A n \in Ids \ Stored : notes'[n] = None
        BY <2>16 DEF CancelIfScheduled, IInv, HandlerInv, Stored, TypeOK, DbTypeOK
      <4> QED BY <1>2, <4>1 DEF Stored
    <3> QED BY <2>2, <2>3, <2>5, <2>16, <3>1 DEF CancelIfScheduled, Done
  <2>17. CASE AbortHandler(h)
    BY <2>2, <2>3, <2>4, <2>5, <2>17 DEF AbortHandler, Done
  <2> QED BY <2>1, <2>7, <2>8, <2>10, <2>11, <2>12, <2>13, <2>14, <2>15, <2>16, <2>17
<1>7. CASE UNCHANGED apiVars
  <2>1. Stored' = Stored
    <3>1. ASSUME NEW h \in Handlers, Commit(h) PROVE FALSE
      BY <1>1, <1>7, <3>1 DEF apiVars, Commit, Goto, Become, Requests
    <3> QED BY <3>1, NewRows
  <2> QED BY <1>5, <1>7, <2>1
<1> QED BY <1>6, <1>7 DEF Next, vars

-----------------------------------------------------------------------------
(* Publications.                                                           *)

\* Handlers and schedulers add unpublished events and change none.
LEMMA EventsAdded ==
    ASSUME IInv, ApiNext \/ SchedulerNext
    PROVE  /\ \A e \in Events : e \in Events' /\ outbox'[e] = outbox[e]
           /\ \A e \in Events' : e \in Events \/ ~outbox'[e].published
           /\ UNCHANGED stream
<1>1. \A e \in Events : e \in EventIds /\ outbox[e] # None
  BY DEF Events
<1>2. outbox \in [EventIds -> EventRows \cup {None}]
  BY DEF IInv, TypeOK, DbTypeOK
<1>3. \A n : ~NewEvent(n).published
  BY DEF NewEvent
<1>4. CASE UNCHANGED <<outbox, stream>>
  BY <1>1, <1>4 DEF Events
<1>5. ASSUME NEW h \in Handlers, Commit(h)
      PROVE  /\ \A e \in Events : outbox'[e] = outbox[e]
             /\ \A e \in EventIds \ Events : outbox'[e] # None => ~outbox'[e].published
             /\ UNCHANGED stream
  BY <1>1, <1>2, <1>3, <1>5 DEF Commit, Events
<1>6. ASSUME NEW s \in Schedulers, CommitTick(s)
      PROVE  /\ \A e \in Events : outbox'[e] = outbox[e]
             /\ \A e \in EventIds \ Events : outbox'[e] # None => ~outbox'[e].published
             /\ UNCHANGED stream
  BY <1>1, <1>2, <1>3, <1>6 DEF CommitTick, Events
<1> QED BY <1>1, <1>4, <1>5, <1>6, QuietHandlers, QuietSchedulers DEF CancelIfScheduled, Events

LEMMA BatchStep == IInv /\ [Next]_vars => BatchInv' /\ PublishedIsStored'
<1> SUFFICES ASSUME IInv, [Next]_vars PROVE BatchInv' /\ PublishedIsStored'
  OBVIOUS
<1>1. /\ BatchInv /\ PublishedIsStored
      /\ batch \in [Publishers -> Transactions]
      /\ stream \in [EventIds -> Nat]
      /\ \A e \in Events : e \in EventIds
      /\ \A p \in Publishers : /\ batch[p] \in Transactions
                               /\ batch[p].held \subseteq EventIds
  BY Fields DEF IInv, TypeOK, DbTypeOK, PublisherTypeOK, Events
<1>2. CASE (ApiNext \/ SchedulerNext) /\ UNCHANGED batch
  <2>1. /\ \A e \in Events : e \in Events' /\ outbox'[e] = outbox[e]
        /\ \A e \in Events' : e \in Events \/ ~outbox'[e].published
        /\ UNCHANGED <<stream, batch>>
    BY <1>2, EventsAdded
  <2>2. BatchInv'
    BY <1>1, <2>1 DEF BatchInv
  <2>3. PublishedIsStored'
    BY <1>1, <2>1 DEF PublishedIsStored
  <2> QED BY <2>2, <2>3
<1>3. CASE UNCHANGED <<outbox, stream, batch>>
  BY <1>1, <1>3 DEF BatchInv, PublishedIsStored, Events
<1>4. CASE PublisherNext
  <2>1. PICK p \in Publishers :
          \/ LockUnpublished(p) \/ Publish(p) \/ MarkPublished(p) \/ MarkFailed(p)
          \/ CommitBatch(p) \/ PublishFails(p) \/ AbortBatch(p)
    BY <1>4 DEF PublisherNext, PublisherStep
  \* What the new transaction of p has to satisfy, when no event but p's own
  \* changes in the outbox and the stream only grows.
  <2>2. ASSUME NEW tx, Continue(p, tx), Events' = Events,
               \A e \in Events : e \notin batch[p].held => outbox'[e] = outbox[e],
               \A e \in Events : outbox'[e].published => stream'[e] > 0,
               \A e \in EventIds : /\ stream[e] > 0 => stream'[e] > 0
                                   /\ stream'[e] > 0 => e \in Events,
               \A e \in tx.held : /\ e \in Events /\ ~outbox'[e].published
                                  /\ \A q \in Publishers \ {p} : e \notin batch[q].held,
               tx.todo \subseteq tx.held, tx.failed \subseteq tx.held,
               \A e \in tx.sent : e \in tx.held /\ stream'[e] > 0,
               tx.pc = "mark" => tx.event \in tx.held /\ stream'[tx.event] > 0,
               tx.pc = "markFailed" => tx.event \in tx.held
        PROVE  BatchInv' /\ PublishedIsStored'
    <3>1. /\ batch'[p] = tx
          /\ \A q \in Publishers \ {p} : batch'[q] = batch[q]
      BY <1>1, <2>2 DEF Continue
    <3>2. ASSUME NEW q \in Publishers \ {p}, NEW e \in batch[q].held
          PROVE  /\ e \in Events /\ e \in EventIds /\ ~outbox'[e].published
                 /\ \A r \in Publishers \ {q} : e \notin batch'[r].held
      BY <1>1, <2>2, <3>1 DEF BatchInv
    <3>3. ASSUME NEW q \in Publishers
          PROVE  /\ \A e \in batch'[q].held :
                      /\ e \in Events' /\ ~outbox'[e].published
                      /\ \A r \in Publishers \ {q} : e \notin batch'[r].held
                 /\ batch'[q].todo \subseteq batch'[q].held
                 /\ batch'[q].failed \subseteq batch'[q].held
                 /\ \A e \in batch'[q].sent : e \in batch'[q].held /\ stream'[e] > 0
                 /\ batch'[q].pc = "mark" =>
                      batch'[q].event \in batch'[q].held /\ stream'[batch'[q].event] > 0
                 /\ batch'[q].pc = "markFailed" => batch'[q].event \in batch'[q].held
      <4>1. CASE q = p
        BY <2>2, <3>1, <4>1
      <4>2. CASE q # p
        <5>1. batch'[q] = batch[q]
          BY <3>1, <4>2
        <5>2. /\ batch[q].todo \subseteq batch[q].held
              /\ batch[q].failed \subseteq batch[q].held
              /\ \A e \in batch[q].sent : e \in batch[q].held /\ stream[e] > 0
              /\ batch[q].pc = "mark" =>
                   batch[q].event \in batch[q].held /\ stream[batch[q].event] > 0
              /\ batch[q].pc = "markFailed" => batch[q].event \in batch[q].held
          BY <1>1 DEF BatchInv
        <5>3. batch[q].held \subseteq EventIds
          BY <1>1
        <5> QED BY <2>2, <3>2, <4>2, <5>1, <5>2, <5>3
      <4> QED BY <4>1, <4>2
    <3> QED BY <1>1, <2>2, <3>3 DEF BatchInv, PublishedIsStored
  <2>3. /\ \A e \in Events : outbox[e].published => stream[e] > 0
        /\ \A e \in EventIds : stream[e] > 0 => e \in Events
        /\ \A e \in batch[p].held : /\ e \in Events /\ ~outbox[e].published
                                    /\ \A q \in Publishers \ {p} : e \notin batch[q].held
        /\ batch[p].todo \subseteq batch[p].held
        /\ batch[p].failed \subseteq batch[p].held
        /\ \A e \in batch[p].sent : e \in batch[p].held /\ stream[e] > 0
        /\ batch[p].pc = "mark" => batch[p].event \in batch[p].held /\ stream[batch[p].event] > 0
        /\ batch[p].pc = "markFailed" => batch[p].event \in batch[p].held
    BY <1>1 DEF BatchInv, PublishedIsStored
  <2>4. /\ NoBatch.held = {} /\ NoBatch.todo = {} /\ NoBatch.sent = {} /\ NoBatch.failed = {}
        /\ NoBatch.pc = "idle"
    BY DEF NoBatch
  <2>5. UNCHANGED outbox => Events' = Events
    BY DEF Events
  <2>6. CASE LockUnpublished(p)
    <3>1. PICK b \in SUBSET {e \in Unpublished : ~EventLocked(e)} :
            Continue(p, [NoBatch EXCEPT !.pc = "publish", !.held = b, !.todo = b])
      BY <2>6 DEF LockUnpublished, Batches
    <3> DEFINE tx == [NoBatch EXCEPT !.pc = "publish", !.held = b, !.todo = b]
    <3>2. /\ tx.pc = "publish" /\ tx.held = b /\ tx.todo = b /\ tx.sent = {} /\ tx.failed = {}
      BY DEF NoBatch
    <3>3. \A e \in b : /\ e \in Events /\ ~outbox[e].published
                       /\ \A q \in Publishers : e \notin batch[q].held
      BY DEF Unpublished, EventLocked
    <3>4. UNCHANGED <<outbox, stream>>
      BY <2>6 DEF LockUnpublished, dbVars
    <3> HIDE DEF tx
    <3>5. Continue(p, tx)
      BY <3>1 DEF tx
    <3> QED BY <2>2, <2>3, <2>5, <3>2, <3>3, <3>4, <3>5
  <2>7. ASSUME NEW pc \in {"mark", "markFailed"}, NEW e \in NextEvent(p),
               Continue(p, [batch[p] EXCEPT !.pc = pc, !.event = e, !.todo = @ \ {e}]),
               UNCHANGED outbox,
               \/ stream' = [stream EXCEPT ![e] = @ + 1]
               \/ pc = "markFailed" /\ UNCHANGED stream
        PROVE  BatchInv' /\ PublishedIsStored'
    <3> DEFINE tx == [batch[p] EXCEPT !.pc = pc, !.event = e, !.todo = @ \ {e}]
    <3>1. /\ tx.pc = pc /\ tx.event = e /\ tx.todo = batch[p].todo \ {e}
          /\ tx.held = batch[p].held /\ tx.sent = batch[p].sent /\ tx.failed = batch[p].failed
      BY <1>1 DEF Transactions
    <3>2. e \in batch[p].held /\ e \in Events /\ e \in EventIds
      BY <1>1, <2>3 DEF NextEvent
    <3>3. \A d \in EventIds : /\ stream[d] > 0 => stream'[d] > 0
                              /\ stream'[d] > 0 => stream[d] > 0 \/ d = e
      BY <1>1, <2>7, <3>2
    <3>4. pc = "mark" => stream'[e] > 0
      BY <1>1, <2>7, <3>2
    <3> HIDE DEF tx
    <3>5. Continue(p, tx)
      BY <2>7 DEF tx
    <3> QED BY <1>1, <2>2, <2>3, <2>5, <2>7, <3>1, <3>2, <3>3, <3>4, <3>5
  <2>8. CASE Publish(p)
    <3>1. UNCHANGED outbox
      BY <2>8 DEF Publish
    <3>2. PICK e \in NextEvent(p) :
            /\ \/ stream' = [stream EXCEPT ![e] = @ + 1]
               \/ "mark" = "markFailed" /\ UNCHANGED stream
            /\ Continue(p, [batch[p] EXCEPT !.pc = "mark", !.event = e, !.todo = @ \ {e}])
      BY <2>8 DEF Publish
    <3> QED BY <2>7, <3>1, <3>2
  <2>9. CASE PublishFails(p)
    <3>1. UNCHANGED outbox
      BY <2>9 DEF PublishFails
    <3>2. PICK e \in NextEvent(p) :
            /\ \/ stream' = [stream EXCEPT ![e] = @ + 1]
               \/ "markFailed" = "markFailed" /\ UNCHANGED stream
            /\ Continue(p, [batch[p] EXCEPT !.pc = "markFailed", !.event = e, !.todo = @ \ {e}])
      BY <2>9 DEF PublishFails
    <3> QED BY <2>7, <3>1, <3>2
  <2>10. CASE MarkPublished(p)
    <3> DEFINE tx == [batch[p] EXCEPT !.pc = "publish", !.event = None,
                                      !.sent = @ \cup {batch[p].event}]
    <3>1. /\ tx.pc = "publish" /\ tx.todo = batch[p].todo /\ tx.held = batch[p].held
          /\ tx.sent = batch[p].sent \cup {batch[p].event} /\ tx.failed = batch[p].failed
      BY <1>1 DEF Transactions
    <3>2. /\ UNCHANGED <<outbox, stream>> /\ batch[p].pc = "mark"
          /\ Continue(p, tx)
      BY <2>10 DEF MarkPublished, dbVars
    <3> HIDE DEF tx
    <3> QED BY <2>2, <2>3, <2>5, <3>1, <3>2
  <2>11. CASE MarkFailed(p)
    <3> DEFINE tx == [batch[p] EXCEPT !.pc = "publish", !.event = None,
                                      !.failed = @ \cup {batch[p].event}]
    <3>1. /\ tx.pc = "publish" /\ tx.todo = batch[p].todo /\ tx.held = batch[p].held
          /\ tx.failed = batch[p].failed \cup {batch[p].event} /\ tx.sent = batch[p].sent
      BY <1>1 DEF Transactions
    <3>2. /\ UNCHANGED <<outbox, stream>> /\ batch[p].pc = "markFailed"
          /\ Continue(p, tx)
      BY <2>11 DEF MarkFailed, dbVars
    <3> HIDE DEF tx
    <3> QED BY <2>2, <2>3, <2>5, <3>1, <3>2
  <2>12. CASE CommitBatch(p)
    <3>1. UNCHANGED stream /\ Continue(p, NoBatch)
      BY <2>12 DEF CommitBatch
    <3>2. \A e \in Events : e \notin batch[p].held => outbox'[e] = outbox[e]
      BY <1>1, <2>3, <2>12 DEF CommitBatch
    <3>3. \A e \in Events : e \in Events'
      BY HistoryStep, InvTablesStay, TypeStep
    <3>4. \A e \in Events' : e \in Events
      BY <1>1, <2>3, <2>12 DEF CommitBatch, Events
    <3>5. ASSUME NEW e \in Events, outbox'[e].published, e \in batch[p].held
          PROVE  stream[e] > 0
      <4>1. e \in EventIds /\ outbox[e] \in EventRows
        BY Fields DEF IInv, TypeOK
      <4>2. CASE e \in batch[p].sent
        BY <2>3, <4>2
      <4>3. CASE e \in batch[p].failed /\ e \notin batch[p].sent
        <5>1. outbox'[e] = [outbox[e] EXCEPT !.published = @ \/ e \in batch[p].sent,
                                             !.failed = e \notin batch[p].sent]
          BY <2>12, <4>1, <4>3 DEF CommitBatch
        <5>2. outbox'[e].published = (outbox[e].published \/ e \in batch[p].sent)
          BY <4>1, <5>1 DEF EventRows
        <5> QED BY <2>3, <3>5, <4>3, <5>2
      <4>4. CASE e \notin batch[p].failed \cup batch[p].sent
        BY <2>3, <2>12, <3>5, <4>1, <4>4 DEF CommitBatch
      <4> QED BY <4>2, <4>3, <4>4
    <3>6. \A e \in Events : outbox'[e].published => stream[e] > 0
      BY <2>3, <3>2, <3>5
    <3>7. Events' = Events
      BY <3>3, <3>4
    <3> QED BY <2>2, <2>3, <2>4, <3>1, <3>2, <3>6, <3>7
  <2>13. CASE AbortBatch(p)
    BY <2>2, <2>3, <2>4, <2>5, <2>13 DEF AbortBatch
  <2> QED BY <2>1, <2>6, <2>8, <2>9, <2>10, <2>11, <2>12, <2>13
<1> QED BY <1>2, <1>3, <1>4 DEF Next, vars, dbVars, Tick

-----------------------------------------------------------------------------
(* Copies in the stream.                                                   *)

\* The publication of e is recorded, or about to be.
Recorded(e) ==
    \/ e \in Events /\ outbox[e].published
    \/ \E p \in Publishers :
         e \in batch[p].sent \/ (batch[p].pc = "mark" /\ batch[p].event = e)

\* A copy is recorded, or it took a fault. What a publisher has marked or is
\* about to mark it does not publish again.
CopyInv ==
    /\ \A p \in Publishers :
         /\ batch[p].pc = "idle" => batch[p].sent = {}
         /\ \A e \in batch[p].sent : e \notin batch[p].todo
         /\ batch[p].pc = "mark" => batch[p].event \notin batch[p].todo
    /\ \A e \in EventIds : stream[e] <= faults + IF Recorded(e) THEN 1 ELSE 0

LEMMA FaultsGrow ==
    ASSUME IInv, [Next]_vars
    PROVE  faults \in Nat /\ faults' \in Nat /\ faults <= faults'
<1>1. faults \in Nat
  BY BoundsAssumption DEF IInv, TypeOK, DbTypeOK
<1>2. faults' = faults \/ faults' = faults + 1
  <2>1. CASE ApiNext
    BY <2>1 DEF ApiNext, ReceiveCreate, CheckKey, Insert, Commit, Respond, Reread, ReceiveCancel,
            ReadForCancel, CancelIfScheduled, AbortHandler, dbVars, Fault
  <2>2. CASE SchedulerNext
    BY <2>2 DEF SchedulerNext, SchedulerStep, LockDue, MarkQueued, CommitTick, AbortTick, dbVars, Fault
  <2>3. CASE PublisherNext
    BY <2>3 DEF PublisherNext, PublisherStep, LockUnpublished, Publish, PublishFails,
            MarkPublished, MarkFailed, CommitBatch, AbortBatch, dbVars, Fault
  <2> QED BY <2>1, <2>2, <2>3 DEF Next, Tick, vars, dbVars
<1> QED BY <1>1, <1>2

\* A step that publishes nothing and takes no record back.
LEMMA CopiesStay ==
    ASSUME IInv, [Next]_vars, CopyInv, UNCHANGED stream,
           \A e \in EventIds : Recorded(e) => Recorded(e)' \/ faults' = faults + 1
    PROVE  \A e \in EventIds :
             stream'[e] <= faults' + IF Recorded(e)' THEN 1 ELSE 0
<1>1. \A e \in EventIds : stream[e] \in Nat
  BY DEF IInv, TypeOK, DbTypeOK
<1> QED BY <1>1, FaultsGrow DEF CopyInv

\* The transaction of the publisher p goes on as tx.
LEMMA NextBatch ==
    ASSUME IInv, CopyInv, NEW p \in Publishers, NEW tx, Continue(p, tx),
           tx.pc = "idle" => tx.sent = {},
           \A e \in tx.sent : e \notin tx.todo,
           tx.pc = "mark" => tx.event \notin tx.todo
    PROVE  /\ batch'[p] = tx /\ \A q \in Publishers \ {p} : batch'[q] = batch[q]
           /\ \A q \in Publishers :
                /\ batch'[q].pc = "idle" => batch'[q].sent = {}
                /\ \A e \in batch'[q].sent : e \notin batch'[q].todo
                /\ batch'[q].pc = "mark" => batch'[q].event \notin batch'[q].todo
<1>1. batch'[p] = tx /\ \A q \in Publishers \ {p} : batch'[q] = batch[q]
  BY DEF Continue, IInv, TypeOK, PublisherTypeOK
<1> QED BY <1>1 DEF CopyInv

\* An event the publisher p is to publish has no recorded copy.
LEMMA Unrecorded ==
    ASSUME IInv, CopyInv, NEW p \in Publishers, batch[p].pc = "publish", NEW e \in batch[p].todo
    PROVE  ~Recorded(e)
<1>1. /\ e \in batch[p].held /\ ~outbox[e].published
      /\ \A q \in Publishers \ {p} : e \notin batch[q].held
  BY DEF IInv, BatchInv
<1>2. \A q \in Publishers \ {p} : e \notin batch[q].sent /\ ~(batch[q].pc = "mark" /\ batch[q].event = e)
  BY <1>1 DEF IInv, BatchInv
<1> QED BY <1>1, <1>2 DEF Recorded, CopyInv

\* CommitBatch records what the publisher has sent.
LEMMA MarksCommitted ==
    ASSUME IInv, [Next]_vars, NEW p \in Publishers, CommitBatch(p)
    PROVE  \A e \in Events :
             /\ e \in Events'
             /\ outbox[e].published \/ e \in batch[p].sent => outbox'[e].published
<1> SUFFICES ASSUME NEW e \in Events
             PROVE  /\ e \in Events'
                    /\ outbox[e].published \/ e \in batch[p].sent => outbox'[e].published
  OBVIOUS
<1>1. e \in EventIds /\ outbox[e] \in EventRows
  BY Fields DEF IInv, TypeOK
<1>2. e \in Events'
  BY HistoryStep, InvTablesStay, TypeStep
<1>3. CASE e \in batch[p].sent \cup batch[p].failed
  <2>1. outbox'[e] = [outbox[e] EXCEPT !.published = @ \/ e \in batch[p].sent,
                                       !.failed = e \notin batch[p].sent]
    BY <1>1, <1>3 DEF CommitBatch
  <2>2. outbox'[e].published = (outbox[e].published \/ e \in batch[p].sent)
    BY <1>1, <2>1 DEF EventRows
  <2> QED BY <1>2, <2>2
<1>4. CASE e \notin batch[p].sent \cup batch[p].failed
  BY <1>1, <1>2, <1>4 DEF CommitBatch
<1> QED BY <1>3, <1>4

LEMMA CopyStep == IInv /\ CopyInv /\ [Next]_vars => CopyInv'
<1> SUFFICES ASSUME IInv, CopyInv, [Next]_vars PROVE CopyInv'
  OBVIOUS
<1>1. /\ \A p \in Publishers : batch[p] \in Transactions
      /\ \A e \in EventIds : stream[e] \in Nat
  BY Fields DEF IInv, TypeOK, DbTypeOK
<1>2. CASE UNCHANGED batch /\ UNCHANGED stream
                /\ \A e \in Events : e \in Events' /\ outbox'[e] = outbox[e]
  <2>1. \A e \in EventIds : Recorded(e) => Recorded(e)'
    BY <1>2 DEF Recorded
  <2> QED BY <1>2, <2>1, CopiesStay DEF CopyInv
<1>3. CASE PublisherNext
  <2>1. PICK p \in Publishers :
          \/ LockUnpublished(p) \/ Publish(p) \/ MarkPublished(p) \/ MarkFailed(p)
          \/ CommitBatch(p) \/ PublishFails(p) \/ AbortBatch(p)
    BY <1>3 DEF PublisherNext, PublisherStep
  <2>2. NoBatch.sent = {} /\ NoBatch.todo = {} /\ NoBatch.pc = "idle"
    BY DEF NoBatch
  <2>3. UNCHANGED outbox => Events' = Events
    BY DEF Events
  \* The new transaction of p, when no copy is made: what it had recorded, it
  \* or the table still has, or there was a fault.
  <2>4. ASSUME NEW tx, Continue(p, tx), UNCHANGED stream,
               tx.pc = "idle" => tx.sent = {},
               \A e \in tx.sent : e \notin tx.todo,
               tx.pc = "mark" => tx.event \notin tx.todo,
               \/ faults' = faults + 1
               \/ /\ \A e \in Events : outbox[e].published =>
                       e \in Events' /\ outbox'[e].published
                  /\ \A e \in EventIds :
                       e \in batch[p].sent \/ (batch[p].pc = "mark" /\ batch[p].event = e) =>
                         \/ e \in tx.sent
                         \/ e \in Events' /\ outbox'[e].published
        PROVE  CopyInv'
    <3>1. /\ batch'[p] = tx /\ \A q \in Publishers \ {p} : batch'[q] = batch[q]
          /\ \A q \in Publishers :
               /\ batch'[q].pc = "idle" => batch'[q].sent = {}
               /\ \A e \in batch'[q].sent : e \notin batch'[q].todo
               /\ batch'[q].pc = "mark" => batch'[q].event \notin batch'[q].todo
      BY <2>4, NextBatch
    <3>2. \A e \in EventIds : Recorded(e) => Recorded(e)' \/ faults' = faults + 1
      BY <2>4, <3>1 DEF Recorded
    <3> QED BY <2>4, <3>1, <3>2, CopiesStay DEF CopyInv
  \* A copy of an event with no recorded copy: to be recorded, or a fault.
  <2>5. ASSUME NEW e \in NextEvent(p), NEW next \in {"mark", "markFailed"},
               batch[p].pc = "publish", UNCHANGED outbox,
               \/ stream' = [stream EXCEPT ![e] = @ + 1]
               \/ UNCHANGED stream,
               Continue(p, [batch[p] EXCEPT !.pc = next, !.event = e, !.todo = @ \ {e}]),
               next = "mark" \/ faults' = faults + 1
        PROVE  CopyInv'
    <3>1. e \in batch[p].todo /\ e \in EventIds
      BY Fields DEF NextEvent, IInv, TypeOK
    <3>2. ~Recorded(e)
      BY <2>5, <3>1, Unrecorded
    <3>3. PICK tx : tx = [batch[p] EXCEPT !.pc = next, !.event = e, !.todo = @ \ {e}]
      OBVIOUS
    <3>4. /\ tx.pc = next /\ tx.event = e /\ tx.todo = batch[p].todo \ {e}
          /\ tx.sent = batch[p].sent
      BY <1>1, <3>3 DEF Transactions
    <3>5. /\ \A d \in tx.sent : d \notin tx.todo
          /\ tx.pc # "idle"
          /\ tx.event \notin tx.todo
      BY <2>5, <3>4 DEF CopyInv
    <3>6. /\ batch'[p] = tx /\ \A q \in Publishers \ {p} : batch'[q] = batch[q]
          /\ \A q \in Publishers :
               /\ batch'[q].pc = "idle" => batch'[q].sent = {}
               /\ \A d \in batch'[q].sent : d \notin batch'[q].todo
               /\ batch'[q].pc = "mark" => batch'[q].event \notin batch'[q].todo
      BY <2>5, <3>3, <3>5, NextBatch
    <3>7. \A d \in EventIds : Recorded(d) => Recorded(d)'
      BY <2>3, <2>5, <3>4, <3>6 DEF Recorded
    <3>8. next = "mark" => Recorded(e)'
      BY <3>4, <3>6 DEF Recorded
    <3>9. /\ stream'[e] <= stream[e] + 1
          /\ \A d \in EventIds \ {e} : stream'[d] = stream[d]
      BY <1>1, <2>5, <3>1 DEF IInv, TypeOK, DbTypeOK
    <3>10. \A d \in EventIds : stream[d] <= faults + IF Recorded(d) THEN 1 ELSE 0
      BY DEF CopyInv
    <3>11. stream[e] <= faults
      <4>1. stream[e] <= faults + IF Recorded(e) THEN 1 ELSE 0
        BY <3>1, <3>10
      <4> QED BY <3>2, <4>1, FaultsGrow
    <3>12. stream'[e] \in Nat /\ stream[e] \in Nat
      BY <1>1, <2>5, <3>1 DEF IInv, TypeOK, DbTypeOK
    <3>13. stream'[e] <= faults' + IF Recorded(e)' THEN 1 ELSE 0
      BY <2>5, <3>8, <3>9, <3>11, <3>12, FaultsGrow
    <3>14. \A d \in EventIds \ {e} : stream'[d] <= faults' + IF Recorded(d)' THEN 1 ELSE 0
      BY <1>1, <3>7, <3>9, <3>10, FaultsGrow
    <3> QED BY <3>6, <3>13, <3>14 DEF CopyInv
  <2>6. CASE LockUnpublished(p)
    <3>1. PICK b : Continue(p, [NoBatch EXCEPT !.pc = "publish", !.held = b, !.todo = b])
      BY <2>6 DEF LockUnpublished
    <3>2. PICK tx : tx = [NoBatch EXCEPT !.pc = "publish", !.held = b, !.todo = b]
      OBVIOUS
    <3>3. tx.pc = "publish" /\ tx.sent = {}
      BY <3>2 DEF NoBatch
    <3>4. batch[p].pc = "idle" /\ UNCHANGED <<outbox, stream>>
      BY <2>6 DEF LockUnpublished, dbVars
    <3>5. batch[p].sent = {}
      BY <3>4 DEF CopyInv
    <3> QED BY <2>3, <2>4, <3>1, <3>2, <3>3, <3>4, <3>5
  <2>7. CASE Publish(p)
    BY <2>5, <2>7 DEF Publish
  <2>8. CASE PublishFails(p)
    BY <2>5, <2>8 DEF PublishFails, Fault
  <2>9. CASE MarkPublished(p)
    <3>1. PICK tx : tx = [batch[p] EXCEPT !.pc = "publish", !.event = None,
                                          !.sent = @ \cup {batch[p].event}]
      OBVIOUS
    <3>2. /\ tx.pc = "publish" /\ tx.todo = batch[p].todo
          /\ tx.sent = batch[p].sent \cup {batch[p].event}
      BY <1>1, <3>1 DEF Transactions
    <3>3. batch[p].pc = "mark" /\ UNCHANGED <<outbox, stream>> /\ Continue(p, tx)
      BY <2>9, <3>1 DEF MarkPublished, dbVars
    <3>4. \A e \in tx.sent : e \notin tx.todo
      BY <3>2, <3>3 DEF CopyInv
    <3> QED BY <2>3, <2>4, <3>2, <3>3, <3>4
  <2>10. CASE MarkFailed(p)
    <3>1. PICK tx : tx = [batch[p] EXCEPT !.pc = "publish", !.event = None,
                                          !.failed = @ \cup {batch[p].event}]
      OBVIOUS
    <3>2. tx.pc = "publish" /\ tx.todo = batch[p].todo /\ tx.sent = batch[p].sent
      BY <1>1, <3>1 DEF Transactions
    <3>3. batch[p].pc = "markFailed" /\ UNCHANGED <<outbox, stream>> /\ Continue(p, tx)
      BY <2>10, <3>1 DEF MarkFailed, dbVars
    <3>4. \A e \in tx.sent : e \notin tx.todo
      BY <3>2 DEF CopyInv
    <3> QED BY <2>3, <2>4, <3>2, <3>3, <3>4
  <2>11. CASE CommitBatch(p)
    <3>1. batch[p].pc = "publish" /\ UNCHANGED stream /\ Continue(p, NoBatch)
      BY <2>11 DEF CommitBatch
    <3>2. \A e \in batch[p].sent : e \in Events
      BY DEF IInv, BatchInv
    <3>3. /\ \A e \in Events : outbox[e].published => e \in Events' /\ outbox'[e].published
          /\ \A e \in batch[p].sent : e \in Events' /\ outbox'[e].published
      BY <2>11, <3>2, MarksCommitted
    <3> QED BY <2>2, <2>4, <3>1, <3>3
  <2>12. CASE AbortBatch(p)
    BY <2>2, <2>4, <2>12 DEF AbortBatch, Fault
  <2> QED BY <2>1, <2>6, <2>7, <2>8, <2>9, <2>10, <2>11, <2>12
<1>4. CASE (ApiNext \/ SchedulerNext) /\ UNCHANGED batch
  BY <1>2, <1>4, EventsAdded
<1>5. CASE UNCHANGED <<outbox, stream, batch>>
  BY <1>2, <1>5 DEF Events
<1> QED BY <1>3, <1>4, <1>5 DEF Next, vars, dbVars, Tick

-----------------------------------------------------------------------------
(* Theorems.                                                               *)

LEMMA Inductive == Spec => []IInv
<1>1. IInv /\ [Next]_vars => IInv'
  BY TypeStep, HandlerStep, KeyStep, LockStep, EventStep, BatchStep DEF IInv
<1> QED BY InitIInv, <1>1, PTL DEF Spec

\* Every variable of the service keeps its type: the columns of the tables, the
\* rows a transaction holds and the request a handler is at.
THEOREM TypeCorrect == Spec => []TypeOK
<1>1. IInv => TypeOK
  BY DEF IInv
<1> QED BY Inductive, <1>1, PTL

\* The outbox holds exactly one event for each notification created for now or
\* queued and none for the others, whatever runs at the same time or rolls back.
THEOREM OneEventEachHolds == Spec => []OneEventEach
<1>1. IInv => OneEventEach
  <2> SUFFICES ASSUME IInv, NEW n \in Stored
               PROVE  IF notes[n].status \in {"created", "queued"}
                        THEN \E e \in Events : EventsOf(n) = {e}
                        ELSE EventsOf(n) = {}
    BY DEF OneEventEach
  <2>1. CASE notes[n].status \in {"created", "queued"}
    <3>1. PICK e \in Events : outbox[e].note = n
      BY <2>1 DEF IInv, EventInv
    <3>2. EventsOf(n) = {e}
      BY <3>1 DEF IInv, EventInv, EventsOf
    <3> QED BY <2>1, <3>2
  <2>2. CASE notes[n].status \notin {"created", "queued"}
    BY <2>2 DEF IInv, EventInv, EventsOf
  <2> QED BY <2>1, <2>2
<1> QED BY Inductive, <1>1, PTL

\* A user has one notification per key, however many requests with it run at
\* once.
THEOREM OneRowPerKeyHolds == Spec => []OneRowPerKey
<1>1. IInv => OneRowPerKey
  BY DEF IInv
<1> QED BY Inductive, <1>1, PTL

\* Whoever is told 23505 finds the notification its key collided with.
THEOREM DuplicateHasRowHolds == Spec => []DuplicateHasRow
<1>1. IInv => DuplicateHasRow
  BY DEF IInv
<1> QED BY Inductive, <1>1, PTL

\* Every answer to a user's requests with one key names the same notification.
THEOREM IdempotentAnswersHolds == Spec => []IdempotentAnswers
<1>1. IInv => IdempotentAnswers
  <2> SUFFICES ASSUME IInv, NEW a \in answers, NEW b \in answers, a.user = b.user, a.key = b.key
               PROVE  a.note = b.note
    BY DEF IdempotentAnswers
  <2>1. a.key # None
    BY NoneAssumption DEF IInv, TypeOK, ApiTypeOK, Answers
  <2>2. KeyOf(a.note, a.user, a.key) /\ KeyOf(b.note, b.user, b.key)
    BY DEF IInv, KeyInv
  <2> QED BY <2>1, <2>2 DEF IInv, OneRowPerKey, KeyOf
<1> QED BY Inductive, <1>1, PTL

\* published_at is set in a committed row only once the stream has the message.
THEOREM PublishedIsStoredHolds == Spec => []PublishedIsStored
<1>1. IInv => PublishedIsStored
  BY DEF IInv
<1> QED BY Inductive, <1>1, PTL

\* Nothing is in the stream that was rolled back, cancelled or is not due.
THEOREM NothingPrematureHolds == Spec => []NothingPremature
<1>1. IInv => NothingPremature
  BY DEF IInv, BatchInv, EventInv, NothingPremature
<1> QED BY Inductive, <1>1, PTL

\* The stream holds at most one copy of an event more than there were faults:
\* a second publication needs a mark that was rolled back, or one never made.
THEOREM DuplicatesNeedFaultsHolds == Spec => []DuplicatesNeedFaults
<1>1. Init => CopyInv
  BY BoundsAssumption DEF Init, DbInit, PublisherInit, NoBatch, CopyInv, Recorded, Events
<1>2. IInv /\ CopyInv => DuplicatesNeedFaults
  <2>1. IInv => /\ faults \in Nat
                /\ \A e \in EventIds : stream[e] \in Nat
    BY BoundsAssumption DEF IInv, TypeOK, DbTypeOK
  <2> QED BY <2>1 DEF CopyInv, DuplicatesNeedFaults
<1> QED BY Inductive, CopyStep, <1>1, <1>2, PTL DEF Spec

\* Committed notifications and events stay, and change only the way History
\* allows: from scheduled to queued or cancelled, from unpublished to published.
THEOREM HistoryHolds == Spec => History
<1>1. IInv /\ [Next]_vars => [TablesStay]_vars
  BY HistoryStep
<1> QED BY Inductive, <1>1, PTL DEF Spec, History, TablesStay

-----------------------------------------------------------------------------
(* Refinement.                                                             *)

Life == [n \in Ids |-> LifeOf(n)]
Announced == {n \in Ids : \E e \in EventsOf(n) : stream[e] > 0}

LEMMA LifecycleInit == Init => Lifecycle!LifeInit
BY DEF Init, DbInit, Lifecycle!LifeInit, LifeOf, EventsOf, Events

\* A step that keeps the notes and events, or fills and marks events the stream
\* has no copy of, announces nothing.
LEMMA AnnouncedStays ==
    ASSUME IInv, [Next]_vars, UNCHANGED stream
    PROVE  Announced' = Announced
<1>1. \A e \in EventIds : stream[e] > 0 => e \in Events
  BY DEF IInv, BatchInv
<1>2. \A e \in Events : e \in EventIds /\ e \in Events' /\ outbox'[e].note = outbox[e].note
  BY HistoryStep, InvTablesStay, TypeStep DEF Events
<1>3. \A e \in Events' : e \in EventIds
  BY DEF Events
<1> QED BY <1>1, <1>2, <1>3 DEF Announced, EventsOf

LEMMA LifecycleStep == IInv /\ [Next]_vars => [Lifecycle!LifeNext]_<<Life, Announced>>
<1> SUFFICES ASSUME IInv, [Next]_vars PROVE [Lifecycle!LifeNext]_<<Life, Announced>>
  OBVIOUS
<1> USE DEF Lifecycle!LifeNext, Lifecycle!Become
<1>1. /\ \A n \in Stored : notes[n] \in NoteRows /\ n \in Ids /\ notes[n] # None
      /\ notes \in [Ids -> NoteRows \cup {None}]
  BY Fields, NoneAssumption DEF IInv, TypeOK, DbTypeOK
<1>2. UNCHANGED notes => UNCHANGED Life
  BY DEF Life, LifeOf
<1>3. ASSUME NEW h \in Handlers, Commit(h)
      PROVE  Lifecycle!LifeNext
  <2> DEFINE n == api[h].note
             row == [owner |-> api[h].user, key |-> api[h].key,
                     scheduledAt |-> api[h].at, status |-> api[h].status]
  <2>1. /\ n \in Ids /\ n \notin Stored
        /\ api[h].status \in {"created", "scheduled"}
        /\ notes' = [notes EXCEPT ![n] = row]
        /\ UNCHANGED stream
    BY <1>3, Fields DEF Commit, IInv, TypeOK, HandlerInv, Creating
  <2>2. row # None
    BY <1>3, Fields, NoneAssumption DEF Commit, IInv, TypeOK, HandlerInv, NoteRows, Statuses
  <2>3. row.status = api[h].status
    OBVIOUS
  <2> HIDE DEF row
  <2>4. Life' = [Life EXCEPT ![n] = IF api[h].status = "created" THEN "released" ELSE "waiting"]
    BY <1>1, <2>1, <2>2, <2>3 DEF Life, LifeOf
  <2>5. Life[n] = "absent"
    BY <2>1 DEF Life, LifeOf, Stored
  <2>6. Announced' = Announced
    BY <2>1, AnnouncedStays
  <2> QED BY <2>1, <2>4, <2>5, <2>6 DEF Lifecycle!Accept, Lifecycle!Schedule, Life, Announced
<1>4. ASSUME NEW h \in Handlers, CancelIfScheduled(h)
      PROVE  [Lifecycle!LifeNext]_<<Life, Announced>>
  <2> DEFINE n == api[h].note
  <2>1. n \in Stored /\ UNCHANGED stream
    BY <1>4 DEF CancelIfScheduled, IInv, HandlerInv
  <2>2. Announced' = Announced
    BY <2>1, AnnouncedStays
  <2>3. CASE UNCHANGED notes
    BY <1>2, <2>2, <2>3
  <2>4. CASE /\ notes[n].status = "scheduled"
             /\ notes' = [notes EXCEPT ![n].status = "cancelled"]
    <3>1. Life[n] = "waiting"
      BY <1>1, <2>1, <2>4 DEF Life, LifeOf
    <3>2. /\ notes'[n] = [notes[n] EXCEPT !.status = "cancelled"]
          /\ \A m \in Ids \ {n} : notes'[m] = notes[m]
      BY <1>1, <2>1, <2>4
    <3>3. notes'[n] # None /\ notes'[n].status = "cancelled"
      <4>1. [notes[n] EXCEPT !.status = "cancelled"] \in NoteRows
        BY <1>1, <2>1 DEF NoteRows, Statuses
      <4>2. [notes[n] EXCEPT !.status = "cancelled"].status = "cancelled"
        BY <1>1, <2>1 DEF NoteRows
      <4> QED BY <3>2, <4>1, <4>2, NoneAssumption
    <3>4. Life' = [Life EXCEPT ![n] = "cancelled"]
      BY <1>1, <2>1, <3>2, <3>3 DEF Life, LifeOf
    <3> QED BY <1>1, <2>1, <2>2, <3>1, <3>4 DEF Lifecycle!CancelWaiting, Life, Announced
  <2> QED BY <1>4, <2>3, <2>4 DEF CancelIfScheduled
<1>5. ASSUME NEW s \in Schedulers, CommitTick(s)
      PROVE  Lifecycle!LifeNext
  <2> DEFINE Q == tick[s].queued
  <2>1. /\ \A n \in Q : n \in Stored /\ n \in Ids /\ notes[n].status = "scheduled"
        /\ Q \in SUBSET Ids
    BY <1>1 DEF IInv, LockInv
  <2>2. /\ notes' = [n \in Ids |-> IF n \in Q THEN [notes[n] EXCEPT !.status = "queued"]
                                              ELSE notes[n]]
        /\ UNCHANGED stream
    BY <1>5 DEF CommitTick
  <2>3. Announced' = Announced
    BY <2>2, AnnouncedStays
  <2> HIDE DEF Q
  <2>4. \A n \in Q : Life[n] = "waiting"
    BY <1>1, <2>1 DEF Life, LifeOf
  <2>5. ASSUME NEW n \in Ids
        PROVE  Life'[n] = IF n \in Q THEN "released" ELSE Life[n]
    <3>1. CASE n \in Q
      <4>1. [notes[n] EXCEPT !.status = "queued"] \in NoteRows
        BY <1>1, <2>1, <3>1 DEF NoteRows, Statuses
      <4>2. [notes[n] EXCEPT !.status = "queued"].status = "queued"
        BY <1>1, <2>1, <3>1 DEF NoteRows
      <4>3. notes'[n] # None /\ notes'[n].status = "queued"
        BY <2>2, <3>1, <4>1, <4>2, NoneAssumption
      <4> QED BY <3>1, <4>3 DEF Life, LifeOf
    <3>2. CASE n \notin Q
      BY <2>2, <3>2 DEF Life, LifeOf
    <3> QED BY <3>1, <3>2
  <2>6. Life' = [n \in Ids |-> IF n \in Q THEN "released" ELSE Life[n]]
    BY <2>5 DEF Life
  <2> QED BY <2>1, <2>3, <2>4, <2>6 DEF Lifecycle!Release, Life, Announced
<1>6. ASSUME PublisherNext
      PROVE  [Lifecycle!LifeNext]_<<Life, Announced>>
  <2>1. UNCHANGED Life
    BY <1>2, <1>6, QuietPublishers DEF CommitBatch
  <2>2. CASE UNCHANGED stream
    BY <2>1, <2>2, AnnouncedStays
  <2>3. ASSUME NEW p \in Publishers, NEW e \in NextEvent(p),
               stream' = [stream EXCEPT ![e] = @ + 1], UNCHANGED outbox
        PROVE  Lifecycle!LifeNext
    <3> DEFINE n == outbox[e].note
    <3>1. e \in Events /\ e \in EventIds
      BY DEF NextEvent, IInv, BatchInv, Events
    <3>2. n \in Stored /\ notes[n].status \in {"created", "queued"}
      BY <3>1 DEF IInv, EventInv
    <3>3. Life[n] = "released"
      BY <1>1, <3>2 DEF Life, LifeOf
    <3>4. /\ \A d \in EventIds \ {e} : stream'[d] = stream[d]
          /\ stream'[e] > 0
      BY <2>3, <3>1 DEF IInv, TypeOK, DbTypeOK
    <3>5. Events' = Events /\ \A m : EventsOf(m)' = EventsOf(m)
      BY <2>3 DEF Events, EventsOf
    <3>6. \A d \in Events : d \in EventIds
      BY DEF Events
    <3>7. Announced' = Announced \cup {n}
      BY <1>1, <2>3, <3>1, <3>2, <3>4, <3>5, <3>6 DEF Announced, EventsOf
    <3> QED BY <1>1, <2>1, <3>2, <3>3, <3>7 DEF Lifecycle!Announce, Life, Announced
  <2> QED BY <1>6, <2>2, <2>3
          DEF PublisherNext, PublisherStep, LockUnpublished, Publish, PublishFails,
              MarkPublished, MarkFailed, CommitBatch, AbortBatch, dbVars
<1>7. ASSUME UNCHANGED <<notes, stream>>
      PROVE  UNCHANGED <<Life, Announced>>
  BY <1>2, <1>7, AnnouncedStays
<1> QED BY <1>3, <1>4, <1>5, <1>6, <1>7, QuietHandlers, QuietSchedulers
        DEF Next, vars, dbVars, Tick

\* The notifications service implements the lifecycle: what its handlers,
\* schedulers and publishers do together releases or cancels a notification,
\* never both, and announces only what is released.
THEOREM LifecycleImplemented == Spec => ImplementsLifecycle
<1>1. IInv /\ [Next]_vars => [Lifecycle!LifeNext]_Lifecycle!lifeVars
  BY LifecycleStep DEF Lifecycle!lifeVars, Life, Announced
<1> QED BY Inductive, LifecycleInit, <1>1, PTL
        DEF Spec, ImplementsLifecycle, Lifecycle!LifeSpec
=============================================================================

---------------------------- MODULE Subscriptions ----------------------------
(***************************************************************************)
(* The subscriptions service: POST, DELETE and PATCH /subscriptions and    *)
(* POST /topics. A handler awaits the database between its steps and other *)
(* handlers run in between. Outside a transaction every statement commits  *)
(* by itself; the writes of a transaction are added to the table when it   *)
(* commits. An INSERT waits for an open transaction that inserted the same *)
(* user and topic, an UPDATE or upsert for one that wrote the same row.    *)
(***************************************************************************)
EXTENDS Naturals, FiniteSets

CONSTANTS Users, Topics,
          MaxSubs,             \* bound on the rows of the table
          Fields, Values,      \* of the preferences: channels, quiet hours, time zone
          Defaults,            \* DEFAULT_CHANNELS, no quiet hours, DEFAULT_TIMEZONE
          Earlier,             \* tables that earlier versions of the service left
          Handlers,            \* requests the service works on at the same time
          Asks,                \* the requests clients make
          None

\* Ids number the subscriptions in the order of created_at. A topic is its key:
\* keys are unique, and topics are never deleted.
Ids == 1..MaxSubs
Prefs == [Fields -> Values]

ASSUME MaxSubsAssumption == MaxSubs \in Nat
ASSUME DefaultsAssumption == Defaults \in Prefs
Rows == [user : Users, topic : Topics, active : BOOLEAN, prefs : Prefs]
ASSUME AbsentAssumption ==
    /\ None \notin Values /\ None \notin BOOLEAN /\ None \notin Topics /\ None \notin Ids
    /\ None \notin Rows /\ None \notin [id : Ids, active : BOOLEAN, prefs : Prefs]

VARIABLES topics,        \* the rows of topics
          rows,          \* the rows of subscriptions with those of subscription_preferences
          handlers,      \* what each handler is doing
          held,          \* history: the values is_active had while a request was served
          disturbed      \* history: preferences were committed since a request read them

subsVars == <<topics, rows, handlers>>
vars == <<subsVars, held, disturbed>>

\* One record for the three requests. A patch gives the preferences to change.
Patches == [Fields -> Values \cup {None}]
NoPatch == [f \in Fields |-> None]
Requests == [op : {"subscribe", "unsubscribe", "update"}, user : Users,
             topic : Topics \cup {None}, id : Ids \cup {None},
             active : BOOLEAN \cup {None}, patch : Patches]

ASSUME AsksAssumption == Asks \subseteq Requests

Pcs == {"idle", "look", "activate", "deactivate", "reread", "insert", "create",
        "active", "prefs", "commit", "done"}
Statuses == {200, 201, 204, 404, 500}
HandlerStates == [pc : Pcs, ask : Requests \cup {None}, id : Ids \cup {None},
                  seen : Rows \cup {None}, status : Statuses \cup {None}]
Free == [pc |-> "idle", ask |-> None, id |-> None, seen |-> None, status |-> None]

Stored == {i \in Ids : rows[i] # None}
InFlight(h) == handlers[h].pc \notin {"idle", "done"}
Asked(h, op) == InFlight(h) /\ handlers[h].ask.op = op

\* Migration 002 gave the default preferences to the rows of earlier versions.
EarlierAssumption ==
    \A r \in Earlier :
      /\ r \in [Ids -> Rows \cup {None}]
      /\ \A i, j \in Ids : r[i] # None /\ j < i => r[j] # None
      /\ \A i, j \in Ids :
           r[i] # None /\ r[j] # None /\ i # j => <<r[i].user, r[i].topic>> # <<r[j].user, r[j].topic>>
      /\ \A i \in Ids : r[i] # None => r[i].prefs = Defaults
ASSUME EarlierAssumption

\* The topics are never fewer than those the subscriptions refer to.
SubsInit ==
    /\ topics \in SUBSET Topics
    /\ rows \in {r \in Earlier : \A i \in Ids : r[i] # None => r[i].topic \in topics}
    /\ handlers = [h \in Handlers |-> Free]

Become(h, state) == handlers' = [handlers EXCEPT ![h] = state]
Goto(h, pc) == Become(h, [handlers[h] EXCEPT !.pc = pc])
Answer(h, status, i) ==
    Become(h, [handlers[h] EXCEPT !.pc = "done", !.status = status, !.id = i, !.seen = None])

\* The handler h is given the request a.
Receive(h, a) ==
    /\ ~InFlight(h)
    /\ Become(h, [Free EXCEPT !.pc = "look", !.ask = a])
    /\ UNCHANGED <<topics, rows>>

\* An INSERT of one statement; 409 for a key in use.
CreateTopic(t) ==
    /\ t \notin topics
    /\ topics' = topics \cup {t}
    /\ UNCHANGED <<rows, handlers>>

\* The rows of a table a request is about; a subscription of someone else is not found.
AboutIn(table, a) ==
    {i \in Ids : /\ table[i] # None
                 /\ table[i].user = a.user
                 /\ IF a.op = "subscribe" THEN table[i].topic = a.topic ELSE i = a.id}
About(a) == AboutIn(rows, a)

-----------------------------------------------------------------------------
(* Locks                                                                   *)

\* is_active as the request a asks for it, having read the row seen.
Target(a, seen) == IF a.active = None THEN seen.active ELSE a.active
\* Mutant of Switches: is_active is written with every update.
SwitchesAlways(a, seen) == a.op = "update"
\* update_subscription writes is_active only where it differs from what it read.
Switches(a, seen) == a.op = "update" /\ Target(a, seen) # seen.active
Prefers(h) == handlers[h].ask.patch # NoPatch

RowLocked(h) ==
    \E g \in Handlers \ {h} :
      /\ handlers[g].pc \in {"prefs", "commit"}
      /\ handlers[g].id = handlers[h].id
      /\ Switches(handlers[g].ask, handlers[g].seen)

PrefsLocked(h) ==
    \E g \in Handlers \ {h} :
      handlers[g].pc = "commit" /\ handlers[g].id = handlers[h].id /\ Prefers(g)

\* Another open transaction has inserted the same user and topic.
PairLocked(h) ==
    \E g \in Handlers \ {h} :
      /\ handlers[g].pc = "create"
      /\ handlers[g].ask.user = handlers[h].ask.user
      /\ handlers[g].ask.topic = handlers[h].ask.topic

SetActive(i, b) == rows' = [rows EXCEPT ![i].active = b]

-----------------------------------------------------------------------------
(* subscribe                                                               *)

\* Mutant of LookForSubscription: a subscription found is answered, on or off.
AnswerFound(h) ==
    /\ handlers[h].pc = "look"
    /\ Asked(h, "subscribe")
    /\ IF About(handlers[h].ask) = {} THEN Goto(h, "insert")
       ELSE \E i \in About(handlers[h].ask) : Answer(h, 200, i)
    /\ UNCHANGED <<topics, rows>>
LookForSubscription(h) ==
    /\ handlers[h].pc = "look"
    /\ Asked(h, "subscribe")
    /\ \/ handlers[h].ask.topic \notin topics /\ Answer(h, 404, None)
       \/ /\ handlers[h].ask.topic \in topics
          /\ About(handlers[h].ask) = {}
          /\ Goto(h, "insert")
       \/ /\ handlers[h].ask.topic \in topics
          /\ \E i \in About(handlers[h].ask) :
               IF rows[i].active THEN Answer(h, 200, i)
               ELSE Become(h, [handlers[h] EXCEPT !.pc = "activate", !.id = i])
    /\ UNCHANGED <<topics, rows>>

Activate(h) ==
    /\ handlers[h].pc = "activate"
    /\ ~RowLocked(h)
    /\ SetActive(handlers[h].id, TRUE)
    /\ Goto(h, "reread")
    /\ UNCHANGED topics

\* The row is read again for the answer.
Reread(h) ==
    /\ handlers[h].pc = "reread"
    /\ Answer(h, IF Asked(h, "subscribe") THEN 200 ELSE 204, handlers[h].id)
    /\ UNCHANGED <<topics, rows>>

Drawn == {handlers[h].id : h \in {g \in Handlers : handlers[g].pc = "create"}}
FreshIds == {i \in Ids \ (Stored \cup Drawn) : \A j \in Stored \cup Drawn : j < i}

\* Mutant of Insert: without UNIQUE (user_id, topic_id).
InsertAgain(h) ==
    /\ handlers[h].pc = "insert"
    /\ \E i \in FreshIds : Become(h, [handlers[h] EXCEPT !.pc = "create", !.id = i])
    /\ UNCHANGED <<topics, rows>>
\* Mutant of Insert: it waits for the row of the user and topic to go.
InsertWaiting(h) ==
    /\ handlers[h].pc = "insert"
    /\ About(handlers[h].ask) = {}
    /\ ~PairLocked(h)
    /\ \E i \in FreshIds : Become(h, [handlers[h] EXCEPT !.pc = "create", !.id = i])
    /\ UNCHANGED <<topics, rows>>

\* The transaction of subscribe inserts the row; 23505, which nothing handles,
\* when a row with the user and topic has been committed since the look-up.
Insert(h) ==
    /\ handlers[h].pc = "insert"
    /\ ~PairLocked(h)
    /\ \/ /\ About(handlers[h].ask) # {}
          /\ Answer(h, 500, None)
       \/ /\ About(handlers[h].ask) = {}
          /\ \E i \in FreshIds : Become(h, [handlers[h] EXCEPT !.pc = "create", !.id = i])
    /\ UNCHANGED <<topics, rows>>

\* It inserts the preferences, reads the row for the answer and commits.
CommitCreate(h) ==
    /\ handlers[h].pc = "create"
    /\ rows' = [rows EXCEPT ![handlers[h].id] =
                  [user |-> handlers[h].ask.user, topic |-> handlers[h].ask.topic,
                   active |-> TRUE, prefs |-> Defaults]]
    /\ Answer(h, 201, handlers[h].id)
    /\ UNCHANGED topics

-----------------------------------------------------------------------------
(* unsubscribe                                                             *)

\* Mutant of LookForRow: the owner of the subscription is not compared.
LookForAnyRow(h) ==
    /\ handlers[h].pc = "look"
    /\ Asked(h, "unsubscribe")
    /\ LET i == handlers[h].ask.id
       IN IF i \notin Stored THEN Answer(h, 404, None)
          ELSE IF ~rows[i].active THEN Answer(h, 204, i)
          ELSE Become(h, [handlers[h] EXCEPT !.pc = "deactivate", !.id = i])
    /\ UNCHANGED <<topics, rows>>
LookForRow(h) ==
    /\ handlers[h].pc = "look"
    /\ Asked(h, "unsubscribe")
    /\ \/ About(handlers[h].ask) = {} /\ Answer(h, 404, None)
       \/ \E i \in About(handlers[h].ask) :
            IF ~rows[i].active THEN Answer(h, 204, i)
            ELSE Become(h, [handlers[h] EXCEPT !.pc = "deactivate", !.id = i])
    /\ UNCHANGED <<topics, rows>>

\* Mutant of Deactivate: the subscription is deleted.
Delete(h) ==
    /\ handlers[h].pc = "deactivate"
    /\ ~RowLocked(h)
    /\ rows' = [rows EXCEPT ![handlers[h].id] = None]
    /\ Goto(h, "reread")
    /\ UNCHANGED topics
Deactivate(h) ==
    /\ handlers[h].pc = "deactivate"
    /\ ~RowLocked(h)
    /\ SetActive(handlers[h].id, FALSE)
    /\ Goto(h, "reread")
    /\ UNCHANGED topics

-----------------------------------------------------------------------------
(* update_subscription                                                     *)

\* What comes after the UPDATE of is_active, if the patch has preferences.
AfterActive(h) == IF Prefers(h) THEN "prefs" ELSE "commit"

\* The row is read before the transaction; what to write is decided from it.
LookForUpdate(h) ==
    /\ handlers[h].pc = "look"
    /\ Asked(h, "update")
    /\ \/ About(handlers[h].ask) = {} /\ Answer(h, 404, None)
       \/ \E i \in About(handlers[h].ask) :
            Become(h, [handlers[h] EXCEPT
              !.id = i, !.seen = rows[i],
              !.pc = IF Switches(handlers[h].ask, rows[i]) THEN "active" ELSE AfterActive(h)])
    /\ UNCHANGED <<topics, rows>>

WriteActive(h) ==
    /\ handlers[h].pc = "active"
    /\ ~RowLocked(h)
    /\ Goto(h, AfterActive(h))
    /\ UNCHANGED <<topics, rows>>

WritePrefs(h) ==
    /\ handlers[h].pc = "prefs"
    /\ ~PrefsLocked(h)
    /\ Goto(h, "commit")
    /\ UNCHANGED <<topics, rows>>

\* Mutant of Merged: what the patch leaves out is written as absent.
MergedWithNothing(h) == handlers[h].ask.patch
\* Mutant of Merged: what the patch leaves out gets its default.
MergedWithDefaults(h) ==
    [f \in Fields |-> IF handlers[h].ask.patch[f] = None THEN Defaults[f]
                      ELSE handlers[h].ask.patch[f]]
\* upsert_preferences writes all the columns: those the patch leaves out as the
\* handler read them.
Merged(h) ==
    [f \in Fields |-> IF handlers[h].ask.patch[f] = None THEN handlers[h].seen.prefs[f]
                      ELSE handlers[h].ask.patch[f]]

\* The row is read for the answer and the transaction commits.
CommitUpdate(h) ==
    /\ handlers[h].pc = "commit"
    /\ LET i == handlers[h].id
           a == handlers[h].ask
           seen == handlers[h].seen
       IN /\ rows' = [rows EXCEPT
                        ![i].active = IF Switches(a, seen) THEN Target(a, seen) ELSE @,
                        ![i].prefs = IF Prefers(h) THEN Merged(h) ELSE @]
          /\ Answer(h, 200, i)
    /\ UNCHANGED topics

-----------------------------------------------------------------------------
\* An exception, or the timeout of a statement: an open transaction is rolled
\* back, what was committed stays.
Fail(h) ==
    /\ InFlight(h)
    /\ Answer(h, 500, None)
    /\ UNCHANGED <<topics, rows>>

HandlerStep(h) ==
    \/ LookForSubscription(h) \/ Activate(h) \/ Reread(h) \/ Insert(h) \/ CommitCreate(h)
    \/ LookForRow(h) \/ Deactivate(h)
    \/ LookForUpdate(h) \/ WriteActive(h) \/ WritePrefs(h) \/ CommitUpdate(h)

ServiceNext ==
    \/ \E h \in Handlers : HandlerStep(h) \/ Fail(h)
    \/ \E t \in Topics : CreateTopic(t)

SubsNext == ServiceNext \/ \E h \in Handlers, a \in Asks : Receive(h, a)

-----------------------------------------------------------------------------
(* History variables                                                       *)

\* h committed preferences in this step.
CommitsPrefs(h) ==
    /\ handlers[h].pc = "commit"
    /\ handlers'[h].status = 200
    /\ Prefers(h)

\* The values of is_active a request met, from its arrival to its answer, and
\* whether preferences it read were written by another one since.
Remember ==
    /\ held' = [h \in Handlers |->
         IF handlers[h].pc = "done" /\ handlers'[h] = handlers[h] THEN held[h]
         ELSE IF handlers'[h].pc = "idle" THEN {}
         ELSE {rows'[i].active : i \in AboutIn(rows', handlers'[h].ask)} \cup
              IF InFlight(h) THEN held[h] ELSE {}]
    /\ disturbed' = [h \in Handlers |->
         /\ handlers'[h].seen # None
         /\ \/ disturbed[h]
            \/ \E g \in Handlers \ {h} :
                 handlers[g].id = handlers[h].id /\ CommitsPrefs(g)]

Init ==
    /\ SubsInit
    /\ held = [h \in Handlers |-> {}]
    /\ disturbed = [h \in Handlers |-> FALSE]

Next == SubsNext /\ Remember

Spec == Init /\ [][Next]_vars

\* The event loop runs every handler again, and PostgreSQL wakes those that
\* wait for a lock in the order in which they came, so a step that is possible
\* again and again is taken.
Fairness == \A h \in Handlers : SF_vars(HandlerStep(h) /\ Remember)

FairSpec == Spec /\ Fairness

-----------------------------------------------------------------------------
TypeOK ==
    /\ topics \in SUBSET Topics
    /\ rows \in [Ids -> Rows \cup {None}]
    /\ handlers \in [Handlers -> HandlerStates]
    /\ held \in [Handlers -> SUBSET BOOLEAN]
    /\ disturbed \in [Handlers -> BOOLEAN]

\* A user has one subscription to a topic, though two requests may both find
\* none and both go on to insert one.
OneRowPerPair ==
    \A i, j \in Stored :
      rows[i].user = rows[j].user /\ rows[i].topic = rows[j].topic => i = j

\* What a request that asks for a subscription to be on or off.
Wanted(a) ==
    CASE a.op = "subscribe" -> TRUE
      [] a.op = "unsubscribe" -> FALSE
      [] OTHER -> a.active

\* An answer of success is true: between the arrival of the request and its
\* answer there was a moment at which the subscription was on, or off, as asked,
\* whatever the requests beside it did (subscribe and unsubscribe write only if
\* the row they read says otherwise, and the row may change in between).
AnsweredTruly ==
    \A h \in Handlers :
      /\ handlers[h].pc = "done"
      /\ handlers[h].status \in {200, 201, 204}
      /\ Wanted(handlers[h].ask) # None
      => Wanted(handlers[h].ask) \in held[h]

\* A subscription is switched on or off only for a request in flight of its
\* owner that asks for just that: an update of preferences, though it read
\* is_active before, never puts an old value back.
SwitchedAsAsked ==
    [][\A i \in Stored : rows'[i].active # rows[i].active =>
         \E h \in Handlers :
           /\ InFlight(h)
           /\ i \in About(handlers[h].ask)
           /\ Wanted(handlers[h].ask) = rows'[i].active]_rows

\* A preference changes only for a patch that names it, or, the update having
\* been lost, because a patch that overlapped with another one writes back what
\* it read: updates one after the other never undo each other.
UndoneByOverlapOnly ==
    [][\A i \in Stored, f \in Fields : rows'[i].prefs[f] # rows[i].prefs[f] =>
         \E h \in Handlers :
           /\ handlers[h].pc = "commit"
           /\ handlers[h].id = i
           /\ handlers[h].ask.patch[f] # None \/ disturbed[h]]_rows

\* Every request is answered: nobody waits for a lock that is not given up, and
\* no two transactions wait for each other.
EveryRequestIsAnswered == \A h \in Handlers : InFlight(h) ~> ~InFlight(h)

-----------------------------------------------------------------------------
RowOf(p) == {i \in Stored : rows[i].user = p[1] /\ rows[i].topic = p[2]}

Ledger == INSTANCE SubscriptionLedger WITH
    Pairs <- Users \X Topics,
    ledger <- [p \in Users \X Topics |->
                 IF RowOf(p) = {} THEN None
                 ELSE LET i == CHOOSE i \in RowOf(p) : TRUE
                      IN [id |-> i, active |-> rows[i].active, prefs |-> rows[i].prefs]]

\* The service implements a ledger in which the entry of a user and topic, once
\* made, stays under its id (the soft delete of unsubscribe), and changes one
\* entry at a time.
ImplementsLedger == Ledger!LedgerSpec
=============================================================================

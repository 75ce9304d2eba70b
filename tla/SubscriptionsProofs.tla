------------------------- MODULE SubscriptionsProofs -------------------------
(***************************************************************************)
(* Proofs about Subscriptions, for any number of users, topics and         *)
(* requests at a time, any preferences and any tables to begin with.       *)
(***************************************************************************)
EXTENDS Subscriptions, FiniteSetTheorems, TLAPS

-----------------------------------------------------------------------------
(* The inductive invariant.                                                *)

Subscribing == {"activate", "insert", "create"}
Inserting == {"insert", "create"}
Updating == {"active", "prefs", "commit"}
Finding == {"activate", "deactivate", "reread"} \cup Updating

\* What a handler carries between its steps: its request, the row it found and,
\* of an update, what it read there; before an insert, a topic that exists.
HandlerInv ==
    \A h \in Handlers :
        /\ InFlight(h) => handlers[h].ask \in Asks
        /\ handlers[h].pc \in Subscribing => handlers[h].ask.op = "subscribe"
        /\ handlers[h].pc \in Inserting => handlers[h].ask.topic \in topics
        /\ handlers[h].pc \in Updating =>
             handlers[h].ask.op = "update" /\ handlers[h].seen \in Rows
        /\ handlers[h].pc = "deactivate" => handlers[h].ask.op = "unsubscribe"
        /\ handlers[h].pc \in Finding => handlers[h].id \in About(handlers[h].ask)

\* What an open transaction has inserted is no row's, and no other one's.
InsertInv ==
    \A h \in Handlers : handlers[h].pc = "create" =>
        /\ handlers[h].id \in Ids \ Stored
        /\ \A i \in Stored : <<rows[i].user, rows[i].topic>>
                               # <<handlers[h].ask.user, handlers[h].ask.topic>>
        /\ \A g \in Handlers \ {h} : handlers[g].pc = "create" =>
             /\ handlers[g].id # handlers[h].id
             /\ <<handlers[g].ask.user, handlers[g].ask.topic>>
                  # <<handlers[h].ask.user, handlers[h].ask.topic>>

\* What the types say of the state without the history.
StateOK ==
    /\ topics \in SUBSET Topics
    /\ rows \in [Ids -> Rows \cup {None}]
    /\ handlers \in [Handlers -> HandlerStates]

IInv == StateOK /\ HandlerInv /\ InsertInv /\ OneRowPerPair

-----------------------------------------------------------------------------
(* A step of one handler that inserts nothing.                             *)

\* A state a handler may come to, other than that of an open insert.
Sound(s) ==
    /\ s \in HandlerStates
    /\ s.pc # "create"
    /\ s.pc \notin {"idle", "done"} => s.ask \in Asks
    /\ s.pc \in Subscribing => s.ask.op = "subscribe"
    /\ s.pc \in Inserting => s.ask.topic \in topics
    /\ s.pc \in Updating => s.ask.op = "update" /\ s.seen \in Rows
    /\ s.pc = "deactivate" => s.ask.op = "unsubscribe"
    /\ s.pc \in Finding => s.id \in About(s.ask)

\* The same rows, of the same users and topics.
SameRows ==
    /\ rows' \in [Ids -> Rows \cup {None}]
    /\ \A i \in Ids : /\ rows'[i] = None <=> rows[i] = None
                      /\ rows[i] # None => /\ rows'[i].user = rows[i].user
                                           /\ rows'[i].topic = rows[i].topic

LEMMA StepKeeps ==
  ASSUME IInv, NEW h \in Handlers, NEW s, Sound(s),
         handlers' = [handlers EXCEPT ![h] = s],
         SameRows, topics \subseteq topics', topics' \subseteq Topics
  PROVE  IInv'
<1>1. Stored' = Stored
  BY DEF SameRows, Stored
<1>2. \A g \in Handlers : handlers'[g] = IF g = h THEN s ELSE handlers[g]
  BY DEF IInv, StateOK
<1>3. StateOK'
  BY DEF IInv, StateOK, SameRows, Sound
<1>4. \A a : About(a)' = About(a)
  BY DEF About, AboutIn, SameRows
<1>5. HandlerInv'
  BY <1>2, <1>4, SMTT(30) DEF IInv, HandlerInv, Sound, InFlight
<1>6. InsertInv'
  BY <1>1, <1>2, SMTT(30) DEF IInv, InsertInv, Sound, SameRows, Stored
<1>7. OneRowPerPair'
  BY <1>1 DEF IInv, OneRowPerPair, SameRows, Stored, Ids
<1>. QED  BY <1>3, <1>5, <1>6, <1>7 DEF IInv

LEMMA AnsweredState ==
  ASSUME NEW x \in HandlerStates, NEW status \in Statuses, NEW i \in Ids \cup {None}
  PROVE  LET s == [x EXCEPT !.pc = "done", !.status = status, !.id = i, !.seen = None]
         IN s \in HandlerStates /\ s.pc = "done"
BY DEF HandlerStates, Pcs

\* What a handler found is still there.
LEMMA FoundIsStored ==
  ASSUME IInv, NEW h \in Handlers, handlers[h].pc \in Finding
  PROVE  /\ handlers[h].id \in Stored
         /\ handlers[h].id \in About(handlers[h].ask)
BY DEF IInv, HandlerInv, About, AboutIn, Stored

LEMMA SameAbout ==
  ASSUME rows' = rows, NEW a
  PROVE  About(a)' = About(a)
BY DEF About, AboutIn

\* A handler that answers is done with it all.
LEMMA AnswerIsSound ==
  ASSUME IInv, NEW h \in Handlers, NEW status \in Statuses, NEW i \in Ids \cup {None},
         Answer(h, status, i), SameRows, topics' = topics
  PROVE  IInv'
<1> DEFINE s == [handlers[h] EXCEPT !.pc = "done", !.status = status, !.id = i, !.seen = None]
<1>1. Sound(s)
  BY AnsweredState DEF Sound, IInv, StateOK, Subscribing, Inserting, Updating, Finding
<1>. QED
  BY <1>1, StepKeeps DEF Answer, Become, IInv, StateOK

LEMMA UnchangedRows ==
  ASSUME IInv, rows' = rows
  PROVE  SameRows
BY DEF IInv, StateOK, SameRows

LEMMA ReceiveStep ==
  ASSUME IInv, NEW h \in Handlers, NEW a \in Asks, Receive(h, a)
  PROVE  IInv'
<1> DEFINE s == [Free EXCEPT !.pc = "look", !.ask = a]
<1>1. Sound(s)
  BY AsksAssumption
  DEF Sound, Free, HandlerStates, Pcs, Subscribing, Inserting, Updating, Finding
<1>. QED
  BY <1>1, StepKeeps, UnchangedRows DEF Receive, Become, IInv, StateOK

LEMMA SubscribeStep ==
  ASSUME IInv, NEW h \in Handlers, LookForSubscription(h)
  PROVE  IInv'
<1> DEFINE a == handlers[h].ask
<1>1. SameRows /\ topics' = topics /\ topics' \subseteq Topics
  BY UnchangedRows DEF LookForSubscription, IInv, StateOK
<1>2. CASE Answer(h, 404, None)
  BY <1>1, <1>2, AnswerIsSound DEF Statuses
<1>3. CASE About(a) = {} /\ a.topic \in topics /\ Goto(h, "insert")
  <2>1. Sound([handlers[h] EXCEPT !.pc = "insert"])
    BY <1>3 DEF LookForSubscription, Asked, InFlight, Sound, IInv, StateOK, HandlerInv,
                HandlerStates, Pcs, Subscribing, Inserting, Updating, Finding
  <2>. QED  BY <1>1, <1>3, <2>1, StepKeeps DEF Goto, Become
<1>4. ASSUME NEW i \in About(a), Answer(h, 200, i)
      PROVE  IInv'
  BY <1>1, <1>4, AnswerIsSound DEF Statuses, About, AboutIn
<1>5. ASSUME NEW i \in About(a),
             Become(h, [handlers[h] EXCEPT !.pc = "activate", !.id = i])
      PROVE  IInv'
  <2>1. i \in Stored
    BY <1>5 DEF About, AboutIn, Stored
  <2>2. Sound([handlers[h] EXCEPT !.pc = "activate", !.id = i])
    BY <2>1 DEF LookForSubscription, Asked, InFlight, Sound, IInv, StateOK, HandlerInv,
                Stored, HandlerStates, Pcs, Subscribing, Inserting, Updating, Finding
  <2>. QED  BY <1>1, <1>5, <2>2, StepKeeps DEF Become
<1>. QED  BY <1>2, <1>3, <1>4, <1>5 DEF LookForSubscription

LEMMA UnsubscribeStep ==
  ASSUME IInv, NEW h \in Handlers, LookForRow(h)
  PROVE  IInv'
<1> DEFINE a == handlers[h].ask
<1>1. SameRows /\ topics' = topics /\ topics' \subseteq Topics
  BY UnchangedRows DEF LookForRow, IInv, StateOK
<1>2. CASE Answer(h, 404, None)
  BY <1>1, <1>2, AnswerIsSound DEF Statuses
<1>3. ASSUME NEW i \in About(a), Answer(h, 204, i)
      PROVE  IInv'
  BY <1>1, <1>3, AnswerIsSound DEF Statuses, About, AboutIn
<1>4. ASSUME NEW i \in About(a),
             Become(h, [handlers[h] EXCEPT !.pc = "deactivate", !.id = i])
      PROVE  IInv'
  <2>1. i \in Stored
    BY <1>4 DEF About, AboutIn, Stored
  <2>2. Sound([handlers[h] EXCEPT !.pc = "deactivate", !.id = i])
    BY <2>1 DEF LookForRow, Asked, InFlight, Sound, IInv, StateOK, HandlerInv,
                Stored, HandlerStates, Pcs, Subscribing, Inserting, Updating, Finding
  <2>. QED  BY <1>1, <1>4, <2>2, StepKeeps DEF Become
<1>. QED  BY <1>2, <1>3, <1>4 DEF LookForRow

\* is_active is written: the rows stay those of the same users and topics.
LEMMA SwitchKeepsRows ==
  ASSUME IInv, NEW i \in Stored, NEW b \in BOOLEAN, SetActive(i, b)
  PROVE  SameRows
BY AbsentAssumption DEF IInv, StateOK, SetActive, SameRows, Stored, Rows

LEMMA SwitchStep ==
  ASSUME IInv, NEW h \in Handlers, Activate(h) \/ Deactivate(h)
  PROVE  IInv'
<1> DEFINE s == [handlers[h] EXCEPT !.pc = "reread"]
<1>1. handlers[h].id \in Stored /\ handlers[h].id \in About(handlers[h].ask)
  BY FoundIsStored DEF Activate, Deactivate, Finding
<1>2. SameRows
  BY <1>1, SwitchKeepsRows DEF Activate, Deactivate
<1>3. Sound(s)
  BY <1>1 DEF Activate, Deactivate, InFlight, Sound, IInv, StateOK, HandlerInv,
              HandlerStates, Pcs, Subscribing, Inserting, Updating, Finding
<1>. QED
  BY <1>2, <1>3, StepKeeps DEF Activate, Deactivate, Goto, Become, IInv, StateOK

LEMMA RereadStep ==
  ASSUME IInv, NEW h \in Handlers, Reread(h)
  PROVE  IInv'
<1>1. handlers[h].id \in Ids \cup {None}
  BY DEF IInv, StateOK, HandlerStates
<1>2. (IF Asked(h, "subscribe") THEN 200 ELSE 204) \in Statuses
  BY DEF Statuses
<1>. QED  BY <1>1, <1>2, UnchangedRows, AnswerIsSound DEF Reread

LEMMA FailStep ==
  ASSUME IInv, NEW h \in Handlers, Fail(h)
  PROVE  IInv'
BY UnchangedRows, AnswerIsSound DEF Fail, Statuses

LEMMA UpdateStep ==
  ASSUME IInv, NEW h \in Handlers, LookForUpdate(h)
  PROVE  IInv'
<1> DEFINE a == handlers[h].ask
<1>1. SameRows /\ topics' = topics /\ topics' \subseteq Topics
  BY UnchangedRows DEF LookForUpdate, IInv, StateOK
<1>2. CASE Answer(h, 404, None)
  BY <1>1, <1>2, AnswerIsSound DEF Statuses
<1>3. ASSUME NEW i \in About(a), NEW pc \in Updating,
             Become(h, [handlers[h] EXCEPT !.id = i, !.seen = rows[i], !.pc = pc])
      PROVE  IInv'
  <2>1. i \in Stored /\ rows[i] \in Rows
    BY <1>3 DEF About, AboutIn, Stored, IInv, StateOK
  <2>2. Sound([handlers[h] EXCEPT !.id = i, !.seen = rows[i], !.pc = pc])
    BY <2>1 DEF LookForUpdate, Asked, InFlight, Sound, IInv, StateOK, HandlerInv,
                Stored, HandlerStates, Pcs, Subscribing, Inserting, Updating, Finding
  <2>. QED  BY <1>1, <1>3, <2>2, StepKeeps DEF Become
<1>4. ASSUME NEW i \in About(a)
      PROVE  (IF Switches(a, rows[i]) THEN "active" ELSE AfterActive(h)) \in Updating
  BY DEF AfterActive, Updating
<1>. QED  BY <1>2, <1>3, <1>4 DEF LookForUpdate

LEMMA WriteStep ==
  ASSUME IInv, NEW h \in Handlers, WriteActive(h) \/ WritePrefs(h)
  PROVE  IInv'
<1>1. PICK pc \in Updating : Goto(h, pc) /\ rows' = rows /\ topics' = topics
  BY DEF WriteActive, WritePrefs, AfterActive, Updating
<1>2. handlers[h].pc \in Updating
  BY DEF WriteActive, WritePrefs, Updating
<1>3. Sound([handlers[h] EXCEPT !.pc = pc])
  BY <1>1, <1>2 DEF InFlight, Sound, IInv, StateOK, HandlerInv,
                    HandlerStates, Pcs, Subscribing, Inserting, Updating, Finding
<1>. QED
  BY <1>1, <1>3, UnchangedRows, StepKeeps DEF Goto, Become, IInv, StateOK

\* What an update commits is a row again.
LEMMA MergedIsPrefs ==
  ASSUME IInv, NEW h \in Handlers, handlers[h].pc = "commit"
  PROVE  Merged(h) \in Prefs
<1>1. handlers[h].seen \in Rows /\ handlers[h].ask \in Requests
  BY AsksAssumption DEF IInv, HandlerInv, Updating, InFlight
<1>. QED  BY <1>1 DEF Merged, Rows, Requests, Patches, Prefs

\* The rows stay those of the same users and topics.
LEMMA CommitKeepsRows ==
  ASSUME IInv, NEW h \in Handlers, CommitUpdate(h)
  PROVE  SameRows
<1> DEFINE i == handlers[h].id
           a == handlers[h].ask
           seen == handlers[h].seen
<1>1. i \in Stored /\ seen \in Rows /\ a \in Requests
  BY AsksAssumption, FoundIsStored DEF CommitUpdate, IInv, HandlerInv, Finding, Updating, InFlight
<1>2. Merged(h) \in Prefs
  BY MergedIsPrefs DEF CommitUpdate
<1>3. (IF Switches(a, seen) THEN Target(a, seen) ELSE rows[i].active) \in BOOLEAN
  BY <1>1 DEF Target, Rows, Requests, IInv, StateOK, Stored
<1> DEFINE b == IF Switches(a, seen) THEN Target(a, seen) ELSE rows[i].active
           p == IF Prefers(h) THEN Merged(h) ELSE rows[i].prefs
<1>4. rows[i] \in Rows
  BY <1>1 DEF IInv, StateOK, Stored
<1>5. p \in Prefs
  BY <1>2, <1>4 DEF Rows
<1>6. rows' = [rows EXCEPT ![i] = [@ EXCEPT !.active = b, !.prefs = p]]
  BY <1>1, <1>4 DEF CommitUpdate, IInv, StateOK, Rows, Stored
<1> HIDE DEF b, p
<1>7. [rows[i] EXCEPT !.active = b, !.prefs = p] \in Rows
  BY <1>3, <1>4, <1>5 DEF Rows, b
<1>. QED
  BY <1>1, <1>4, <1>6, <1>7, AbsentAssumption DEF IInv, StateOK, SameRows, Stored, Rows

LEMMA CommitUpdateStep ==
  ASSUME IInv, NEW h \in Handlers, CommitUpdate(h)
  PROVE  IInv'
<1>1. handlers[h].id \in Stored
  BY FoundIsStored DEF CommitUpdate, Finding, Updating
<1>2. Answer(h, 200, handlers[h].id) /\ topics' = topics
  BY DEF CommitUpdate
<1>3. 200 \in Statuses /\ handlers[h].id \in Ids \cup {None}
  BY <1>1 DEF Statuses, Stored
<1>. QED  BY <1>2, <1>3, CommitKeepsRows, AnswerIsSound

LEMMA TopicStep ==
  ASSUME IInv, NEW t \in Topics, CreateTopic(t)
  PROVE  IInv'
<1>1. StateOK'
  BY DEF CreateTopic, IInv, StateOK
<1>2. HandlerInv'
  BY SameAbout DEF CreateTopic, IInv, HandlerInv, InFlight
<1>3. InsertInv' /\ OneRowPerPair'
  BY DEF CreateTopic, IInv, InsertInv, OneRowPerPair, Stored
<1>. QED  BY <1>1, <1>2, <1>3 DEF IInv

-----------------------------------------------------------------------------
(* The insert and its commit.                                              *)

\* PairLocked keeps others from inserting the pair, the unique index from
\* inserting it again, and an id that is drawn is greater than all before.
LEMMA InsertStep ==
  ASSUME IInv, NEW h \in Handlers, Insert(h)
  PROVE  IInv'
<1>1. SameRows /\ topics' = topics
  BY UnchangedRows DEF Insert
<1>2. CASE Answer(h, 500, None)
  BY <1>1, <1>2, AnswerIsSound DEF Statuses
<1>3. ASSUME NEW i \in FreshIds, About(handlers[h].ask) = {}, ~PairLocked(h),
             Become(h, [handlers[h] EXCEPT !.pc = "create", !.id = i])
      PROVE  IInv'
  <2> DEFINE s == [handlers[h] EXCEPT !.pc = "create", !.id = i]
  <2>1. handlers[h].pc = "insert" /\ rows' = rows
    BY DEF Insert
  <2>2. \A g \in Handlers : handlers'[g] = IF g = h THEN s ELSE handlers[g]
    BY <1>3 DEF Become, IInv, StateOK
  <2>3. s \in HandlerStates /\ s.pc = "create" /\ s.id = i /\ s.ask = handlers[h].ask
    BY DEF IInv, StateOK, HandlerStates, Pcs, FreshIds
  <2>4. StateOK'
    BY <1>1, <1>3, <2>1, <2>3 DEF Become, IInv, StateOK
  <2>5. HandlerInv'
    <3> HIDE DEF s
    <3>1. \A a : About(a)' = About(a)
      BY <2>1, SameAbout
    <3>. QED
      BY <1>1, <2>1, <2>2, <2>3, <3>1
      DEF IInv, HandlerInv, InFlight, Subscribing, Inserting, Updating, Finding
  <2>6. InsertInv'
    <3>1. i \in Ids /\ i \notin Stored /\ \A g \in Handlers : handlers[g].pc = "create" => handlers[g].id # i
      BY DEF FreshIds, Drawn
    <3>2. handlers[h].ask.op = "subscribe"
      BY <2>1 DEF IInv, HandlerInv, Subscribing
    <3>3. \A j \in Stored : <<rows[j].user, rows[j].topic>>
                              # <<handlers[h].ask.user, handlers[h].ask.topic>>
      BY <1>3, <3>2 DEF About, AboutIn, Stored
    <3>4. \A g \in Handlers \ {h} : handlers[g].pc = "create" =>
            <<handlers[g].ask.user, handlers[g].ask.topic>>
              # <<handlers[h].ask.user, handlers[h].ask.topic>>
      BY <1>3 DEF PairLocked
    <3> HIDE DEF s
    <3>5. Stored' = Stored
      BY <2>1 DEF Stored
    <3>6. \A g \in Handlers : handlers'[g].pc = "create" /\ g # h =>
            handlers'[g] = handlers[g] /\ handlers[g].pc = "create"
      BY <2>2
    <3>7. handlers'[h].id = i /\ handlers'[h].ask = handlers[h].ask
      BY <2>2, <2>3
    <3>. QED
      BY <2>1, <3>1, <3>3, <3>4, <3>5, <3>6, <3>7 DEF IInv, InsertInv
  <2>7. OneRowPerPair'
    BY <2>1 DEF IInv, OneRowPerPair, Stored
  <2>. QED  BY <2>4, <2>5, <2>6, <2>7 DEF IInv
<1>. QED  BY <1>2, <1>3 DEF Insert

LEMMA CommitCreateStep ==
  ASSUME IInv, NEW h \in Handlers, CommitCreate(h)
  PROVE  IInv'
<1> DEFINE i == handlers[h].id
           a == handlers[h].ask
           r == [user |-> a.user, topic |-> a.topic, active |-> TRUE, prefs |-> Defaults]
           s == [handlers[h] EXCEPT !.pc = "done", !.status = 201, !.id = i, !.seen = None]
<1>1. handlers[h].pc = "create" /\ i \in Ids \ Stored /\ a \in Requests /\ a.topic \in Topics
  BY AsksAssumption
  DEF CommitCreate, IInv, StateOK, InsertInv, HandlerInv, InFlight, Inserting
<1>2. r \in Rows /\ r # None
  <2>1. a.user \in Users
    BY <1>1 DEF Requests
  <2>2. r \in Rows
    BY <1>1, <2>1, DefaultsAssumption DEF Rows
  <2>. QED  BY <2>2, AbsentAssumption
<1>3. rows' = [rows EXCEPT ![i] = r] /\ topics' = topics
  BY DEF CommitCreate
<1>4. \A j \in Ids : rows'[j] = IF j = i THEN r ELSE rows[j]
  BY <1>3 DEF IInv, StateOK
<1>5. Stored' = Stored \cup {i}
  BY <1>1, <1>2, <1>4 DEF Stored
<1>6. handlers' = [handlers EXCEPT ![h] = s]
  BY DEF CommitCreate, Answer, Become
<1>7. s \in HandlerStates /\ s.pc = "done"
  <2>1. handlers[h] \in HandlerStates /\ i \in Ids
    BY <1>1 DEF IInv, StateOK
  <2>2. 201 \in Statuses
    BY DEF Statuses
  <2>. QED  BY <2>1, <2>2, AnsweredState
<1>8. \A g \in Handlers : handlers'[g] = IF g = h THEN s ELSE handlers[g]
  BY <1>6 DEF IInv, StateOK
<1>9. StateOK'
  BY <1>1, <1>2, <1>3, <1>6, <1>7 DEF IInv, StateOK
<1> HIDE DEF r, s
<1>10. r.user = a.user /\ r.topic = a.topic
  BY DEF r
<1>11. HandlerInv'
  <2>1. \A b : About(b) \subseteq About(b)'
    BY <1>1, <1>4 DEF About, AboutIn, Stored
  <2>. QED
    BY <1>3, <1>7, <1>8, <2>1
    DEF IInv, HandlerInv, InFlight, Subscribing, Inserting, Updating, Finding
<1>12. \A j \in Stored : rows'[j] = rows[j] /\ j # i
  BY <1>1, <1>4 DEF Stored
<1>13. InsertInv'
  <2> SUFFICES ASSUME NEW g \in Handlers, handlers'[g].pc = "create"
               PROVE  /\ handlers'[g].id \in Ids \ Stored'
                      /\ \A j \in Stored' : <<rows'[j].user, rows'[j].topic>>
                                              # <<handlers'[g].ask.user, handlers'[g].ask.topic>>
                      /\ \A f \in Handlers \ {g} : handlers'[f].pc = "create" =>
                           /\ handlers'[f].id # handlers'[g].id
                           /\ <<handlers'[f].ask.user, handlers'[f].ask.topic>>
                                # <<handlers'[g].ask.user, handlers'[g].ask.topic>>
    BY DEF InsertInv
  <2>1. g # h /\ handlers'[g] = handlers[g]
    BY <1>7, <1>8
  <2>2. handlers[g].id # i /\ <<handlers[g].ask.user, handlers[g].ask.topic>> # <<a.user, a.topic>>
    BY <1>1, <2>1 DEF IInv, InsertInv
  <2>3. handlers'[g].id \in Ids \ Stored'
    BY <1>5, <2>1, <2>2 DEF IInv, InsertInv
  <2>4. \A j \in Stored' : <<rows'[j].user, rows'[j].topic>>
                             # <<handlers'[g].ask.user, handlers'[g].ask.topic>>
    BY <1>1, <1>4, <1>5, <1>10, <1>12, <2>1, <2>2 DEF IInv, InsertInv
  <2>5. \A f \in Handlers \ {g} : handlers'[f].pc = "create" =>
          f # h /\ handlers'[f] = handlers[f]
    BY <1>7, <1>8
  <2>. QED  BY <2>1, <2>3, <2>4, <2>5 DEF IInv, InsertInv
<1>14. OneRowPerPair'
  <2>1. \A j \in Stored : <<rows[j].user, rows[j].topic>> # <<a.user, a.topic>>
    BY <1>1 DEF IInv, InsertInv
  <2>. QED
    BY <1>1, <1>4, <1>5, <1>10, <1>12, <2>1 DEF IInv, OneRowPerPair
<1>. QED  BY <1>9, <1>11, <1>13, <1>14 DEF IInv

-----------------------------------------------------------------------------
LEMMA Initially == Init => IInv
<1> SUFFICES ASSUME Init PROVE IInv
  OBVIOUS
<1>1. StateOK
  BY EarlierAssumption
  DEF Init, SubsInit, EarlierAssumption, StateOK, Free, HandlerStates, Pcs
<1>2. HandlerInv /\ InsertInv
  BY DEF Init, SubsInit, HandlerInv, InsertInv, InFlight, Free,
         Subscribing, Inserting, Updating, Finding
<1>3. OneRowPerPair
  BY EarlierAssumption DEF Init, SubsInit, EarlierAssumption, OneRowPerPair, Stored
<1>. QED  BY <1>1, <1>2, <1>3 DEF IInv

LEMMA Stuttering ==
  ASSUME IInv, UNCHANGED subsVars
  PROVE  IInv'
<1>1. HandlerInv'
  BY SameAbout DEF IInv, HandlerInv, InFlight, subsVars
<1>. QED
  BY <1>1 DEF IInv, StateOK, InsertInv, OneRowPerPair, Stored, subsVars

LEMMA ServiceStep ==
  ASSUME IInv, SubsNext
  PROVE  IInv'
<1>1. CASE \E h \in Handlers : HandlerStep(h) \/ Fail(h)
  BY <1>1, SubscribeStep, SwitchStep, RereadStep, InsertStep, CommitCreateStep,
     UnsubscribeStep, UpdateStep, WriteStep, CommitUpdateStep, FailStep
  DEF HandlerStep
<1>2. CASE \E t \in Topics : CreateTopic(t)
  BY <1>2, TopicStep
<1>3. CASE \E h \in Handlers, a \in Asks : Receive(h, a)
  BY <1>3, ReceiveStep
<1>. QED  BY <1>1, <1>2, <1>3 DEF SubsNext, ServiceNext

LEMMA Inductive == IInv /\ [Next]_vars => IInv'
BY ServiceStep, Stuttering DEF Next, vars

LEMMA Invariance == Spec => []IInv
BY Initially, Inductive, PTL DEF Spec

\* A user has one subscription to a topic, whichever requests find none at the
\* same time and insert one.
THEOREM OneRowPerPairHolds == Spec => []OneRowPerPair
<1>1. IInv => OneRowPerPair
  BY DEF IInv
<1>. QED  BY <1>1, Invariance, PTL

-----------------------------------------------------------------------------
(* What a step changes.                                                    *)

\* A handler keeps its request, and no other one changes.
LEMMA OneHandlerSteps ==
  ASSUME IInv, NEW h \in Handlers, HandlerStep(h) \/ Fail(h)
  PROVE  /\ InFlight(h)
         /\ handlers'[h].ask = handlers[h].ask
         /\ handlers'[h].pc \notin {"idle", "look"}
         /\ \A g \in Handlers \ {h} : handlers'[g] = handlers[g]
<1>a. handlers \in [Handlers -> HandlerStates] /\ handlers[h] \in HandlerStates
  BY DEF IInv, StateOK
<1>b. ASSUME NEW s, Become(h, s), s.ask = handlers[h].ask, s.pc \notin {"idle", "look"}
      PROVE  /\ handlers'[h].ask = handlers[h].ask
             /\ handlers'[h].pc \notin {"idle", "look"}
             /\ \A g \in Handlers \ {h} : handlers'[g] = handlers[g]
  BY <1>a, <1>b DEF Become
<1>1. ASSUME NEW status, NEW i, Answer(h, status, i)
      PROVE  /\ handlers'[h].ask = handlers[h].ask
             /\ handlers'[h].pc \notin {"idle", "look"}
             /\ \A g \in Handlers \ {h} : handlers'[g] = handlers[g]
  <2>. DEFINE s == [handlers[h] EXCEPT !.pc = "done", !.status = status, !.id = i, !.seen = None]
  <2>1. s.ask = handlers[h].ask /\ s.pc = "done"
    BY <1>a DEF HandlerStates
  <2>2. Become(h, s)
    BY <1>1 DEF Answer
  <2>. HIDE DEF s
  <2>. QED  BY <1>b, <2>1, <2>2
<1>2. ASSUME NEW pc \in Pcs \ {"idle", "look"}, Goto(h, pc)
      PROVE  /\ handlers'[h].ask = handlers[h].ask
             /\ handlers'[h].pc \notin {"idle", "look"}
             /\ \A g \in Handlers \ {h} : handlers'[g] = handlers[g]
  <2>. DEFINE s == [handlers[h] EXCEPT !.pc = pc]
  <2>1. s.ask = handlers[h].ask /\ s.pc = pc
    BY <1>a DEF HandlerStates
  <2>2. Become(h, s)
    BY <1>2 DEF Goto
  <2>. HIDE DEF s
  <2>. QED  BY <1>b, <2>1, <2>2
<1>3. ASSUME NEW pc \in Pcs \ {"idle", "look"}, NEW i, NEW seen,
             \/ Become(h, [handlers[h] EXCEPT !.pc = pc, !.id = i])
             \/ Become(h, [handlers[h] EXCEPT !.id = i, !.seen = seen, !.pc = pc])
      PROVE  /\ handlers'[h].ask = handlers[h].ask
             /\ handlers'[h].pc \notin {"idle", "look"}
             /\ \A g \in Handlers \ {h} : handlers'[g] = handlers[g]
  <2>. DEFINE s == [handlers[h] EXCEPT !.pc = pc, !.id = i]
  <2>. DEFINE t == [handlers[h] EXCEPT !.id = i, !.seen = seen, !.pc = pc]
  <2>1. s.ask = handlers[h].ask /\ s.pc = pc
    BY <1>a DEF HandlerStates
  <2>2. t.ask = handlers[h].ask /\ t.pc = pc
    BY <1>a DEF HandlerStates
  <2>3. Become(h, s) \/ Become(h, t)
    BY <1>3
  <2>. HIDE DEF s, t
  <2>. QED  BY <1>b, <2>1, <2>2, <2>3
<1>4. CASE Fail(h)
  BY <1>1, <1>4 DEF Fail
<1>5. CASE LookForSubscription(h) \/ LookForRow(h)
  BY <1>1, <1>2, <1>3, <1>5 DEF LookForSubscription, LookForRow, InFlight, Pcs
<1>6. CASE Activate(h) \/ Deactivate(h) \/ Reread(h)
  BY <1>1, <1>2, <1>6 DEF Activate, Deactivate, Reread, InFlight, Pcs
<1>7. CASE Insert(h) \/ CommitCreate(h)
  BY <1>1, <1>3, <1>7 DEF Insert, CommitCreate, InFlight, Pcs
<1>8. CASE LookForUpdate(h)
  BY <1>1, <1>3, <1>8 DEF LookForUpdate, AfterActive, InFlight, Pcs
<1>9. CASE WriteActive(h) \/ WritePrefs(h)
  BY <1>2, <1>9 DEF WriteActive, WritePrefs, AfterActive, InFlight, Pcs
<1>10. CASE CommitUpdate(h)
  BY <1>1, <1>10 DEF CommitUpdate, InFlight
<1>. QED
  BY <1>4, <1>5, <1>6, <1>7, <1>8, <1>9, <1>10 DEF HandlerStep

\* What becomes of a row: it is switched, committed by an update, or unchanged.
LEMMA RowSteps ==
  ASSUME IInv, SubsNext, NEW i \in Stored
  PROVE  \/ rows'[i] = rows[i]
         \/ \E h \in Handlers :
              handlers[h].id = i /\ (Activate(h) \/ Deactivate(h) \/ CommitUpdate(h))
<1>1. ASSUME NEW h \in Handlers, CommitCreate(h)
      PROVE  rows'[i] = rows[i]
  <2>1. handlers[h].id # i
    BY <1>1 DEF CommitCreate, IInv, InsertInv
  <2>. QED  BY <1>1, <2>1 DEF CommitCreate, IInv, StateOK, Stored
<1>2. ASSUME NEW h \in Handlers, Activate(h) \/ Deactivate(h) \/ CommitUpdate(h),
             handlers[h].id # i
      PROVE  rows'[i] = rows[i]
  BY <1>2 DEF Activate, Deactivate, SetActive, CommitUpdate, IInv, StateOK, Stored
<1>3. ASSUME NEW h \in Handlers,
             \/ HandlerStep(h) /\ ~CommitCreate(h) /\ ~Activate(h) /\ ~Deactivate(h)
                /\ ~CommitUpdate(h)
             \/ Fail(h)
             \/ \E a \in Asks : Receive(h, a)
      PROVE  rows' = rows
  BY <1>3 DEF HandlerStep, LookForSubscription, Reread, Insert, LookForRow,
              LookForUpdate, WriteActive, WritePrefs, Fail, Receive
<1>4. ASSUME NEW t \in Topics, CreateTopic(t)
      PROVE  rows' = rows
  BY <1>4 DEF CreateTopic
<1>. QED
  BY <1>1, <1>2, <1>3, <1>4 DEF SubsNext, ServiceNext

\* A row that is there stays the one of its user and topic.
LEMMA SwitchesAsAsked ==
  ASSUME IInv, NEW h \in Handlers, Activate(h) \/ Deactivate(h) \/ CommitUpdate(h)
  PROVE  LET i == handlers[h].id
         IN /\ i \in Stored /\ i \in About(handlers[h].ask) /\ InFlight(h)
            /\ rows'[i].active # rows[i].active => Wanted(handlers[h].ask) = rows'[i].active
<1> DEFINE i == handlers[h].id
           a == handlers[h].ask
<1>1. i \in Stored /\ i \in About(a) /\ InFlight(h)
  BY FoundIsStored DEF Activate, Deactivate, CommitUpdate, Finding, Updating, InFlight
<1>2. i \in Ids /\ rows[i] \in Rows
  BY <1>1 DEF IInv, StateOK, Stored
<1>3. CASE Activate(h)
  <2>1. a.op = "subscribe"
    BY <1>3 DEF Activate, IInv, HandlerInv, Subscribing
  <2>2. rows'[i].active = TRUE
    BY <1>2, <1>3 DEF Activate, SetActive, IInv, StateOK, Rows
  <2>. QED  BY <1>1, <2>1, <2>2 DEF Wanted
<1>4. CASE Deactivate(h)
  <2>1. a.op = "unsubscribe"
    BY <1>4 DEF Deactivate, IInv, HandlerInv
  <2>2. rows'[i].active = FALSE
    BY <1>2, <1>4 DEF Deactivate, SetActive, IInv, StateOK, Rows
  <2>. QED  BY <1>1, <2>1, <2>2 DEF Wanted
<1>5. CASE CommitUpdate(h)
  <2>1. a.op = "update"
    BY <1>5 DEF CommitUpdate, IInv, HandlerInv, Updating
  <2>2. rows'[i].active = IF Switches(a, handlers[h].seen) THEN Target(a, handlers[h].seen)
                          ELSE rows[i].active
    BY <1>2, <1>5 DEF CommitUpdate, IInv, StateOK, Rows
  <2>. QED  BY <1>1, <2>1, <2>2 DEF Wanted, Switches, Target
<1>. QED  BY <1>3, <1>4, <1>5

\* Only requests in flight switch subscriptions, their owner's, and as asked.
THEOREM SwitchedAsAskedHolds == Spec => SwitchedAsAsked
<1>1. ASSUME IInv, [Next]_vars
      PROVE  [\A i \in Stored : rows'[i].active # rows[i].active =>
                \E h \in Handlers :
                  /\ InFlight(h)
                  /\ i \in About(handlers[h].ask)
                  /\ Wanted(handlers[h].ask) = rows'[i].active]_rows
  BY <1>1, RowSteps, SwitchesAsAsked DEF Next, vars, subsVars
<1>. QED  BY <1>1, Invariance, PTL DEF Spec, SwitchedAsAsked

-----------------------------------------------------------------------------
(* The history variables.                                                  *)

HistoryOK ==
    /\ held \in [Handlers -> SUBSET BOOLEAN]
    /\ disturbed \in [Handlers -> BOOLEAN]

LEMMA RememberedTypes ==
  ASSUME IInv', HistoryOK, Remember
  PROVE  HistoryOK'
<1>1. \A h \in Handlers : {rows'[i].active : i \in AboutIn(rows', handlers'[h].ask)} \subseteq BOOLEAN
  BY DEF AboutIn, IInv, StateOK, Rows
<1>2. held' \in [Handlers -> SUBSET BOOLEAN]
  BY <1>1 DEF Remember, HistoryOK
<1>3. \A h \in Handlers : disturbed'[h] \in BOOLEAN
  BY Zenon DEF Remember
<1>4. disturbed' = [h \in Handlers |-> disturbed'[h]]
  BY Zenon DEF Remember
<1>. QED  BY <1>2, <1>3, <1>4, Zenon DEF HistoryOK

\* A request in flight goes on to gather the values its rows have; what an
\* answered one gathered stays.
LEMMA Gathered ==
  ASSUME Remember, NEW h \in Handlers
  PROVE  /\ handlers'[h] = handlers[h] /\ handlers[h].pc = "done" => held'[h] = held[h]
         /\ InFlight(h) /\ handlers'[h].pc # "idle" =>
              /\ held[h] \subseteq held'[h]
              /\ \A i \in AboutIn(rows', handlers'[h].ask) : rows'[i].active \in held'[h]
<1>1. held'[h] =
         IF handlers[h].pc = "done" /\ handlers'[h] = handlers[h] THEN held[h]
         ELSE IF handlers'[h].pc = "idle" THEN {}
         ELSE {rows'[i].active : i \in AboutIn(rows', handlers'[h].ask)} \cup
              IF InFlight(h) THEN held[h] ELSE {}
  BY DEF Remember
<1>. QED  BY <1>1 DEF InFlight

\* What an update read was met, and nobody has written other preferences since
\* without disturbing it; what is answered was met.
SeenInv ==
    \A h \in Handlers :
        /\ handlers[h].pc \in Updating =>
             /\ handlers[h].seen.active \in held[h]
             /\ ~disturbed[h] => handlers[h].seen.prefs = rows[handlers[h].id].prefs
        /\ handlers[h].pc = "reread" => Wanted(handlers[h].ask) \in held[h]

HInv == IInv /\ HistoryOK /\ SeenInv /\ AnsweredTruly

\* Preferences change only in the commit of an update that has some.
LEMMA PrefsSteps ==
  ASSUME IInv, SubsNext, NEW i \in Stored, rows'[i].prefs # rows[i].prefs
  PROVE  \E h \in Handlers :
           /\ handlers[h].id = i /\ CommitUpdate(h) /\ CommitsPrefs(h)
           /\ rows'[i].prefs = Merged(h)
<1>1. PICK h \in Handlers :
        handlers[h].id = i /\ (Activate(h) \/ Deactivate(h) \/ CommitUpdate(h))
  BY RowSteps
<1>2. i \in Ids /\ rows[i] \in Rows
  BY DEF IInv, StateOK, Stored
<1>3. CASE Activate(h) \/ Deactivate(h)
  BY <1>1, <1>2, <1>3 DEF Activate, Deactivate, SetActive, IInv, StateOK, Rows
<1>4. CASE CommitUpdate(h)
  <2>1. handlers[h].pc = "commit" /\ handlers'[h].status = 200
    BY <1>4 DEF CommitUpdate, Answer, Become, IInv, StateOK, HandlerStates
  <2>2. rows'[i].prefs = IF Prefers(h) THEN Merged(h) ELSE rows[i].prefs
    BY <1>1, <1>2, <1>4 DEF CommitUpdate, IInv, StateOK, Rows
  <2>. QED  BY <1>1, <1>4, <2>1, <2>2 DEF CommitsPrefs
<1>. QED  BY <1>1, <1>3, <1>4

LEMMA Undisturbed ==
  ASSUME Remember, NEW h \in Handlers, ~disturbed'[h], handlers'[h].seen # None
  PROVE  /\ ~disturbed[h]
         /\ \A g \in Handlers \ {h} : handlers[g].id = handlers[h].id => ~CommitsPrefs(g)
BY Zenon DEF Remember

\* The parts of SeenInv and AnsweredTruly about one handler.
SeenBy(h) ==
    /\ handlers[h].pc \in Updating =>
         /\ handlers[h].seen.active \in held[h]
         /\ ~disturbed[h] => handlers[h].seen.prefs = rows[handlers[h].id].prefs
    /\ handlers[h].pc = "reread" => Wanted(handlers[h].ask) \in held[h]
    /\ handlers[h].pc = "done" /\ handlers[h].status \in {200, 201, 204}
         /\ Wanted(handlers[h].ask) # None => Wanted(handlers[h].ask) \in held[h]

LEMMA ByHandlers == SeenInv /\ AnsweredTruly <=> \A h \in Handlers : SeenBy(h)
BY DEF SeenInv, AnsweredTruly, SeenBy

LEMMA CommittedIsDone ==
  ASSUME IInv, NEW h \in Handlers, CommitUpdate(h)
  PROVE  handlers'[h].pc = "done"
BY DEF CommitUpdate, Answer, Become, IInv, StateOK, HandlerStates

LEMMA BystanderSees ==
  ASSUME HInv, SubsNext, Remember, NEW h \in Handlers, handlers'[h] = handlers[h]
  PROVE  SeenBy(h)'
<1>1. SeenBy(h)
  BY ByHandlers DEF HInv
<1>2. CASE handlers[h].pc \in Updating
  <2>1. InFlight(h) /\ handlers[h].id \in Stored /\ handlers[h].seen \in Rows
    BY <1>2, FoundIsStored DEF HInv, IInv, HandlerInv, InFlight, Updating, Finding
  <2>2. handlers[h].seen.active \in held'[h]
    BY <1>1, <1>2, <2>1, Gathered DEF SeenBy, InFlight
  <2>3. ASSUME ~disturbed'[h]
        PROVE  handlers[h].seen.prefs = rows'[handlers[h].id].prefs
    <3>1. handlers[h].seen # None
      BY <2>1, AbsentAssumption
    <3>2. ~disturbed[h]
          /\ \A g \in Handlers \ {h} : handlers[g].id = handlers[h].id => ~CommitsPrefs(g)
      BY <2>3, <3>1, Undisturbed
    <3>3. ~CommitUpdate(h)
      <4>1. CommitUpdate(h) => handlers'[h].pc = "done"
        BY CommittedIsDone DEF HInv
      <4>. QED  BY <1>2, <4>1 DEF Updating
    <3>4. rows'[handlers[h].id].prefs = rows[handlers[h].id].prefs
      BY <2>1, <3>2, <3>3, PrefsSteps DEF HInv
    <3>. QED  BY <1>1, <1>2, <3>2, <3>4 DEF SeenBy
  <2>. QED  BY <1>2, <2>2, <2>3 DEF SeenBy, Updating
<1>3. CASE handlers[h].pc = "reread"
  BY <1>1, <1>3, Gathered DEF SeenBy, InFlight, Updating
<1>4. CASE handlers[h].pc = "done"
  BY <1>1, <1>4, Gathered DEF SeenBy, Updating
<1>. QED  BY <1>2, <1>3, <1>4 DEF SeenBy

\* What is committed for a request is met by it at once.
LEMMA WriterSees ==
  ASSUME HInv, NEW h \in Handlers, Remember,
         Activate(h) \/ Deactivate(h) \/ Reread(h) \/ CommitCreate(h) \/ CommitUpdate(h)
  PROVE  SeenBy(h)'
<1> DEFINE i == handlers[h].id
           a == handlers[h].ask
<1>1. IInv /\ SeenBy(h)
  BY ByHandlers DEF HInv
<1>2. InFlight(h) /\ handlers'[h].ask = a /\ handlers'[h].pc \notin {"idle", "look"}
  BY <1>1, OneHandlerSteps DEF HandlerStep
<1>3. /\ held[h] \subseteq held'[h]
      /\ \A j \in AboutIn(rows', a) : rows'[j].active \in held'[h]
  BY <1>2, Gathered
<1>4. handlers[h] \in HandlerStates
  BY <1>1 DEF IInv, StateOK
<1>5. CASE Reread(h)
  <2>1. Wanted(a) \in held'[h]
    BY <1>1, <1>3, <1>5 DEF Reread, SeenBy
  <2>2. handlers'[h].pc = "done"
    BY <1>1, <1>4, <1>5 DEF Reread, Answer, Become, IInv, StateOK, HandlerStates
  <2>. QED  BY <1>2, <2>1, <2>2 DEF SeenBy, Updating
<1>6. CASE Activate(h) \/ Deactivate(h)
  <2>1. i \in Stored /\ i \in About(a)
    BY <1>1, <1>6, SwitchesAsAsked
  <2>2. SameRows
    BY <1>1, <1>6, <2>1, SwitchKeepsRows DEF Activate, Deactivate
  <2>3. i \in AboutIn(rows', a)
    BY <2>1, <2>2 DEF About, AboutIn, SameRows
  <2>4. Wanted(a) = rows'[i].active
    <3>1. a.op = IF handlers[h].pc = "activate" THEN "subscribe" ELSE "unsubscribe"
      BY <1>1, <1>6 DEF Activate, Deactivate, IInv, HandlerInv, Subscribing
    <3>2. i \in Ids /\ rows[i] \in Rows
      BY <1>1, <2>1 DEF IInv, StateOK, Stored
    <3>3. CASE Activate(h)
      <4>1. rows'[i].active = TRUE
        BY <1>1, <3>2, <3>3 DEF Activate, SetActive, IInv, StateOK, Rows
      <4>. QED  BY <3>1, <3>3, <4>1 DEF Wanted, Activate
    <3>4. CASE Deactivate(h)
      <4>1. rows'[i].active = FALSE
        BY <1>1, <3>2, <3>4 DEF Deactivate, SetActive, IInv, StateOK, Rows
      <4>. QED  BY <3>1, <3>4, <4>1 DEF Wanted, Deactivate
    <3>. QED  BY <1>6, <3>3, <3>4
  <2>5. handlers'[h].pc = "reread"
    BY <1>1, <1>4, <1>6 DEF Activate, Deactivate, Goto, Become, IInv, StateOK, HandlerStates
  <2>. QED  BY <1>2, <1>3, <2>3, <2>4, <2>5 DEF SeenBy, Updating
<1>7. CASE CommitCreate(h)
  <2>1. a.op = "subscribe" /\ i \in Ids
    BY <1>1, <1>7 DEF CommitCreate, IInv, HandlerInv, InsertInv, Subscribing
  <2>2. rows'[i] = [user |-> a.user, topic |-> a.topic, active |-> TRUE, prefs |-> Defaults]
    BY <1>1, <1>7, <2>1 DEF CommitCreate, IInv, StateOK
  <2>3. rows'[i] # None
    <3>1. a \in Requests /\ a.topic \in Topics
      BY <1>1, <1>2, <1>7, AsksAssumption
      DEF CommitCreate, IInv, StateOK, HandlerInv, Inserting
    <3>2. a.user \in Users
      BY <3>1 DEF Requests
    <3>3. rows'[i] \in Rows
      BY <2>2, <3>1, <3>2, DefaultsAssumption DEF Rows
    <3>. QED  BY <3>3, AbsentAssumption
  <2>4. i \in AboutIn(rows', a) /\ rows'[i].active = TRUE
    BY <2>1, <2>2, <2>3 DEF AboutIn
  <2>5. handlers'[h].pc = "done"
    BY <1>1, <1>4, <1>7 DEF CommitCreate, Answer, Become, IInv, StateOK, HandlerStates
  <2>. QED  BY <1>2, <1>3, <2>1, <2>4, <2>5 DEF SeenBy, Updating, Wanted
<1>8. CASE CommitUpdate(h)
  <2>1. i \in Stored /\ i \in About(a)
    BY <1>1, <1>8, SwitchesAsAsked
  <2>2. a.op = "update" /\ handlers[h].seen.active \in held[h]
    BY <1>1, <1>8 DEF CommitUpdate, IInv, HandlerInv, SeenBy, Updating
  <2>3. handlers'[h].pc = "done"
    BY <1>1, <1>4, <1>8 DEF CommitUpdate, Answer, Become, IInv, StateOK, HandlerStates
  <2>4. CASE Switches(a, handlers[h].seen)
    <3>1. SameRows
      BY <1>1, <1>8, CommitKeepsRows
    <3>2. i \in AboutIn(rows', a)
      BY <2>1, <3>1 DEF About, AboutIn, SameRows
    <3>3. i \in Ids /\ rows[i] \in Rows
      BY <1>1, <2>1 DEF IInv, StateOK, Stored
    <3>4. rows'[i].active = Target(a, handlers[h].seen)
      BY <1>1, <1>8, <2>4, <3>3 DEF CommitUpdate, IInv, StateOK, Rows
    <3>5. Wanted(a) # None => Wanted(a) = Target(a, handlers[h].seen)
      BY <2>2 DEF Wanted, Target
    <3>. QED  BY <1>2, <1>3, <2>3, <3>2, <3>4, <3>5 DEF SeenBy, Updating
  <2>5. CASE ~Switches(a, handlers[h].seen)
    <3>1. Wanted(a) # None => Wanted(a) = handlers[h].seen.active
      BY <2>2, <2>5 DEF Switches, Target, Wanted
    <3>. QED  BY <1>2, <1>3, <2>2, <2>3, <3>1 DEF SeenBy, Updating
  <2>. QED  BY <2>4, <2>5
<1>. QED  BY <1>5, <1>6, <1>7, <1>8

\* A look at the row, at its time.
LEMMA ReaderSees ==
  ASSUME HInv, NEW h \in Handlers, Remember,
         LookForSubscription(h) \/ LookForRow(h) \/ LookForUpdate(h)
  PROVE  SeenBy(h)'
<1> DEFINE a == handlers[h].ask
<1>1. IInv
  BY DEF HInv
<1>2. InFlight(h) /\ handlers'[h].ask = a /\ handlers'[h].pc \notin {"idle", "look"}
  BY <1>1, OneHandlerSteps DEF HandlerStep
<1>3. rows' = rows
  BY DEF LookForSubscription, LookForRow, LookForUpdate
<1>4. \A i \in About(a) : rows'[i].active \in held'[h]
  BY <1>2, <1>3, Gathered DEF About
<1>5. handlers[h] \in HandlerStates
  BY <1>1 DEF IInv, StateOK
<1>6. ASSUME NEW status, NEW i, Answer(h, status, i)
      PROVE  handlers'[h].pc = "done" /\ handlers'[h].status = status
  BY <1>1, <1>5, <1>6 DEF Answer, Become, IInv, StateOK, HandlerStates
<1>7. ASSUME NEW pc, Goto(h, pc)
      PROVE  handlers'[h].pc = pc
  BY <1>1, <1>5, <1>7 DEF Goto, Become, IInv, StateOK, HandlerStates
<1>8. CASE LookForSubscription(h)
  <2>1. a.op = "subscribe"
    BY <1>8 DEF LookForSubscription, Asked
  <2>2. CASE Answer(h, 404, None)
    BY <1>6, <2>2 DEF SeenBy, Updating
  <2>3. CASE Goto(h, "insert")
    BY <1>7, <2>3 DEF SeenBy, Updating
  <2>4. ASSUME NEW i \in About(a), rows[i].active, Answer(h, 200, i)
        PROVE  SeenBy(h)'
    <3>1. rows[i].active = TRUE
      BY <1>1, <2>4 DEF IInv, StateOK, Rows, About, AboutIn
    <3>. QED  BY <1>2, <1>3, <1>4, <1>6, <2>1, <2>4, <3>1 DEF SeenBy, Updating, Wanted
  <2>5. ASSUME NEW i, Become(h, [handlers[h] EXCEPT !.pc = "activate", !.id = i])
        PROVE  SeenBy(h)'
    <3>1. handlers'[h].pc = "activate"
      BY <1>1, <1>5, <2>5 DEF Become, IInv, StateOK, HandlerStates
    <3>. QED  BY <3>1 DEF SeenBy, Updating
  <2>. QED  BY <1>8, <2>2, <2>3, <2>4, <2>5 DEF LookForSubscription
<1>9. CASE LookForRow(h)
  <2>1. a.op = "unsubscribe"
    BY <1>9 DEF LookForRow, Asked
  <2>2. CASE Answer(h, 404, None)
    BY <1>6, <2>2 DEF SeenBy, Updating
  <2>3. ASSUME NEW i \in About(a), ~rows[i].active, Answer(h, 204, i)
        PROVE  SeenBy(h)'
    <3>1. rows[i].active = FALSE
      BY <1>1, <2>3 DEF IInv, StateOK, Rows, About, AboutIn
    <3>. QED  BY <1>2, <1>3, <1>4, <1>6, <2>1, <2>3, <3>1 DEF SeenBy, Updating, Wanted
  <2>4. ASSUME NEW i, Become(h, [handlers[h] EXCEPT !.pc = "deactivate", !.id = i])
        PROVE  SeenBy(h)'
    <3>1. handlers'[h].pc = "deactivate"
      BY <1>1, <1>5, <2>4 DEF Become, IInv, StateOK, HandlerStates
    <3>. QED  BY <3>1 DEF SeenBy, Updating
  <2>. QED  BY <1>9, <2>2, <2>3, <2>4 DEF LookForRow
<1>10. CASE LookForUpdate(h)
  <2>1. CASE Answer(h, 404, None)
    BY <1>6, <2>1 DEF SeenBy, Updating
  <2>2. ASSUME NEW i \in About(a), NEW pc \in Updating,
               Become(h, [handlers[h] EXCEPT !.id = i, !.seen = rows[i], !.pc = pc])
        PROVE  SeenBy(h)'
    <3>1. /\ handlers'[h].seen = rows[i] /\ handlers'[h].id = i
          /\ handlers'[h].pc \in Updating
      BY <1>1, <1>5, <2>2 DEF Become, IInv, StateOK, HandlerStates
    <3>. QED  BY <1>3, <1>4, <3>1 DEF SeenBy, Updating
  <2>3. ASSUME NEW i \in About(a)
        PROVE  (IF Switches(a, rows[i]) THEN "active" ELSE AfterActive(h)) \in Updating
    BY DEF AfterActive, Updating
  <2>. QED  BY <1>10, <2>1, <2>2, <2>3 DEF LookForUpdate
<1>. QED  BY <1>8, <1>9, <1>10

LEMMA LockerSees ==
  ASSUME HInv, NEW h \in Handlers, SubsNext, Remember, WriteActive(h) \/ WritePrefs(h)
  PROVE  SeenBy(h)'
<1>1. IInv /\ SeenBy(h)
  BY ByHandlers DEF HInv
<1>2. PICK pc \in Updating : Goto(h, pc)
  BY DEF WriteActive, WritePrefs, AfterActive, Updating
<1>3. handlers[h].pc \in Updating /\ rows' = rows
  BY DEF WriteActive, WritePrefs, Updating
<1>4. /\ handlers'[h].seen = handlers[h].seen
      /\ handlers'[h].id = handlers[h].id
      /\ handlers'[h].ask = handlers[h].ask
      /\ handlers'[h].pc = pc
  BY <1>1, <1>2 DEF Goto, Become, IInv, StateOK, HandlerStates
<1>5. handlers[h].seen \in Rows /\ InFlight(h)
  BY <1>1, <1>3 DEF IInv, HandlerInv, Updating, InFlight
<1>6. held[h] \subseteq held'[h]
  BY <1>2, <1>4, <1>5, Gathered DEF Updating
<1>7. ~disturbed'[h] => ~disturbed[h]
  BY <1>4, <1>5, AbsentAssumption, Undisturbed
<1>. QED
  BY <1>1, <1>2, <1>3, <1>4, <1>6, <1>7 DEF SeenBy, Updating

LEMMA OtherSees ==
  ASSUME HInv, NEW h \in Handlers,
         Insert(h) \/ Fail(h) \/ \E a \in Asks : Receive(h, a)
  PROVE  SeenBy(h)'
<1>1. IInv
  BY DEF HInv
<1>2. handlers[h] \in HandlerStates
  BY <1>1 DEF IInv, StateOK
<1>3. CASE Answer(h, 500, None)
  <2>1. handlers'[h].pc = "done" /\ handlers'[h].status = 500
    BY <1>1, <1>2, <1>3 DEF Answer, Become, IInv, StateOK, HandlerStates
  <2>. QED  BY <2>1 DEF SeenBy, Updating
<1>4. ASSUME NEW i, Become(h, [handlers[h] EXCEPT !.pc = "create", !.id = i])
      PROVE  SeenBy(h)'
  <2>1. handlers'[h].pc = "create"
    BY <1>1, <1>2, <1>4 DEF Become, IInv, StateOK, HandlerStates
  <2>. QED  BY <2>1 DEF SeenBy, Updating
<1>5. ASSUME NEW a, Receive(h, a)
      PROVE  SeenBy(h)'
  <2>1. handlers'[h].pc = "look"
    BY <1>1, <1>5 DEF Receive, Become, Free, IInv, StateOK
  <2>. QED  BY <2>1 DEF SeenBy, Updating
<1>. QED  BY <1>3, <1>4, <1>5 DEF Insert, Fail

LEMMA HistoryInitially == Init => HInv
<1> SUFFICES ASSUME Init PROVE HInv
  OBVIOUS
<1>1. HistoryOK
  BY DEF Init, HistoryOK
<1>2. SeenInv /\ AnsweredTruly
  BY DEF Init, SubsInit, Free, SeenInv, AnsweredTruly, Updating
<1>. QED  BY <1>1, <1>2, Initially DEF HInv

LEMMA HistoryInductive == HInv /\ [Next]_vars => HInv'
<1>1. ASSUME HInv, UNCHANGED vars
      PROVE  HInv'
  <2>1. IInv'
    BY <1>1, Stuttering DEF HInv, vars
  <2>2. HistoryOK' /\ SeenInv' /\ AnsweredTruly'
    BY <1>1 DEF HInv, HistoryOK, SeenInv, AnsweredTruly, vars, subsVars
  <2>. QED  BY <2>1, <2>2 DEF HInv
<1>2. ASSUME HInv, SubsNext, Remember
      PROVE  HInv'
  <2>1. IInv'
    BY <1>2, ServiceStep DEF HInv
  <2>2. HistoryOK'
    BY <1>2, <2>1, RememberedTypes DEF HInv
  <2>3. ASSUME NEW h \in Handlers, HandlerStep(h) \/ Fail(h) \/ \E a \in Asks : Receive(h, a)
        PROVE  SeenBy(h)'
    BY <1>2, <2>3, WriterSees, ReaderSees, LockerSees, OtherSees DEF HandlerStep
  <2>4. ASSUME NEW h \in Handlers, HandlerStep(h) \/ Fail(h) \/ \E a \in Asks : Receive(h, a),
               NEW g \in Handlers \ {h}
        PROVE  handlers'[g] = handlers[g]
    BY <1>2, <2>4, OneHandlerSteps DEF HInv, Receive, Become, IInv, StateOK
  <2>5. ASSUME NEW t \in Topics, CreateTopic(t)
        PROVE  handlers' = handlers
    BY <2>5 DEF CreateTopic
  <2>6. ASSUME NEW g \in Handlers
        PROVE  SeenBy(g)'
    BY <1>2, <2>3, <2>4, <2>5, BystanderSees DEF SubsNext, ServiceNext
  <2>7. SeenInv' /\ AnsweredTruly'
    BY <2>6 DEF SeenInv, AnsweredTruly, SeenBy
  <2>. QED  BY <2>1, <2>2, <2>7 DEF HInv
<1>. QED  BY <1>1, <1>2 DEF Next

LEMMA HistoryInvariance == Spec => []HInv
BY HistoryInitially, HistoryInductive, PTL DEF Spec

\* Every variable keeps its type: no merge of a patch with what was read, and no
\* answer, leaves it.
THEOREM TypeCorrect == Spec => []TypeOK
<1>1. HInv => TypeOK
  BY DEF HInv, IInv, StateOK, HistoryOK, TypeOK
<1>. QED  BY <1>1, HistoryInvariance, PTL

\* An answer of success was true at some moment since the request arrived,
\* though it may rest on a row that others have switched since it was read.
THEOREM AnsweredTrulyHolds == Spec => []AnsweredTruly
<1>1. HInv => AnsweredTruly
  BY DEF HInv
<1>. QED  BY <1>1, HistoryInvariance, PTL

\* Preferences a patch does not name change only by an update that overlapped
\* with another: what it writes back is what it read.
THEOREM UndoneByOverlapOnlyHolds == Spec => UndoneByOverlapOnly
<1>1. ASSUME HInv, [Next]_vars
      PROVE  [\A i \in Stored, f \in Fields : rows'[i].prefs[f] # rows[i].prefs[f] =>
                \E h \in Handlers :
                  /\ handlers[h].pc = "commit"
                  /\ handlers[h].id = i
                  /\ handlers[h].ask.patch[f] # None \/ disturbed[h]]_rows
  <2>1. CASE UNCHANGED vars
    BY <2>1 DEF vars, subsVars
  <2>2. ASSUME SubsNext, NEW i \in Stored, NEW f \in Fields,
               rows'[i].prefs[f] # rows[i].prefs[f]
        PROVE  \E h \in Handlers :
                  /\ handlers[h].pc = "commit"
                  /\ handlers[h].id = i
                  /\ handlers[h].ask.patch[f] # None \/ disturbed[h]
    <3>1. PICK h \in Handlers :
            /\ handlers[h].id = i /\ CommitUpdate(h) /\ rows'[i].prefs = Merged(h)
      BY <1>1, <2>2, PrefsSteps DEF HInv
    <3>2. handlers[h].pc = "commit"
      BY <3>1 DEF CommitUpdate
    <3>3. ~disturbed[h] => handlers[h].seen.prefs = rows[i].prefs
      BY <1>1, <3>1, <3>2 DEF HInv, SeenInv, Updating
    <3>4. handlers[h].ask.patch[f] = None => Merged(h)[f] = handlers[h].seen.prefs[f]
      BY DEF Merged
    <3>. QED  BY <2>2, <3>1, <3>2, <3>3, <3>4
  <2>. QED  BY <1>1, <2>1, <2>2 DEF Next
<1>. QED  BY <1>1, HistoryInvariance, PTL DEF Spec, UndoneByOverlapOnly

-----------------------------------------------------------------------------
(* What those that build on the service rest on.                           *)

LEMMA IdsAreFinite == IsFiniteSet(Ids) /\ Ids \subseteq Nat
BY MaxSubsAssumption, FS_Interval DEF Ids

\* Rows stay, with their user and topic.
RowsStay ==
    \A i \in Stored : /\ i \in Stored'
                      /\ rows'[i].user = rows[i].user /\ rows'[i].topic = rows[i].topic

LEMMA SameRowsStay ==
  ASSUME SameRows
  PROVE  RowsStay
BY DEF SameRows, RowsStay, Stored

LEMMA ServiceRowsStay ==
  ASSUME IInv, SubsNext
  PROVE  RowsStay
<1>1. ASSUME NEW i \in Stored
      PROVE  /\ i \in Stored'
             /\ rows'[i].user = rows[i].user /\ rows'[i].topic = rows[i].topic
  <2>1. CASE rows'[i] = rows[i]
    BY <2>1 DEF Stored
  <2>2. ASSUME NEW h \in Handlers, Activate(h) \/ Deactivate(h) \/ CommitUpdate(h)
        PROVE  SameRows
    <3>1. handlers[h].id \in Stored
      BY <2>2, SwitchesAsAsked
    <3>2. CASE Activate(h) \/ Deactivate(h)
      BY <3>1, <3>2, SwitchKeepsRows DEF Activate, Deactivate
    <3>3. CASE CommitUpdate(h)
      BY <3>3, CommitKeepsRows
    <3>. QED  BY <2>2, <3>2, <3>3
  <2>3. RowsStay \/ rows'[i] = rows[i]
    BY <2>2, RowSteps, SameRowsStay
  <2>. QED  BY <2>1, <2>3 DEF RowsStay
<1>. QED  BY <1>1 DEF RowsStay

\* What a subscribe or an unsubscribe is about is one subscription.
LEMMA AboutOne ==
  ASSUME IInv, NEW a, NEW i \in About(a), NEW j \in About(a)
  PROVE  i = j
<1>1. CASE a.op = "subscribe"
  <2>1. i \in Stored /\ j \in Stored
    BY DEF About, AboutIn, Stored
  <2>2. rows[i].user = rows[j].user /\ rows[i].topic = rows[j].topic
    BY <1>1 DEF About, AboutIn
  <2>. QED  BY <2>1, <2>2 DEF IInv, OneRowPerPair
<1>2. CASE a.op # "subscribe"
  BY <1>2 DEF About, AboutIn
<1>. QED  BY <1>1, <1>2

-----------------------------------------------------------------------------
(* The refinement.                                                         *)

Pairs == Users \X Topics
PairOf(i) == <<rows[i].user, rows[i].topic>>
EntryOf(i) == [id |-> i, active |-> rows[i].active, prefs |-> rows[i].prefs]

\* The ledger the rows stand for, as ImplementsLedger maps them.
LedgerOfRows ==
    [p \in Pairs |->
       IF RowOf(p) = {} THEN None
       ELSE LET i == CHOOSE i \in RowOf(p) : TRUE
            IN [id |-> i, active |-> rows[i].active, prefs |-> rows[i].prefs]]

\* The entry of a pair is that of its only row.
LEMMA EntryOfRow ==
  ASSUME IInv, NEW i \in Stored
  PROVE  /\ PairOf(i) \in Pairs
         /\ RowOf(PairOf(i)) = {i}
         /\ LedgerOfRows[PairOf(i)] = EntryOf(i)
         /\ EntryOf(i) \in [id : Ids, active : BOOLEAN, prefs : Prefs]
         /\ EntryOf(i) # None
<1>1. i \in Ids /\ rows[i] \in Rows
  BY DEF IInv, StateOK, Stored
<1>2. PairOf(i) \in Pairs
  BY <1>1 DEF PairOf, Pairs, Rows
<1>3. RowOf(PairOf(i)) = {i}
  BY DEF RowOf, PairOf, IInv, OneRowPerPair
<1>4. LedgerOfRows[PairOf(i)] = EntryOf(i)
  BY <1>2, <1>3 DEF LedgerOfRows, EntryOf
<1>5. EntryOf(i) \in [id : Ids, active : BOOLEAN, prefs : Prefs]
  BY <1>1 DEF EntryOf, Rows
<1>. QED  BY <1>2, <1>3, <1>4, <1>5, AbsentAssumption

LEMMA EntryOfPair ==
  ASSUME IInv, NEW p \in Pairs
  PROVE  \/ RowOf(p) = {} /\ LedgerOfRows[p] = None
         \/ \E i \in Stored : p = PairOf(i) /\ LedgerOfRows[p] = EntryOf(i)
<1>1. CASE RowOf(p) = {}
  BY <1>1 DEF LedgerOfRows
<1>2. CASE RowOf(p) # {}
  <2>1. PICK i \in Stored : rows[i].user = p[1] /\ rows[i].topic = p[2]
    BY <1>2 DEF RowOf
  <2>2. p = PairOf(i)
    BY <2>1 DEF PairOf, Pairs
  <2>. QED  BY <2>2, EntryOfRow
<1>. QED  BY <1>1, <1>2

EntriesAreRows == \A i \in Stored : LedgerOfRows[PairOf(i)] = EntryOf(i)

LEMMA EntriesHold == IInv => EntriesAreRows
BY EntryOfRow DEF EntriesAreRows

LEMMA LedgerTypes ==
  ASSUME IInv
  PROVE  LedgerOfRows \in [Pairs -> [id : Ids, active : BOOLEAN, prefs : Prefs] \cup {None}]
<1>1. \A p \in Pairs :
        LedgerOfRows[p] \in [id : Ids, active : BOOLEAN, prefs : Prefs] \cup {None}
  BY EntryOfPair, EntryOfRow
<1>2. LedgerOfRows = [p \in Pairs |-> LedgerOfRows[p]]
  BY Zenon DEF LedgerOfRows
<1>. QED  BY <1>1, <1>2, Zenon

LEMMA SameLedger ==
  ASSUME rows' = rows
  PROVE  LedgerOfRows' = LedgerOfRows
BY DEF LedgerOfRows, RowOf, Stored

\* The ledger in which an entry is switched to b and has the preferences new.
Amended(L, p, b, new) == [L EXCEPT ![p].active = b, ![p].prefs = new]

LEMMA AmendedEntry ==
  ASSUME NEW L \in [Pairs -> [id : Ids, active : BOOLEAN, prefs : Prefs] \cup {None}],
         NEW p \in Pairs, NEW b \in BOOLEAN, NEW new \in Prefs, L[p] # None
  PROVE  Amended(L, p, b, new)
           = [q \in Pairs |-> IF q = p THEN [id |-> L[p].id, active |-> b, prefs |-> new]
                              ELSE L[q]]
<1> DEFINE E == [id : Ids, active : BOOLEAN, prefs : Prefs]
<1>1. L[p] \in E
  OBVIOUS
<1>2. [L EXCEPT ![p].active = b, ![p].prefs = new]
        = [L EXCEPT ![p] = [@ EXCEPT !.active = b, !.prefs = new]]
  BY <1>1
<1>3. \A e \in E : /\ [e EXCEPT !.active = b] = [id |-> e.id, active |-> b, prefs |-> e.prefs]
                   /\ [e EXCEPT !.active = b] \in E
  OBVIOUS
<1>4. \A e \in E : [e EXCEPT !.prefs = new] = [id |-> e.id, active |-> e.active, prefs |-> new]
  OBVIOUS
<1>5. PICK f \in E : f = [L[p] EXCEPT !.active = b]
  BY <1>1, <1>3, Zenon
<1>6. f = [id |-> L[p].id, active |-> b, prefs |-> L[p].prefs]
  BY <1>1, <1>3, <1>5, Zenon
<1>7. [f EXCEPT !.prefs = new] = [id |-> L[p].id, active |-> b, prefs |-> new]
  BY <1>4, <1>6
<1>8. [L[p] EXCEPT !.active = b, !.prefs = new] = [id |-> L[p].id, active |-> b, prefs |-> new]
  BY <1>5, <1>7, Zenon
<1>. QED  BY <1>2, <1>8 DEF Amended

\* A row that is switched or updated is an entry amended.
LEMMA AmendStep ==
  ASSUME IInv, IInv', SameRows, NEW i \in Stored,
         \A j \in Ids : j # i => rows'[j] = rows[j]
  PROVE  \E p \in Pairs, b \in BOOLEAN, new \in Prefs :
           /\ LedgerOfRows[p] # None
           /\ LedgerOfRows' = Amended(LedgerOfRows, p, b, new)
<1>1. PICK p : p = PairOf(i)
  OBVIOUS
<1>2. PICK b : b = rows'[i].active
  OBVIOUS
<1>3. PICK new : new = rows'[i].prefs
  OBVIOUS
<1>4. Stored' = Stored /\ i \in Ids /\ PairOf(i)' = p
  BY <1>1 DEF SameRows, Stored, PairOf
<1>5. b \in BOOLEAN /\ new \in Prefs
  <2>1. rows'[i] \in Rows
    BY <1>4 DEF IInv, StateOK, Stored
  <2>. QED  BY <1>2, <1>3, <2>1 DEF Rows
<1>6. /\ p \in Pairs
      /\ LedgerOfRows[p] # None
      /\ LedgerOfRows[p] = [id |-> i, active |-> rows[i].active, prefs |-> rows[i].prefs]
  BY <1>1, EntryOfRow DEF EntryOf
<1>7. LedgerOfRows'[p] = [id |-> i, active |-> b, prefs |-> new]
  <2>1. EntriesAreRows'
    BY EntriesHold, PTL
  <2>2. LedgerOfRows'[p] = EntryOf(i)'
    BY <1>4, <2>1 DEF EntriesAreRows
  <2>. QED  BY <1>2, <1>3, <2>2 DEF EntryOf
<1>8. ASSUME NEW q \in Pairs, q # p
      PROVE  LedgerOfRows'[q] = LedgerOfRows[q]
  <2>1. \A j \in RowOf(q) : j # i /\ rows'[j] = rows[j]
    BY <1>1, <1>8 DEF RowOf, PairOf, Pairs, Stored
  <2>2. RowOf(q)' = RowOf(q)
    BY <1>4 DEF RowOf, SameRows, Stored
  <2>. QED  BY <2>1, <2>2 DEF LedgerOfRows
<1>9. /\ LedgerOfRows' = [q \in Pairs |-> LedgerOfRows'[q]]
      /\ LedgerOfRows = [q \in Pairs |-> LedgerOfRows[q]]
  BY Zenon DEF LedgerOfRows
<1>10. LedgerOfRows' = [q \in Pairs |-> IF q = p THEN [id |-> i, active |-> b, prefs |-> new]
                                        ELSE LedgerOfRows[q]]
  BY <1>7, <1>8, <1>9
<1>11. Amended(LedgerOfRows, p, b, new)
         = [q \in Pairs |-> IF q = p THEN [id |-> LedgerOfRows[p].id, active |-> b, prefs |-> new]
                            ELSE LedgerOfRows[q]]
  <2>1. LedgerOfRows \in [Pairs -> [id : Ids, active : BOOLEAN, prefs : Prefs] \cup {None}]
    BY LedgerTypes
  <2>. QED  BY <1>5, <1>6, <2>1, AmendedEntry
<1>12. LedgerOfRows[p].id = i
  BY <1>6
<1>. QED  BY <1>5, <1>6, <1>10, <1>11, <1>12, Zenon

\* A row that is inserted is an entry made.
LEMMA EnterStep ==
  ASSUME IInv, IInv', NEW h \in Handlers, CommitCreate(h)
  PROVE  \E p \in Pairs, i \in Ids :
           /\ LedgerOfRows[p] = None
           /\ \A q \in Pairs : LedgerOfRows[q] # None => LedgerOfRows[q].id # i
           /\ LedgerOfRows' = [LedgerOfRows EXCEPT ![p] =
                                 [id |-> i, active |-> TRUE, prefs |-> Defaults]]
<1>1. PICK i : i = handlers[h].id
  OBVIOUS
<1>2. PICK a : a = handlers[h].ask
  OBVIOUS
<1>3. PICK p : p = <<a.user, a.topic>>
  OBVIOUS
<1>4. PICK r : r = [user |-> a.user, topic |-> a.topic, active |-> TRUE, prefs |-> Defaults]
  OBVIOUS
<1>5. i \in Ids \ Stored /\ a \in Requests /\ a.topic \in Topics
  BY <1>1, <1>2, AsksAssumption
  DEF CommitCreate, IInv, StateOK, InsertInv, HandlerInv, InFlight, Inserting
<1>6. a.user \in Users
  BY <1>5 DEF Requests
<1>7. p \in Pairs
  BY <1>3, <1>5, <1>6 DEF Pairs
<1>8. r \in Rows
  BY <1>4, <1>5, <1>6, DefaultsAssumption DEF Rows
<1>9. r # None
  BY <1>8, AbsentAssumption
<1>10. \A j \in Ids : rows'[j] = IF j = i THEN r ELSE rows[j]
  BY <1>1, <1>2, <1>4, <1>5 DEF CommitCreate, IInv, StateOK
<1>11. Stored' = Stored \cup {i}
  BY <1>5, <1>9, <1>10 DEF Stored
<1>12. LedgerOfRows[p] = None
  <2>1. \A j \in Stored : PairOf(j) # p
    BY <1>2, <1>3 DEF CommitCreate, IInv, InsertInv, PairOf
  <2>. QED  BY <1>7, <2>1, EntryOfPair
<1>13. \A q \in Pairs : LedgerOfRows[q] # None => LedgerOfRows[q].id # i
  <2>1. \A j \in Stored : EntryOf(j).id # i
    BY <1>5 DEF EntryOf
  <2>. QED  BY <2>1, EntryOfPair
<1>14. LedgerOfRows'[p] = [id |-> i, active |-> TRUE, prefs |-> Defaults]
  <2>1. EntriesAreRows'
    BY EntriesHold, PTL
  <2>2. i \in Stored' /\ rows'[i] = r
    BY <1>5, <1>10, <1>11
  <2>3. PairOf(i)' = p
    BY <1>3, <1>4, <2>2 DEF PairOf
  <2>4. LedgerOfRows'[p] = EntryOf(i)'
    BY <2>1, <2>2, <2>3 DEF EntriesAreRows
  <2>. QED  BY <1>4, <2>2, <2>4 DEF EntryOf
<1>15. ASSUME NEW q \in Pairs, q # p
       PROVE  LedgerOfRows'[q] = LedgerOfRows[q]
  <2>1. \A j \in Stored : rows'[j] = rows[j]
    BY <1>5, <1>10 DEF Stored
  <2>2. ~(rows'[i].user = q[1] /\ rows'[i].topic = q[2])
    BY <1>3, <1>4, <1>5, <1>10, <1>15 DEF Pairs
  <2>3. RowOf(q)' = RowOf(q)
    BY <1>11, <2>1, <2>2 DEF RowOf
  <2>4. \A j \in RowOf(q) : rows'[j] = rows[j]
    BY <2>1 DEF RowOf
  <2>. QED  BY <2>3, <2>4 DEF LedgerOfRows
<1>16. /\ LedgerOfRows' = [q \in Pairs |-> LedgerOfRows'[q]]
       /\ LedgerOfRows = [q \in Pairs |-> LedgerOfRows[q]]
  BY Zenon DEF LedgerOfRows
<1>17. LedgerOfRows' = [LedgerOfRows EXCEPT ![p] = [id |-> i, active |-> TRUE, prefs |-> Defaults]]
  BY <1>7, <1>14, <1>15, <1>16
<1>. QED  BY <1>5, <1>7, <1>12, <1>13, <1>17

\* The ledger of the instance is that of the rows.
LEMMA LedgerSteps ==
  ASSUME IInv, IInv', [Next]_vars
  PROVE  [Ledger!LedgerNext]_LedgerOfRows
<1>1. CASE rows' = rows
  BY <1>1, SameLedger
<1>2. ASSUME NEW i \in Stored, SameRows, \A j \in Ids : j # i => rows'[j] = rows[j]
      PROVE  Ledger!LedgerNext
  <2>1. PICK p \in Pairs, b \in BOOLEAN, new \in Prefs :
          /\ LedgerOfRows[p] # None
          /\ LedgerOfRows' = Amended(LedgerOfRows, p, b, new)
    BY <1>2, AmendStep
  <2>2. Ledger!Amend(p)
    BY <2>1, Zenon DEF Ledger!Amend, Amended, LedgerOfRows, Pairs
  <2>. QED  BY <2>2 DEF Ledger!LedgerNext, Pairs
<1>3. ASSUME NEW h \in Handlers, CommitCreate(h)
      PROVE  Ledger!LedgerNext
  BY <1>3, EnterStep DEF Ledger!LedgerNext, Ledger!Enter, Ledger!Entered, LedgerOfRows, Pairs
<1>4. ASSUME NEW h \in Handlers, Activate(h) \/ Deactivate(h)
      PROVE  Ledger!LedgerNext
  <2>1. handlers[h].id \in Stored
    BY <1>4, FoundIsStored DEF Activate, Deactivate, Finding
  <2>2. SameRows
    BY <1>4, <2>1, SwitchKeepsRows DEF Activate, Deactivate
  <2>3. \A j \in Ids : j # handlers[h].id => rows'[j] = rows[j]
    BY <1>4 DEF Activate, Deactivate, SetActive, IInv, StateOK
  <2>. QED  BY <1>2, <2>1, <2>2, <2>3
<1>5. ASSUME NEW h \in Handlers, CommitUpdate(h)
      PROVE  Ledger!LedgerNext
  <2>1. handlers[h].id \in Stored
    BY <1>5, FoundIsStored DEF CommitUpdate, Finding, Updating
  <2>2. SameRows
    BY <1>5, CommitKeepsRows
  <2>3. \A j \in Ids : j # handlers[h].id => rows'[j] = rows[j]
    BY <1>5 DEF CommitUpdate, IInv, StateOK
  <2>. QED  BY <1>2, <2>1, <2>2, <2>3
<1>. QED
  BY <1>1, <1>3, <1>4, <1>5
  DEF Next, SubsNext, ServiceNext, HandlerStep, Receive, CreateTopic, LookForSubscription,
      Reread, Insert, LookForRow, LookForUpdate, WriteActive, WritePrefs, Fail, vars, subsVars

\* The rows of earlier versions make a ledger to begin with.
LEMMA LedgerBegins ==
  ASSUME Init
  PROVE  /\ LedgerOfRows \in [Pairs -> [id : Ids, active : BOOLEAN, prefs : Prefs] \cup {None}]
         /\ \A p \in Pairs : LedgerOfRows[p] # None => LedgerOfRows[p].prefs = Defaults
<1>1. IInv
  BY Initially
<1>2. \A i \in Stored : EntryOf(i).prefs = Defaults
  BY EarlierAssumption DEF Init, SubsInit, EarlierAssumption, Stored, EntryOf
<1>. QED  BY <1>1, <1>2, LedgerTypes, EntryOfPair

\* The service implements the ledger: entries once made stay under their ids,
\* whatever requests run side by side.
THEOREM LedgerImplemented == Spec => ImplementsLedger
<1>1. Init => Ledger!LedgerInit
  BY LedgerBegins DEF Ledger!LedgerInit, Ledger!Entries, Ledger!Entered, LedgerOfRows, Pairs
<1>2. IInv /\ IInv' /\ [Next]_vars => [Ledger!LedgerNext]_LedgerOfRows
  BY LedgerSteps
<1>. QED
  BY <1>1, <1>2, Invariance, PTL DEF Spec, ImplementsLedger, Ledger!LedgerSpec, LedgerOfRows, Pairs

=============================================================================

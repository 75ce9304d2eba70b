----------------------------- MODULE GatewayProofs -----------------------------
(***************************************************************************)
(* Proofs about Gateway, for any number of requests, any subscriptions,    *)
(* any size and number of pages, and any number of faults.                 *)
(***************************************************************************)
EXTENDS Gateway, SubscriptionsProofs, KeysetProofs

-----------------------------------------------------------------------------
(* The inductive invariant.                                                *)

Succeeded == {200, 201, 204}

GateStates == [pc : {"idle", "find", "write", "wait", "notify", "done"},
               request : RequestIds \cup {None}, cursor : Ids \cup {None}, page : Nat,
               tries : Nat, topic : Topics \cup {None}, sub : Ids \cup {None},
               handler : Handlers \cup {None}, saw : SUBSET BOOLEAN,
               status : Statuses \cup {None, 502}, faulty : BOOLEAN]

GateTypes ==
    /\ gates \in [Gateways -> GateStates]
    /\ sent \in [RequestIds -> Asks \cup {None}]
    /\ owner \in [Handlers -> Gateways \cup {None}]
    /\ faults \in Nat

\* A handler that answers success found, or made, what its request is about, and
\* says so with the status of its operation.
Answers(s) ==
    s.pc = "done" =>
      /\ s.ask \in Asks
      /\ s.status \in Succeeded =>
           /\ s.id \in About(s.ask)
           /\ s.ask.op = "subscribe" => s.status \in {200, 201}
           /\ s.ask.op = "unsubscribe" => s.status = 204
AnswersInv == \A h \in Handlers : Answers(handlers[h])

\* The X-Request-Ids are used one after the other; what is not yet there is not
\* asked for.
SentInv ==
    /\ \A r \in RequestIds : r \in Used <=> r <= Cardinality(Used)
    /\ \A r \in Used : sent[r].op # "subscribe" => sent[r].id \in Stored

\* A subscription of the user's that is not on the pages to be read.
TooMany(a) == Cardinality(Mine(a)) > PageSize * MaxPages
Overlooked(a) == a.id \in Mine(a) => TooMany(a)

\* A search has not come to the subscription, and has passed full pages only.
Searching(s, a) ==
    /\ a.op = "unsubscribe"
    /\ s.page < MaxPages
    /\ Cardinality(Mine(a) \ Lists!From(Mine(a), s.cursor)) >= s.page * PageSize
    /\ a.id \in Mine(a) => a.id \in Lists!From(Mine(a), s.cursor)

Noticed(r) == \E n \in inbox : n.request = r

\* A gate's request was sent; its handler works for it alone; what it is to tell
\* was so, or was told unless there was a fault or the subscription overlooked.
GateOK(s, g) ==
    LET a == sent[s.request]
    IN /\ s.pc # "idle" => s.request \in Used
       /\ s.pc = "find" => Searching(s, a)
       /\ s.pc \in {"write", "wait"} /\ a.op = "unsubscribe" /\ s.topic = None /\ ~s.faulty =>
            Overlooked(a)
       /\ s.pc = "wait" =>
            /\ s.handler \in Handlers /\ owner[s.handler] = g
            /\ handlers[s.handler].pc # "idle" /\ handlers[s.handler].ask = a
       /\ s.pc = "notify" => Wanted(a) \in s.saw /\ s.sub \in About(a)
       /\ s.pc = "done" /\ s.status \in Succeeded /\ ~s.faulty /\ a.op # "update" =>
            Noticed(s.request) \/ TooMany(a)
GatesInv == \A g \in Gateways : GateOK(gates[g], g)

\* Only a gate that waits, or gave up, has a handler at work, and one.
Working(g) == {h \in Handlers : owner[h] = g /\ InFlight(h)}
OverOK(s, g) ==
    IF s.pc = "wait" THEN Working(g) \subseteq {s.handler}
    ELSE IF s.pc = "done" /\ s.status \in {500, 502} THEN \A h, i \in Working(g) : h = i
    ELSE Working(g) = {}
OverInv == \A g \in Gateways : OverOK(gates[g], g)

\* A notification has the key of its request, of which there is but one.
InboxInv ==
    \A n \in inbox :
      /\ n.request \in Used
      /\ \E i \in About(sent[n.request]) :
           n = [key |-> <<sent[n.request].op, i, n.request>>, request |-> n.request]

GInv ==
    /\ HInv /\ AnswersInv
    /\ GateTypes /\ SentInv /\ GatesInv /\ OverInv /\ InboxInv

-----------------------------------------------------------------------------
(* The pages of a search.                                                  *)

Newer == {p \in Ids \X Ids : p[2] < p[1]}

LEMMA NewerOrders ==
  ASSUME NEW S \in SUBSET Ids
  PROVE  Ordered(Newer, S)
<1>1. IsFiniteSet(S) /\ S \subseteq Nat
  BY IdsAreFinite, FS_Subset
<1>2. \A x, y \in S : <<x, y>> \in Newer <=> y < x
  BY DEF Newer
<1>. QED  BY <1>1, <1>2 DEF Ordered

LEMMA SameSize ==
  ASSUME NEW S
  PROVE  Lists!Cardinality(S) = Cardinality(S)
BY DEF Lists!Cardinality, Cardinality

LEMMA FirstIsLeast ==
  ASSUME NEW S \in SUBSET Ids, NEW n
  PROVE  Lists!First(S, n) = Least(Newer, S, n)
<1>1. ASSUME NEW x \in S
      PROVE  {y \in S : Newest(y, x)} = Under(Newer, S, x)
  BY DEF Newest, Newer, Under
<1>. QED  BY <1>1, SameSize DEF Lists!First, Least

\* A page is full unless it is the last; the cursor of the next one has the page
\* before it and the rest of the list after it.
LEMMA PageFacts ==
  ASSUME NEW S \in SUBSET Ids, NEW c \in Ids \cup {None}
  PROVE  LET from == Lists!From(S, c)
             page == Lists!Page(S, c, PageSize)
             next == Lists!NextCursor(S, c, PageSize)
         IN /\ from \subseteq S /\ page \subseteq from
            /\ page # from => Cardinality(page) >= PageSize
            /\ next = None => page = from
            /\ next # None =>
                 /\ next \in page /\ Cardinality(page) >= PageSize
                 /\ \A x \in page : ~(x < next)
                 /\ \A y \in from \ page : y < next
<1> DEFINE from == Lists!From(S, c)
           page == Lists!Page(S, c, PageSize)
           next == Lists!NextCursor(S, c, PageSize)
           read == Lists!First(from, PageSize + 1)
<1>1. PageSize \in Nat /\ PageSize > 0
  BY GatewayAssumption
<1>2. from \subseteq S /\ from \in SUBSET Ids
  BY DEF Lists!From
<1>3. Ordered(Newer, from)
  BY <1>2, NewerOrders
<1>4. page = Least(Newer, from, PageSize) /\ read = Least(Newer, from, PageSize + 1)
  BY <1>2, FirstIsLeast DEF Lists!Page
<1>5. page \subseteq from /\ read \subseteq from /\ Cardinality(read) \in Nat
  BY <1>3, <1>4, LeastIsFinite
<1>6. next = IF Cardinality(read) > PageSize THEN Lists!Last(Lists!First(read, PageSize))
             ELSE None
  BY SameSize DEF Lists!NextCursor
<1>7. Lists!First(read, PageSize) = page
  <2>1. Lists!First(read, PageSize) = Least(Newer, read, PageSize)
    BY <1>2, <1>5, FirstIsLeast
  <2>. QED  BY <1>1, <1>3, <1>4, <2>1, SamePage
<1> HIDE DEF from, page, next, read
<1>8. /\ page # from => Cardinality(page) >= PageSize
      /\ Cardinality(read) <= PageSize => page = from
      /\ ~(Cardinality(read) <= PageSize) =>
           /\ Cardinality(page) >= PageSize
           /\ \E x \in page : \A y \in page \ {x} : <<y, x>> \in Newer
           /\ \A x \in page, y \in from \ page : <<x, y>> \in Newer
  BY <1>1, <1>3, <1>4, PageParts
<1>9. CASE Cardinality(read) <= PageSize
  BY <1>1, <1>2, <1>5, <1>6, <1>8, <1>9 DEF from, page, next
<1>10. CASE ~(Cardinality(read) <= PageSize)
  <2>1. next = Lists!Last(page)
    BY <1>1, <1>5, <1>6, <1>7, <1>10
  <2>2. \E x \in page : \A y \in page \ {x} : Newest(y, x)
    BY <1>8, <1>10 DEF Newest, Newer
  <2>3. next \in page /\ \A y \in page \ {next} : Newest(y, next)
    BY <2>1, <2>2, Zenon DEF Lists!Last
  <2>4. page \subseteq Nat
    BY <1>2, <1>5, IdsAreFinite
  <2>5. \A x \in page : ~(x < next)
    <3>1. ASSUME NEW x \in page, x # next
          PROVE  ~(x < next)
      <4>1. next < x
        BY <2>3, <3>1 DEF Newest
      <4>. QED  BY <2>3, <2>4, <4>1
    <3>. QED  BY <2>3, <2>4, <3>1
  <2>6. \A y \in from \ page : y < next
    BY <1>8, <1>10, <2>3 DEF Newer
  <2>7. next # None
    BY <1>2, <1>5, <2>3, AbsentAssumption
  <2>. QED  BY <1>2, <1>5, <1>8, <1>10, <2>3, <2>5, <2>6, <2>7 DEF from, page, next
<1>. QED  BY <1>9, <1>10

-----------------------------------------------------------------------------
(* What the service does.                                                  *)

LEMMA AboutGrows ==
  ASSUME RowsStay, NEW a
  PROVE  /\ About(a) \subseteq About(a)'
         /\ Mine(a) \subseteq Mine(a)' /\ Mine(a)' \cap Stored \subseteq Mine(a)
BY DEF RowsStay, About, AboutIn, Mine, Stored

\* The operations and their statuses.
LEMMA NewAnswer ==
  ASSUME IInv, NEW h \in Handlers, HandlerStep(h) \/ Fail(h)
  PROVE  Answers(handlers[h])'
<1> DEFINE a == handlers[h].ask
<1>1. handlers[h] \in HandlerStates
  BY DEF IInv, StateOK
<1>2. InFlight(h) /\ handlers'[h].ask = a /\ a \in Asks
  BY OneHandlerSteps DEF IInv, HandlerInv
<1>3. ASSUME NEW status, NEW i, Answer(h, status, i)
      PROVE  handlers'[h].pc = "done" /\ handlers'[h].status = status /\ handlers'[h].id = i
  BY <1>1, <1>3 DEF Answer, Become, IInv, StateOK, HandlerStates
<1>4. ASSUME NEW pc, pc # "done",
             \/ Goto(h, pc)
             \/ \E i : Become(h, [handlers[h] EXCEPT !.pc = pc, !.id = i])
             \/ \E i, r : Become(h, [handlers[h] EXCEPT !.id = i, !.seen = r, !.pc = pc])
      PROVE  Answers(handlers[h])'
  <2>1. handlers'[h].pc = pc
    BY <1>1, <1>4 DEF Goto, Become, IInv, StateOK, HandlerStates
  <2>. QED  BY <1>4, <2>1 DEF Answers
<1>5. ASSUME NEW status, NEW i, Answer(h, status, i), status \notin Succeeded
      PROVE  Answers(handlers[h])'
  BY <1>2, <1>3, <1>5 DEF Answers
<1>6. ASSUME NEW status, NEW i, Answer(h, status, i), i \in AboutIn(rows', a),
             a.op = "subscribe" => status \in {200, 201}, a.op = "unsubscribe" => status = 204
      PROVE  Answers(handlers[h])'
  BY <1>2, <1>3, <1>6 DEF Answers, About
<1>7. CASE Fail(h)
  BY <1>5, <1>7 DEF Fail, Succeeded
<1>8. CASE LookForSubscription(h)
  <2>1. a.op = "subscribe" /\ rows' = rows
    BY <1>8 DEF LookForSubscription, Asked
  <2>2. CASE Answer(h, 404, None)
    BY <1>5, <2>2 DEF Succeeded
  <2>3. CASE Goto(h, "insert")
    BY <1>4, <2>3
  <2>4. ASSUME NEW i \in About(a), Answer(h, 200, i)
        PROVE  Answers(handlers[h])'
    BY <1>6, <2>1, <2>4 DEF About
  <2>5. ASSUME NEW i, Become(h, [handlers[h] EXCEPT !.pc = "activate", !.id = i])
        PROVE  Answers(handlers[h])'
    BY <1>4, <2>5
  <2>. QED  BY <1>8, <2>2, <2>3, <2>4, <2>5 DEF LookForSubscription
<1>9. CASE LookForRow(h)
  <2>1. a.op = "unsubscribe" /\ rows' = rows
    BY <1>9 DEF LookForRow, Asked
  <2>2. CASE Answer(h, 404, None)
    BY <1>5, <2>2 DEF Succeeded
  <2>3. ASSUME NEW i \in About(a), Answer(h, 204, i)
        PROVE  Answers(handlers[h])'
    BY <1>6, <2>1, <2>3 DEF About
  <2>4. ASSUME NEW i, Become(h, [handlers[h] EXCEPT !.pc = "deactivate", !.id = i])
        PROVE  Answers(handlers[h])'
    BY <1>4, <2>4
  <2>. QED  BY <1>9, <2>2, <2>3, <2>4 DEF LookForRow
<1>10. CASE LookForUpdate(h)
  <2>1. CASE Answer(h, 404, None)
    BY <1>5, <2>1 DEF Succeeded
  <2>2. ASSUME NEW i,
               Become(h, [handlers[h] EXCEPT
                 !.id = i, !.seen = rows[i],
                 !.pc = IF Switches(a, rows[i]) THEN "active" ELSE AfterActive(h)])
        PROVE  Answers(handlers[h])'
    <3>1. PICK pc : pc = IF Switches(a, rows[i]) THEN "active" ELSE AfterActive(h)
      OBVIOUS
    <3>2. pc # "done"
      BY <3>1 DEF AfterActive
    <3>3. Become(h, [handlers[h] EXCEPT !.id = i, !.seen = rows[i], !.pc = pc])
      BY <2>2, <3>1
    <3>. QED  BY <1>4, <3>2, <3>3
  <2>. QED  BY <1>10, <2>1, <2>2 DEF LookForUpdate
<1>11. CASE Activate(h) \/ Deactivate(h)
  BY <1>4, <1>11 DEF Activate, Deactivate
<1>12. CASE WriteActive(h) \/ WritePrefs(h)
  BY <1>4, <1>12 DEF WriteActive, WritePrefs, AfterActive
<1>13. CASE Insert(h)
  <2>1. CASE Answer(h, 500, None)
    BY <1>5, <2>1 DEF Succeeded
  <2>2. ASSUME NEW i, Become(h, [handlers[h] EXCEPT !.pc = "create", !.id = i])
        PROVE  Answers(handlers[h])'
    BY <1>4, <2>2
  <2>. QED  BY <1>13, <2>1, <2>2 DEF Insert
<1>14. CASE Reread(h)
  <2>1. handlers[h].id \in AboutIn(rows', a)
    BY <1>14, FoundIsStored DEF Reread, Finding, About
  <2>2. Asked(h, "subscribe") <=> a.op = "subscribe"
    BY <1>2 DEF Asked
  <2>. QED  BY <1>6, <1>14, <2>1, <2>2 DEF Reread
<1>15. CASE CommitUpdate(h)
  <2>1. handlers[h].id \in About(a) /\ a.op = "update"
    BY <1>15, SwitchesAsAsked DEF CommitUpdate, IInv, HandlerInv, Updating
  <2>2. handlers[h].id \in AboutIn(rows', a)
    BY <1>15, <2>1, CommitKeepsRows, SameRowsStay, AboutGrows DEF About
  <2>. QED  BY <1>6, <1>15, <2>1, <2>2 DEF CommitUpdate
<1>16. CASE CommitCreate(h)
  <2>1. handlers[h].pc = "create" /\ handlers[h].id \in Ids /\ a \in Requests /\ a.topic \in Topics
    BY <1>16, AsksAssumption
    DEF CommitCreate, IInv, StateOK, InsertInv, HandlerInv, InFlight, Inserting
  <2>2. a.op = "subscribe" /\ a.user \in Users
    BY <2>1 DEF IInv, HandlerInv, Subscribing, Requests
  <2>3. PICK r : r = [user |-> a.user, topic |-> a.topic, active |-> TRUE, prefs |-> Defaults]
    OBVIOUS
  <2>4. r \in Rows /\ r.user = a.user /\ r.topic = a.topic
    BY <2>1, <2>2, <2>3, DefaultsAssumption DEF Rows
  <2>5. rows'[handlers[h].id] = r /\ Answer(h, 201, handlers[h].id)
    BY <1>16, <2>1, <2>3 DEF CommitCreate, IInv, StateOK
  <2>6. handlers[h].id \in AboutIn(rows', a)
    BY <2>1, <2>2, <2>4, <2>5, AbsentAssumption DEF AboutIn
  <2>. QED  BY <1>6, <2>2, <2>5, <2>6
<1>. QED
  BY <1>7, <1>8, <1>9, <1>10, <1>11, <1>12, <1>13, <1>14, <1>15, <1>16 DEF HandlerStep

LEMMA AnswersStay ==
  ASSUME RowsStay, NEW s, Answers(s)
  PROVE  Answers(s)'
<1>1. \A a : About(a) \subseteq About(a)'
  BY AboutGrows
<1>. QED  BY <1>1 DEF Answers

LEMMA ServiceKeeps ==
  ASSUME HInv, AnswersInv, SubsNext, Remember
  PROVE  HInv' /\ AnswersInv' /\ RowsStay
<1>1. HInv'
  BY HistoryInductive DEF Next
<1>2. IInv /\ RowsStay
  BY ServiceRowsStay DEF HInv
<1>3. ASSUME NEW g \in Handlers, handlers'[g] = handlers[g]
      PROVE  Answers(handlers[g])'
  <2>1. PICK s : s = handlers[g]
    OBVIOUS
  <2>2. Answers(s)'
    BY <1>2, <2>1, AnswersStay DEF AnswersInv
  <2>. QED  BY <1>3, <2>1, <2>2 DEF Answers
<1>4. ASSUME NEW h \in Handlers, NEW a \in Asks, Receive(h, a)
      PROVE  Answers(handlers[h])'
  <2>1. handlers'[h].pc = "look"
    BY <1>2, <1>4 DEF Receive, Become, Free, IInv, StateOK
  <2>. QED  BY <2>1 DEF Answers
<1>5. ASSUME NEW h \in Handlers, HandlerStep(h) \/ Fail(h) \/ \E a \in Asks : Receive(h, a),
             NEW g \in Handlers
      PROVE  Answers(handlers[g])'
  <2>1. g # h => handlers'[g] = handlers[g]
    BY <1>2, <1>5, OneHandlerSteps DEF Receive, Become, IInv, StateOK
  <2>2. CASE g = h
    BY <1>2, <1>4, <1>5, <2>2, NewAnswer
  <2>. QED  BY <1>3, <2>1, <2>2
<1>6. ASSUME NEW t \in Topics, CreateTopic(t), NEW g \in Handlers
      PROVE  Answers(handlers[g])'
  BY <1>3, <1>6 DEF CreateTopic
<1>7. AnswersInv'
  BY <1>5, <1>6 DEF SubsNext, ServiceNext, AnswersInv
<1>. QED  BY <1>1, <1>2, <1>7

\* The other steps leave the service alone, or take an answer away.
LEMMA RestKeeps ==
  ASSUME HInv, AnswersInv, UNCHANGED <<topics, rows>>, Remember,
         handlers' \in [Handlers -> HandlerStates],
         \A h \in Handlers : handlers'[h] = handlers[h] \/ handlers'[h] = Free
  PROVE  HInv' /\ AnswersInv' /\ RowsStay
<1>1. IInv /\ RowsStay /\ Stored' = Stored
  BY DEF HInv, RowsStay, Stored
<1>2. \A a : About(a)' = About(a)
  BY DEF About, AboutIn
<1>3. Free.pc = "idle"
  BY DEF Free
<1>4. HandlerInv'
  <2>1. ASSUME NEW h \in Handlers, handlers'[h] = handlers[h]
        PROVE  /\ InFlight(h)' => handlers'[h].ask \in Asks
               /\ handlers'[h].pc \in Subscribing => handlers'[h].ask.op = "subscribe"
               /\ handlers'[h].pc \in Inserting => handlers'[h].ask.topic \in topics'
               /\ handlers'[h].pc \in Updating =>
                    handlers'[h].ask.op = "update" /\ handlers'[h].seen \in Rows
               /\ handlers'[h].pc = "deactivate" => handlers'[h].ask.op = "unsubscribe"
               /\ handlers'[h].pc \in Finding => handlers'[h].id \in About(handlers[h].ask)'
    BY <1>1, <1>2, <2>1 DEF IInv, HandlerInv, InFlight
  <2>2. ASSUME NEW h \in Handlers, handlers'[h] = Free
        PROVE  /\ ~InFlight(h)' /\ handlers'[h].pc \notin Subscribing \cup Inserting
               /\ handlers'[h].pc \notin Updating \cup Finding
               /\ handlers'[h].pc # "deactivate"
    BY <1>3, <2>2 DEF InFlight, Subscribing, Inserting, Updating, Finding
  <2>. QED  BY <2>1, <2>2 DEF HandlerInv
<1>5. InsertInv'
  <2>1. ASSUME NEW h \in Handlers, handlers'[h].pc = "create"
        PROVE  handlers'[h] = handlers[h]
    BY <1>3, <2>1
  <2>. QED  BY <1>1, <2>1 DEF IInv, InsertInv
<1>6. IInv'
  BY <1>1, <1>4, <1>5 DEF IInv, StateOK, OneRowPerPair
<1>7. HistoryOK'
  BY <1>6, RememberedTypes DEF HInv
<1>8. ASSUME NEW h \in Handlers
      PROVE  SeenBy(h)'
  <2>1. CASE handlers'[h] = Free
    BY <1>3, <2>1 DEF SeenBy, Updating
  <2>2. CASE handlers'[h] = handlers[h] /\ handlers[h].pc \in Updating
    <3>1. InFlight(h) /\ handlers[h].seen \in Rows
      BY <1>1, <2>2 DEF IInv, HandlerInv, InFlight, Updating
    <3>2. handlers[h].seen.active \in held'[h]
      BY <2>2, <3>1, Gathered, ByHandlers DEF HInv, SeenBy, InFlight
    <3>3. ~disturbed'[h] => ~disturbed[h]
      BY <2>2, <3>1, AbsentAssumption, Undisturbed
    <3>. QED  BY <2>2, <3>2, <3>3, ByHandlers DEF HInv, SeenBy, Updating
  <2>3. CASE handlers'[h] = handlers[h] /\ handlers[h].pc \in {"reread", "done"}
    BY <2>3, Gathered, ByHandlers DEF HInv, SeenBy, InFlight, Updating
  <2>4. CASE handlers'[h] = handlers[h] /\ handlers[h].pc \notin {"reread", "done"} \cup Updating
    BY <2>4 DEF SeenBy
  <2>. QED  BY <2>1, <2>2, <2>3, <2>4
<1>9. SeenInv' /\ AnsweredTruly'
  BY <1>8 DEF SeenInv, AnsweredTruly, SeenBy
<1>10. ASSUME NEW h \in Handlers
       PROVE  Answers(handlers[h])'
  <2>1. CASE handlers'[h] = Free
    BY <1>3, <2>1 DEF Answers
  <2>2. CASE handlers'[h] = handlers[h]
    BY <1>2, <2>2 DEF Answers, AnswersInv
  <2>. QED  BY <2>1, <2>2
<1>. QED  BY <1>1, <1>6, <1>7, <1>9, <1>10 DEF HInv, AnswersInv

-----------------------------------------------------------------------------
(* What is true of a gate stays so while others move.                      *)

LEMMA CountOfIds ==
  ASSUME NEW T \in SUBSET Ids, NEW S \in SUBSET T
  PROVE  /\ IsFiniteSet(T) /\ Cardinality(T) \in Nat
         /\ IsFiniteSet(S) /\ Cardinality(S) \in Nat
         /\ Cardinality(S) <= Cardinality(T)
<1>1. IsFiniteSet(T)
  BY IdsAreFinite, FS_Subset
<1>2. IsFiniteSet(S) /\ Cardinality(S) <= Cardinality(T)
  BY <1>1, FS_Subset
<1>. QED  BY <1>1, <1>2, FS_CardinalityType

LEMMA PartsOfIds ==
  ASSUME NEW T \in SUBSET Ids, NEW P \in SUBSET T, NEW Q \in SUBSET T, P \cap Q = {}
  PROVE  Cardinality(T) >= Cardinality(P) + Cardinality(Q)
<1>1. IsFiniteSet(P) /\ IsFiniteSet(Q) /\ Cardinality(P) \in Nat /\ Cardinality(Q) \in Nat
  BY CountOfIds
<1>2. Cardinality(P \cup Q) = Cardinality(P) + Cardinality(Q)
  <2>1. Cardinality(P \cup Q) = Cardinality(P) + Cardinality(Q) - Cardinality(P \cap Q)
    BY <1>1, FS_Union
  <2>2. Cardinality(P \cap Q) = 0
    BY FS_EmptySet
  <2>. QED  BY <1>1, <2>1, <2>2
<1>3. Cardinality(P \cup Q) <= Cardinality(T) /\ Cardinality(T) \in Nat
  BY CountOfIds
<1>. QED  BY <1>1, <1>2, <1>3

LEMMA TooManyStays ==
  ASSUME RowsStay, NEW a, TooMany(a)
  PROVE  TooMany(a)'
<1>1. Mine(a) \subseteq Mine(a)' /\ Mine(a)' \subseteq Ids
  BY AboutGrows DEF Mine, Stored
<1>2. /\ Cardinality(Mine(a)) \in Nat /\ Cardinality(Mine(a)') \in Nat
      /\ Cardinality(Mine(a)) <= Cardinality(Mine(a)')
  BY <1>1, CountOfIds
<1>3. PageSize * MaxPages \in Nat
  BY GatewayAssumption
<1>4. Cardinality(Mine(a)') > PageSize * MaxPages
  BY <1>2, <1>3 DEF TooMany
<1>. QED  BY <1>4 DEF TooMany

LEMMA OverlookedStays ==
  ASSUME RowsStay, NEW a, a.id \in Stored, Overlooked(a)
  PROVE  Overlooked(a)'
<1>1. a.id \in Mine(a)' => a.id \in Mine(a)
  BY AboutGrows
<1>. QED  BY <1>1, TooManyStays DEF Overlooked

LEMMA SearchingStays ==
  ASSUME RowsStay, NEW a, NEW s, a.id \in Stored, Searching(s, a),
         s.page \in Nat
  PROVE  Searching(s, a)'
<1> DEFINE passed == Mine(a) \ Lists!From(Mine(a), s.cursor)
<1>1. Mine(a) \subseteq Mine(a)' /\ Mine(a)' \subseteq Ids /\ Mine(a)' \cap Stored \subseteq Mine(a)
  BY AboutGrows DEF Mine, Stored
<1>2. /\ Lists!From(Mine(a), s.cursor) \subseteq Lists!From(Mine(a), s.cursor)'
      /\ passed \subseteq passed' /\ passed' \subseteq Ids
  BY <1>1 DEF Lists!From
<1>3. /\ Cardinality(passed) \in Nat /\ Cardinality(passed') \in Nat
      /\ Cardinality(passed) <= Cardinality(passed')
  BY <1>2, CountOfIds
<1>4. s.page * PageSize \in Nat
  BY GatewayAssumption
<1>5. Cardinality(passed') >= s.page * PageSize
  BY <1>3, <1>4 DEF Searching
<1>6. a.id \in Mine(a)' => a.id \in Lists!From(Mine(a), s.cursor)'
  BY <1>1, <1>2 DEF Searching
<1>. QED  BY <1>5, <1>6 DEF Searching

\* Requests once sent stay.
SentStays == \A r \in Used : r \in Used' /\ sent'[r] = sent[r]

LEMMA GateStays ==
  ASSUME GInv, RowsStay, SentStays, inbox \subseteq inbox',
         NEW g \in Gateways, gates'[g] = gates[g],
         gates[g].pc = "wait" =>
           LET h == gates[g].handler
           IN /\ owner'[h] = owner[h]
              /\ handlers'[h].pc # "idle" /\ handlers'[h].ask = handlers[h].ask
  PROVE  GateOK(gates[g], g)'
<1>1. PICK s : s = gates[g]
  OBVIOUS
<1>2. PICK a : a = sent[s.request]
  OBVIOUS
<1>3. GateOK(s, g) /\ s \in GateStates
  BY <1>1 DEF GInv, GatesInv, GateTypes
<1>4. CASE s.pc = "idle"
  BY <1>1, <1>4 DEF GateOK
<1>5. CASE s.pc # "idle"
  <2>1. s.request \in Used /\ s.request \in Used' /\ sent'[s.request] = a
    BY <1>2, <1>3, <1>5 DEF GateOK, SentStays
  <2>2. a.op = "unsubscribe" => a.id \in Stored
    BY <1>2, <2>1 DEF GInv, SentInv
  <2>3. s.page \in Nat
    BY <1>3 DEF GateStates
  <2>4. s.pc = "find" => Searching(s, a)'
    <3>1. s.pc = "find" => Searching(s, a) /\ a.op = "unsubscribe"
      BY <1>2, <1>3 DEF GateOK, Searching
    <3>. QED  BY <2>2, <2>3, <3>1, SearchingStays
  <2>5. s.pc \in {"write", "wait"} /\ a.op = "unsubscribe" /\ s.topic = None /\ ~s.faulty =>
            Overlooked(a)'
    BY <1>2, <1>3, <2>2, OverlookedStays DEF GateOK
  <2>6. s.pc = "wait" =>
            /\ s.handler \in Handlers /\ owner'[s.handler] = g
            /\ handlers'[s.handler].pc # "idle" /\ handlers'[s.handler].ask = a
    BY <1>1, <1>2, <1>3 DEF GateOK
  <2>7. s.pc = "notify" => Wanted(a) \in s.saw /\ s.sub \in About(a)'
    BY <1>2, <1>3, AboutGrows DEF GateOK
  <2>8. s.pc = "done" /\ s.status \in Succeeded /\ ~s.faulty /\ a.op # "update" =>
            Noticed(s.request)' \/ TooMany(a)'
    <3>1. Noticed(s.request) => Noticed(s.request)'
      BY DEF Noticed
    <3>. QED  BY <1>2, <1>3, <3>1, TooManyStays DEF GateOK
  <2>9. GateOK(s, g)'
    BY <2>1, <2>4, <2>5, <2>6, <2>7, <2>8 DEF GateOK
  <2>. QED  BY <1>1, <2>9 DEF GateOK
<1>. QED  BY <1>4, <1>5

LEMMA OverStays ==
  ASSUME OverInv, NEW g \in Gateways, gates'[g] = gates[g], Working(g)' \subseteq Working(g)
  PROVE  OverOK(gates[g], g)'
<1>1. OverOK(gates[g], g)
  BY DEF OverInv
<1>. QED  BY <1>1 DEF OverOK

LEMMA InboxStays ==
  ASSUME GInv, RowsStay, SentStays, inbox' = inbox
  PROVE  InboxInv'
<1>1. ASSUME NEW n \in inbox
      PROVE  /\ n.request \in Used'
             /\ \E i \in About(sent[n.request])' :
                  n = [key |-> <<sent'[n.request].op, i, n.request>>, request |-> n.request]
  <2>1. PICK a : a = sent[n.request]
    OBVIOUS
  <2>2. n.request \in Used' /\ sent'[n.request] = a
    BY <2>1 DEF GInv, InboxInv, SentStays
  <2>3. PICK i \in About(a) :
           n = [key |-> <<a.op, i, n.request>>, request |-> n.request]
    BY <2>1 DEF GInv, InboxInv
  <2>4. i \in About(a)'
    BY AboutGrows
  <2>5. About(a)' = About(sent[n.request])'
    BY <2>2 DEF About
  <2>. QED  BY <2>2, <2>3, <2>4, <2>5
<1>. QED  BY <1>1 DEF InboxInv

LEMMA SentInvStays ==
  ASSUME GInv, RowsStay, sent' = sent
  PROVE  SentInv' /\ SentStays
<1>1. Used' = Used
  BY DEF Used
<1>. QED  BY <1>1 DEF GInv, SentInv, SentStays, RowsStay

-----------------------------------------------------------------------------
(* The steps of a gate.                                                    *)

LEMMA GateMoves ==
  ASSUME GInv, HInv', AnswersInv', RowsStay, SentStays, SentInv', InboxInv',
         NEW g \in Gateways, NEW s \in GateStates, Pass(g, s),
         sent' \in [RequestIds -> Asks \cup {None}],
         owner' \in [Handlers -> Gateways \cup {None}], faults' \in Nat,
         inbox \subseteq inbox', GateOK(s, g)', OverOK(s, g)',
         \A f \in Gateways \ {g} :
           /\ Working(f)' \subseteq Working(f)
           /\ gates[f].pc = "wait" =>
                LET h == gates[f].handler
                IN /\ owner'[h] = owner[h]
                   /\ handlers'[h].pc # "idle" /\ handlers'[h].ask = handlers[h].ask
  PROVE  GInv'
<1>1. gates \in [Gateways -> GateStates] /\ gates' = [gates EXCEPT ![g] = s]
  BY DEF GInv, GateTypes, Pass
<1>2. gates'[g] = s /\ \A f \in Gateways \ {g} : gates'[f] = gates[f]
  BY <1>1
<1>3. GateTypes'
  BY <1>1 DEF GateTypes
<1>4. ASSUME NEW f \in Gateways \ {g}
      PROVE  GateOK(gates[f], f)' /\ OverOK(gates[f], f)'
  BY <1>2, GateStays, OverStays DEF GInv
<1>5. GateOK(gates[g], g)' /\ OverOK(gates[g], g)'
  BY <1>2 DEF GateOK, OverOK
<1>6. GatesInv' /\ OverInv'
  BY <1>4, <1>5 DEF GatesInv, OverInv
<1>. QED  BY <1>3, <1>6 DEF GInv

\* A step that leaves all but the gate, and perhaps the inbox, as it is.
LEMMA GateAlone ==
  ASSUME GInv, Remember, NEW g \in Gateways, NEW s \in GateStates, Pass(g, s),
         UNCHANGED <<subsVars, sent, owner>>, faults' \in Nat,
         inbox \subseteq inbox', InboxInv',
         GateOK(s, g) \/ (s.pc = "done" /\ s.request \in Used /\ Noticed(s.request)'),
         OverOK(s, g)
  PROVE  GInv'
<1>1. /\ UNCHANGED <<topics, rows>> /\ handlers' = handlers
      /\ sent' = sent /\ owner' = owner
  BY DEF subsVars
<1>2. HInv' /\ AnswersInv' /\ RowsStay
  BY <1>1, RestKeeps DEF GInv, HInv, IInv, StateOK
<1>3. SentInv' /\ SentStays
  BY <1>1, <1>2, SentInvStays
<1>4. \A f : Working(f)' = Working(f)
  BY <1>1 DEF Working, InFlight
<1>5. OverOK(s, g)'
  BY <1>4 DEF OverOK
<1>6. Used' = Used /\ \A a : About(a)' = About(a) /\ Mine(a)' = Mine(a)
  BY <1>1 DEF Used, About, AboutIn, Mine, Stored
<1>7. GateOK(s, g)'
  <2>1. CASE GateOK(s, g)
    <3>1. \A a : /\ Searching(s, a) => Searching(s, a)'
                 /\ Overlooked(a) => Overlooked(a)'
                 /\ TooMany(a) => TooMany(a)'
      BY <1>6 DEF Searching, Overlooked, TooMany
    <3>2. Noticed(s.request) => Noticed(s.request)'
      BY DEF Noticed
    <3>. QED  BY <1>1, <1>6, <2>1, <3>1, <3>2 DEF GateOK
  <2>2. CASE s.pc = "done" /\ s.request \in Used /\ Noticed(s.request)'
    BY <1>6, <2>2 DEF GateOK
  <2>. QED  BY <2>1, <2>2
<1>8. \A f \in Gateways : gates[f].pc = "wait" =>
        handlers[gates[f].handler].pc # "idle"
  BY DEF GInv, GatesInv, GateOK
<1>. QED
  BY <1>1, <1>2, <1>3, <1>4, <1>5, <1>7, <1>8, GateMoves DEF GInv, GateTypes

\* One field of a gate's state is set.
LEMMA GateFields ==
  ASSUME NEW r \in GateStates
  PROVE  /\ \A x \in {"idle", "find", "write", "wait", "notify", "done"} :
              [r EXCEPT !.pc = x] \in GateStates
         /\ \A x \in RequestIds : [r EXCEPT !.request = x] \in GateStates
         /\ \A x \in Ids : [r EXCEPT !.cursor = x] \in GateStates
         /\ \A x \in Nat : /\ [r EXCEPT !.page = x] \in GateStates
                           /\ [r EXCEPT !.tries = x] \in GateStates
         /\ \A x \in Topics : [r EXCEPT !.topic = x] \in GateStates
         /\ \A x \in Ids \cup {None} : [r EXCEPT !.sub = x] \in GateStates
         /\ \A x \in Handlers \cup {None} : [r EXCEPT !.handler = x] \in GateStates
         /\ \A x \in SUBSET BOOLEAN : [r EXCEPT !.saw = x] \in GateStates
         /\ \A x \in Statuses \cup {None, 502} : [r EXCEPT !.status = x] \in GateStates
         /\ \A x \in BOOLEAN : [r EXCEPT !.faulty = x] \in GateStates
<1>1. \A x \in {"idle", "find", "write", "wait", "notify", "done"} :
        [r EXCEPT !.pc = x] \in GateStates
  BY DEF GateStates
<1>2. \A x \in RequestIds : [r EXCEPT !.request = x] \in GateStates
  BY DEF GateStates
<1>3. \A x \in Ids : [r EXCEPT !.cursor = x] \in GateStates
  BY DEF GateStates
<1>4. \A x \in Nat : [r EXCEPT !.page = x] \in GateStates
  BY DEF GateStates
<1>5. \A x \in Nat : [r EXCEPT !.tries = x] \in GateStates
  BY DEF GateStates
<1>6. \A x \in Topics : [r EXCEPT !.topic = x] \in GateStates
  BY DEF GateStates
<1>7. \A x \in Ids \cup {None} : [r EXCEPT !.sub = x] \in GateStates
  BY DEF GateStates
<1>8. \A x \in Handlers \cup {None} : [r EXCEPT !.handler = x] \in GateStates
  BY DEF GateStates
<1>9. \A x \in SUBSET BOOLEAN : [r EXCEPT !.saw = x] \in GateStates
  BY DEF GateStates
<1>10. \A x \in Statuses \cup {None, 502} : [r EXCEPT !.status = x] \in GateStates
  BY DEF GateStates
<1>11. \A x \in BOOLEAN : [r EXCEPT !.faulty = x] \in GateStates
  BY DEF GateStates
<1>. QED
  BY <1>1, <1>2, <1>3, <1>4, <1>5, <1>6, <1>7, <1>8, <1>9, <1>10, <1>11

LEMMA InboxAlone ==
  ASSUME GInv, UNCHANGED <<subsVars, sent, inbox>>
  PROVE  InboxInv'
<1>1. RowsStay /\ SentStays
  BY DEF subsVars, RowsStay, Stored, SentStays, Used
<1>. QED  BY <1>1, InboxStays

LEMMA FindTopicStep ==
  ASSUME GInv, Remember, NEW g \in Gateways, FindTopic(g)
  PROVE  GInv'
<1>1. PICK r : r = gates[g]
  OBVIOUS
<1>2. PICK a : a = sent[r.request]
  OBVIOUS
<1>3. /\ r \in GateStates /\ r.pc = "find" /\ GateOK(r, g) /\ OverOK(r, g)
      /\ r.request \in Used /\ Searching(r, a) /\ a = Ask(g)
  BY <1>1, <1>2 DEF GInv, GateTypes, GatesInv, OverInv, FindTopic, GateOK, Ask
<1>4. PICK page, next :
        /\ page = Lists!Page(Mine(a), r.cursor, PageSize)
        /\ next = Lists!NextCursor(Mine(a), r.cursor, PageSize)
  OBVIOUS
<1>5. PICK from : from = Lists!From(Mine(a), r.cursor)
  OBVIOUS
<1>6. r.cursor \in Ids \cup {None} /\ r.page \in Nat /\ Mine(a) \in SUBSET Ids
  BY <1>3 DEF GateStates, Mine, Stored
<1>7. /\ from \subseteq Mine(a) /\ page \subseteq from
      /\ page # from => Cardinality(page) >= PageSize
      /\ next = None => page = from
      /\ next # None =>
           /\ next \in page /\ Cardinality(page) >= PageSize
           /\ \A x \in page : ~(x < next)
           /\ \A y \in from \ page : y < next
  BY <1>4, <1>5, <1>6, PageFacts
<1>8. Working(g) = {}
  BY <1>3 DEF OverOK
<1>9. InboxInv' /\ inbox' = inbox /\ faults' \in Nat
  BY InboxAlone DEF FindTopic, GInv, GateTypes
<1>10. ASSUME NEW s \in GateStates, Pass(g, s), s.pc = "write", s.request = r.request,
              a.op = "unsubscribe" /\ s.topic = None /\ ~s.faulty => Overlooked(a)
       PROVE  GInv'
  <2>1. sent[s.request] = a /\ s.request \in Used
    BY <1>2, <1>3, <1>10
  <2>2. GateOK(s, g)
    BY <1>10, <2>1 DEF GateOK
  <2>3. OverOK(s, g)
    BY <1>8, <1>10 DEF OverOK
  <2>. QED  BY <1>9, <1>10, <2>2, <2>3, GateAlone DEF FindTopic
<1>11. CASE a.id \in page /\ Pass(g, [r EXCEPT !.pc = "write", !.topic = rows[a.id].topic])
  <2>1. PICK t : t = rows[a.id].topic
    OBVIOUS
  <2>2. t \in Topics /\ t # None
    <3>1. a.id \in Stored
      BY <1>7, <1>11 DEF Mine
    <3>2. rows[a.id] \in Rows
      BY <3>1 DEF Stored, GInv, HInv, IInv, StateOK
    <3>. QED  BY <2>1, <3>2, AbsentAssumption DEF Rows
  <2>3. PICK s : s = [r EXCEPT !.pc = "write", !.topic = t]
    OBVIOUS
  <2>4. s.pc = "write" /\ s.request = r.request /\ s.topic = t
    BY <1>3, <2>2, <2>3 DEF GateStates
  <2>6. s \in GateStates
    <3>1. PICK x : x = [r EXCEPT !.pc = "write"]
      OBVIOUS
    <3>2. x \in GateStates
      BY <1>3, <3>1, GateFields
    <3>3. s = [x EXCEPT !.topic = t]
      BY <2>3, <3>1
    <3>. QED  BY <2>2, <3>2, <3>3, GateFields
  <2>5. Pass(g, s)
    BY <1>11, <2>1, <2>3
  <2>. QED  BY <1>10, <2>2, <2>4, <2>5, <2>6
<1>12. CASE /\ a.id \notin page
            /\ next = None \/ r.page + 1 = MaxPages
            /\ Pass(g, [r EXCEPT !.pc = "write"])
  <2>1. PICK s : s = [r EXCEPT !.pc = "write"]
    OBVIOUS
  <2>2. s \in GateStates
    BY <1>3, <2>1, GateFields
  <2>5. s.pc = "write" /\ s.request = r.request
    BY <1>3, <2>1 DEF GateStates
  <2>3. Overlooked(a)
    <3>1. SUFFICES ASSUME a.id \in Mine(a)
                   PROVE  TooMany(a)
      BY DEF Overlooked
    <3>2. a.id \in from /\ page # from
      BY <1>3, <1>5, <1>12, <3>1 DEF Searching
    <3>3. r.page + 1 = MaxPages /\ Cardinality(page) >= PageSize
      BY <1>7, <1>12, <3>2
    <3>4. Cardinality(Mine(a)) >= Cardinality(Mine(a) \ from) + Cardinality(page) + 1
      <4>1. Cardinality(page \cup {a.id}) = Cardinality(page) + 1
        BY <1>6, <1>7, <1>12, CountOfIds, FS_AddElement
      <4>2. page \cup {a.id} \subseteq from
        BY <1>7, <3>2
      <4>3. /\ Cardinality(Mine(a)) \in Nat /\ Cardinality(Mine(a) \ from) \in Nat
            /\ Cardinality(page) \in Nat
        BY <1>6, <1>7, CountOfIds
      <4>4. Cardinality(Mine(a)) >= Cardinality(Mine(a) \ from) + Cardinality(page \cup {a.id})
        BY <1>6, <1>7, <4>2, PartsOfIds
      <4>. QED  BY <4>1, <4>3, <4>4
    <3>5. Cardinality(Mine(a) \ from) >= r.page * PageSize
      BY <1>3, <1>5 DEF Searching
    <3>6. r.page * PageSize + PageSize = PageSize * MaxPages
      BY <1>6, <3>3, GatewayAssumption
    <3>7. /\ Cardinality(Mine(a)) \in Nat /\ Cardinality(Mine(a) \ from) \in Nat
          /\ Cardinality(page) \in Nat /\ PageSize \in Nat /\ r.page * PageSize \in Nat
      BY <1>6, <1>7, CountOfIds, GatewayAssumption
    <3>8. PICK m, p, q, k : /\ m = Cardinality(Mine(a)) /\ p = Cardinality(Mine(a) \ from)
                            /\ q = Cardinality(page) /\ k = r.page * PageSize
      OBVIOUS
    <3>9. m > k + PageSize
      BY <3>3, <3>4, <3>5, <3>7, <3>8
    <3>. QED  BY <3>6, <3>8, <3>9 DEF TooMany
  <2>4. Pass(g, s)
    BY <1>12, <2>1
  <2>. QED  BY <1>10, <2>2, <2>3, <2>4, <2>5
<1>13. CASE /\ a.id \notin page
            /\ next # None /\ r.page + 1 < MaxPages
            /\ Pass(g, [r EXCEPT !.cursor = next, !.page = @ + 1, !.tries = 0])
  <2>1. PICK s : s = [r EXCEPT !.cursor = next, !.page = @ + 1, !.tries = 0]
    OBVIOUS
  <2>2. s \in GateStates
    <3>1. PICK x : x = [r EXCEPT !.cursor = next]
      OBVIOUS
    <3>2. PICK y : y = [x EXCEPT !.page = @ + 1]
      OBVIOUS
    <3>3. s = [y EXCEPT !.tries = 0]
      BY <2>1, <3>1, <3>2
    <3>4. x \in GateStates
      BY <1>3, <1>6, <1>7, <1>13, <3>1, GateFields
    <3>5. x.page + 1 \in Nat
      BY <3>4 DEF GateStates
    <3>6. y \in GateStates
      BY <3>2, <3>4, <3>5, GateFields
    <3>. QED  BY <3>3, <3>6, GateFields
  <2>3. /\ s.pc = "find" /\ s.request = r.request /\ s.cursor = next
        /\ s.page = r.page + 1
    BY <1>3, <2>1 DEF GateStates
  <2>4. Lists!From(Mine(a), next) = {x \in Mine(a) : x < next}
    BY <1>13 DEF Lists!From, Newest
  <2>5. Mine(a) \ from \subseteq Mine(a) \ Lists!From(Mine(a), next)
    <3>1. Lists!From(Mine(a), next) \subseteq from
      <4>1. ASSUME NEW x \in Mine(a), x < next
            PROVE  x \in from
        <5>1. next \in from /\ next \in Nat /\ x \in Nat
          BY <1>6, <1>7, <1>13, IdsAreFinite
        <5>2. CASE r.cursor = None
          BY <1>5, <5>2 DEF Lists!From
        <5>3. CASE r.cursor # None
          <6>1. r.cursor \in Nat /\ next < r.cursor
            BY <1>5, <1>6, <5>1, <5>3, IdsAreFinite DEF Lists!From, Newest
          <6>2. x < r.cursor
            BY <4>1, <5>1, <6>1
          <6>. QED  BY <1>5, <5>3, <6>2 DEF Lists!From, Newest
        <5>. QED  BY <5>2, <5>3
      <4>. QED  BY <2>4, <4>1
    <3>. QED  BY <3>1
  <2>6. page \subseteq Mine(a) \ Lists!From(Mine(a), next)
    BY <1>7, <1>13, <2>4
  <2>7. a.id \in Mine(a) => a.id \in Lists!From(Mine(a), next)
    BY <1>3, <1>5, <1>7, <1>13, <2>4 DEF Searching
  <2>8. Searching(s, a)
    <3>1. Cardinality(Mine(a) \ Lists!From(Mine(a), next))
            >= Cardinality(Mine(a) \ from) + Cardinality(page)
      <4>1. (Mine(a) \ from) \cap page = {} /\ Mine(a) \ Lists!From(Mine(a), next) \in SUBSET Ids
        BY <1>6, <1>7
      <4>. QED  BY <2>5, <2>6, <4>1, PartsOfIds
    <3>2. Cardinality(Mine(a) \ from) >= r.page * PageSize /\ Cardinality(page) >= PageSize
      BY <1>3, <1>5, <1>7, <1>13 DEF Searching
    <3>3. /\ Cardinality(Mine(a) \ Lists!From(Mine(a), next)) \in Nat
          /\ Cardinality(Mine(a) \ from) \in Nat
          /\ Cardinality(page) \in Nat /\ PageSize \in Nat /\ r.page * PageSize \in Nat
      BY <1>6, <1>7, CountOfIds, GatewayAssumption
    <3>4. (r.page + 1) * PageSize = r.page * PageSize + PageSize
      BY <1>6, GatewayAssumption
    <3>5. PICK m, p, q, k : /\ m = Cardinality(Mine(a) \ Lists!From(Mine(a), next))
                            /\ p = Cardinality(Mine(a) \ from)
                            /\ q = Cardinality(page) /\ k = r.page * PageSize
      OBVIOUS
    <3>6. m >= k + PageSize
      BY <3>1, <3>2, <3>3, <3>5
    <3>7. Cardinality(Mine(a) \ Lists!From(Mine(a), s.cursor)) >= s.page * PageSize
      BY <2>3, <3>4, <3>5, <3>6
    <3>. QED  BY <1>3, <1>13, <2>3, <2>7, <3>7 DEF Searching
  <2>9. GateOK(s, g) /\ OverOK(s, g)
    <3>1. s.pc = "find" /\ s.request = r.request /\ Working(g) = {}
      BY <1>8, <2>3
    <3>2. s.request \in Used /\ Searching(s, sent[s.request])
      BY <1>2, <1>3, <2>8, <3>1
    <3>3. GateOK(s, g)
      BY <3>1, <3>2 DEF GateOK
    <3>4. OverOK(s, g)
      BY <3>1 DEF OverOK
    <3>. QED  BY <3>3, <3>4
  <2>10. Pass(g, s)
    BY <1>13, <2>1
  <2>. QED  BY <1>9, <2>2, <2>9, <2>10, GateAlone DEF FindTopic
<1>. QED
  <2>1. \/ a.id \in page /\ Pass(g, [r EXCEPT !.pc = "write", !.topic = rows[a.id].topic])
        \/ /\ a.id \notin page
           /\ next = None \/ r.page + 1 = MaxPages
           /\ Pass(g, [r EXCEPT !.pc = "write"])
        \/ /\ a.id \notin page
           /\ next # None /\ r.page + 1 < MaxPages
           /\ Pass(g, [r EXCEPT !.cursor = next, !.page = @ + 1, !.tries = 0])
    BY <1>1, <1>3, <1>4 DEF FindTopic
  <2>. QED  BY <1>11, <1>12, <1>13, <2>1

\* The gateway's own answer.
LEMMA AbandonFields ==
  ASSUME GInv, NEW g \in Gateways, NEW status \in {500, 502}, Abandon(g, status)
  PROVE  \E s \in GateStates :
           /\ Pass(g, s)
           /\ s.pc = "done" /\ s.status = status /\ s.faulty
           /\ s.request = gates[g].request
<1>1. PICK r : r = gates[g]
  OBVIOUS
<1>2. r \in GateStates
  BY <1>1 DEF GInv, GateTypes
<1>3. PICK x : x = [r EXCEPT !.faulty = TRUE]
  OBVIOUS
<1>4. PICK y : y = [x EXCEPT !.pc = "done"]
  OBVIOUS
<1>5. PICK z : z = [y EXCEPT !.status = status]
  OBVIOUS
<1>6. PICK s : s = [z EXCEPT !.handler = None]
  OBVIOUS
<1>7. x \in GateStates /\ x = Faulty(g)
  <2>1. x = Faulty(g)
    BY <1>1, <1>3 DEF Faulty
  <2>2. x \in GateStates
    BY <1>2, <1>3, GateFields
  <2>. QED  BY <2>1, <2>2
<1>8. y \in GateStates
  BY <1>4, <1>7, GateFields
<1>9. status \in Statuses \cup {None, 502}
  BY DEF Statuses
<1>10. z \in GateStates
  BY <1>5, <1>8, <1>9, GateFields, Zenon
<1>11. s \in GateStates
  BY <1>6, <1>10, GateFields
<1>12. y.pc = "done" /\ y.request = r.request /\ y.faulty
  BY <1>2, <1>3, <1>4, <1>7 DEF GateStates
<1>13. s.pc = "done" /\ s.status = status /\ s.request = r.request /\ s.faulty
  BY <1>5, <1>6, <1>8, <1>10, <1>12 DEF GateStates
<1>14. Pass(g, s)
  BY <1>4, <1>5, <1>6, <1>7 DEF Abandon
<1>. QED  BY <1>1, <1>11, <1>13, <1>14

LEMMA FindFailsStep ==
  ASSUME GInv, Remember, NEW g \in Gateways, FindFails(g)
  PROVE  GInv'
<1>1. PICK r : r = gates[g]
  OBVIOUS
<1>2. /\ r \in GateStates /\ r.pc = "find" /\ GateOK(r, g) /\ r.request \in Used
      /\ Searching(r, sent[r.request]) /\ r.tries + 1 \in Nat
  BY <1>1 DEF GInv, GateTypes, GateStates, GatesInv, FindFails, GateOK
<1>3. Working(g) = {}
  BY <1>1, <1>2 DEF GInv, OverInv, OverOK
<1>4. InboxInv' /\ inbox' = inbox /\ faults' \in Nat
  BY InboxAlone DEF FindFails, Fault, GInv, GateTypes
<1>5. ASSUME NEW s \in GateStates, Pass(g, s), s.request = r.request,
             \/ s.pc = "find" /\ s.page = r.page /\ s.cursor = r.cursor
             \/ s.pc \in {"write", "done"} /\ s.faulty
      PROVE  GInv'
  <2>1. s.pc = "find" => Searching(s, sent[s.request])
    BY <1>2, <1>5 DEF Searching
  <2>2. GateOK(s, g)
    BY <1>2, <1>5, <2>1 DEF GateOK
  <2>3. OverOK(s, g)
    BY <1>3, <1>5 DEF OverOK
  <2>. QED  BY <1>4, <1>5, <2>2, <2>3, GateAlone DEF FindFails
<1>6. CASE Pass(g, [r EXCEPT !.tries = @ + 1])
  <2>1. PICK s : s = [r EXCEPT !.tries = @ + 1]
    OBVIOUS
  <2>2. s \in GateStates
    BY <1>2, <2>1, GateFields
  <2>3. /\ s.pc = "find" /\ s.request = r.request
        /\ s.page = r.page /\ s.cursor = r.cursor
    BY <1>2, <2>1 DEF GateStates
  <2>4. Pass(g, s)
    BY <1>6, <2>1
  <2>. QED  BY <1>5, <2>2, <2>3, <2>4
<1>7. PICK x : x = [r EXCEPT !.faulty = TRUE]
  OBVIOUS
<1>8. x \in GateStates /\ x = Faulty(g)
  BY <1>1, <1>2, <1>7, GateFields DEF Faulty
<1>9. x.request = r.request /\ x.faulty
  BY <1>2, <1>7 DEF GateStates
<1>10. CASE Pass(g, [x EXCEPT !.pc = "write"])
  <2>1. PICK s : s = [x EXCEPT !.pc = "write"]
    OBVIOUS
  <2>2. s \in GateStates
    BY <1>8, <2>1, GateFields
  <2>3. s.pc = "write" /\ s.request = r.request /\ s.faulty
    BY <1>8, <1>9, <2>1 DEF GateStates
  <2>4. Pass(g, s)
    BY <1>10, <2>1
  <2>. QED  BY <1>5, <2>2, <2>3, <2>4
<1>11. ASSUME NEW status \in {500, 502}, Abandon(g, status)
      PROVE  GInv'
  BY <1>1, <1>5, <1>11, AbandonFields
<1>. QED  BY <1>1, <1>6, <1>8, <1>10, <1>11 DEF FindFails

LEMMA GiveUpStep ==
  ASSUME GInv, Remember, NEW g \in Gateways, GiveUp(g)
  PROVE  GInv'
<1>1. PICK r : r = gates[g]
  OBVIOUS
<1>2. /\ r \in GateStates /\ r.pc \in {"write", "wait"} /\ r.request \in Used
      /\ \A h, i \in Working(g) : h = i
  <2>1. r \in GateStates /\ r.pc \in {"write", "wait"} /\ GateOK(r, g) /\ OverOK(r, g)
    BY <1>1 DEF GInv, GateTypes, GatesInv, OverInv, GiveUp
  <2>. QED  BY <2>1 DEF GateOK, OverOK
<1>3. PICK status \in {500, 502} : Abandon(g, status)
  BY DEF GiveUp
<1>4. PICK s \in GateStates :
        /\ Pass(g, s)
        /\ s.pc = "done" /\ s.status = status /\ s.faulty
        /\ s.request = r.request
  BY <1>1, <1>3, AbandonFields
<1>5. GateOK(s, g)
  BY <1>2, <1>4 DEF GateOK
<1>6. OverOK(s, g)
  BY <1>2, <1>3, <1>4 DEF OverOK
<1>7. InboxInv' /\ inbox' = inbox /\ faults' \in Nat
  BY InboxAlone DEF GiveUp, Fault, GInv, GateTypes
<1>. QED  BY <1>4, <1>5, <1>6, <1>7, GateAlone DEF GiveUp

\* The request to the subscriptions service goes to a handler that is free, and
\* that no other request waits for.
LEMMA GateWriteStep ==
  ASSUME GInv, Remember, NEW g \in Gateways, Write(g)
  PROVE  GInv'
<1>1. PICK r : r = gates[g]
  OBVIOUS
<1>2. PICK a : a = sent[r.request]
  OBVIOUS
<1>3. /\ r \in GateStates /\ r.pc = "write" /\ GateOK(r, g) /\ OverOK(r, g)
      /\ r.request \in Used /\ a = Ask(g)
  BY <1>1, <1>2 DEF GInv, GateTypes, GatesInv, OverInv, Write, GateOK, Ask
<1>4. a \in Asks
  BY <1>2, <1>3 DEF GInv, GateTypes, Used
<1>5. PICK h \in Handlers :
        /\ Receive(h, a)
        /\ \A f \in Gateways : gates[f].handler # h
        /\ Pass(g, [r EXCEPT !.pc = "wait", !.handler = h])
        /\ owner' = [owner EXCEPT ![h] = g]
  BY <1>1, <1>3 DEF Write
<1>6. HInv' /\ AnswersInv' /\ RowsStay
  BY <1>4, <1>5, ServiceKeeps DEF GInv, SubsNext
<1>7. sent' = sent /\ inbox' = inbox /\ faults' = faults
  BY DEF Write
<1>8. SentInv' /\ SentStays /\ InboxInv'
  BY <1>6, <1>7, SentInvStays, InboxStays
<1>9. /\ handlers'[h].pc = "look" /\ handlers'[h].ask = a
      /\ \A e \in Handlers \ {h} : handlers'[e] = handlers[e]
  <2>1. PICK s : s = [Free EXCEPT !.pc = "look", !.ask = a]
    OBVIOUS
  <2>2. s.pc = "look" /\ s.ask = a
    BY <2>1 DEF Free
  <2>3. handlers' = [handlers EXCEPT ![h] = s]
    BY <1>5, <2>1 DEF Receive, Become
  <2>. QED  BY <2>2, <2>3 DEF GInv, HInv, IInv, StateOK
<1>10. owner'[h] = g /\ \A e \in Handlers \ {h} : owner'[e] = owner[e]
  BY <1>5 DEF GInv, GateTypes
<1>11. Working(g) = {}
  BY <1>3 DEF OverOK
<1>12. Working(g)' \subseteq {h} /\ \A f \in Gateways \ {g} : Working(f)' \subseteq Working(f)
  BY <1>9, <1>10, <1>11 DEF Working, InFlight
<1>13. PICK x : x = [r EXCEPT !.pc = "wait"]
  OBVIOUS
<1>14. PICK s : s = [x EXCEPT !.handler = h]
  OBVIOUS
<1>15. x \in GateStates
  BY <1>3, <1>13, GateFields
<1>16. s \in GateStates
  BY <1>14, <1>15, GateFields
<1>17. x.pc = "wait" /\ x.request = r.request /\ x.topic = r.topic /\ x.faulty = r.faulty
  BY <1>3, <1>13 DEF GateStates
<1>18. /\ s.pc = "wait" /\ s.handler = h
       /\ s.request = r.request /\ s.topic = r.topic /\ s.faulty = r.faulty
  BY <1>14, <1>15, <1>17 DEF GateStates
<1>19. Pass(g, s)
  BY <1>5, <1>13, <1>14
<1>20. a.op = "unsubscribe" /\ s.topic = None /\ ~s.faulty => Overlooked(a)'
  <2>1. a.op = "unsubscribe" => a.id \in Stored
    BY <1>2, <1>3 DEF GInv, SentInv
  <2>2. a.op = "unsubscribe" /\ s.topic = None /\ ~s.faulty => Overlooked(a)
    BY <1>2, <1>3, <1>18 DEF GateOK
  <2>. QED  BY <1>6, <2>1, <2>2, OverlookedStays
<1>21. GateOK(s, g)'
  <2>1. s.request \in Used' /\ sent'[s.request] = a
    BY <1>2, <1>3, <1>8, <1>18 DEF SentStays
  <2>. QED  BY <1>9, <1>10, <1>18, <1>20, <2>1 DEF GateOK
<1>22. OverOK(s, g)'
  BY <1>12, <1>18 DEF OverOK
<1>23. ASSUME NEW f \in Gateways \ {g}, gates[f].pc = "wait"
       PROVE  LET i == gates[f].handler
              IN /\ owner'[i] = owner[i]
                 /\ handlers'[i].pc # "idle" /\ handlers'[i].ask = handlers[i].ask
  <2>1. gates[f].handler \in Handlers \ {h} /\ handlers[gates[f].handler].pc # "idle"
    BY <1>5, <1>23 DEF GInv, GatesInv, GateOK
  <2>. QED  BY <1>9, <1>10, <2>1
<1>24. owner' \in [Handlers -> Gateways \cup {None}]
  BY <1>5 DEF GInv, GateTypes
<1>25. faults' \in Nat /\ sent' \in [RequestIds -> Asks \cup {None}]
  BY <1>7 DEF GInv, GateTypes
<1>. QED
  BY <1>6, <1>7, <1>8, <1>12, <1>16, <1>19, <1>21, <1>22, <1>23, <1>24, <1>25, GateMoves

\* The answer is taken, and the handler is free again.
LEMMA CollectStep ==
  ASSUME GInv, Remember, NEW g \in Gateways, Collect(g)
  PROVE  GInv'
<1>1. PICK r : r = gates[g]
  OBVIOUS
<1>2. PICK a : a = sent[r.request]
  OBVIOUS
<1>3. PICK h : h = r.handler
  OBVIOUS
<1>4. PICK answer : answer = handlers[h]
  OBVIOUS
<1>5. /\ r \in GateStates /\ r.pc = "wait" /\ GateOK(r, g) /\ OverOK(r, g)
      /\ r.request \in Used /\ a = Ask(g)
  BY <1>1, <1>2 DEF GInv, GateTypes, GatesInv, OverInv, Collect, GateOK, Ask
<1>6. h \in Handlers /\ owner[h] = g /\ answer.ask = a /\ answer \in HandlerStates
  BY <1>2, <1>3, <1>4, <1>5 DEF GateOK, GInv, HInv, IInv, StateOK
<1>7. a \in Asks /\ a.op \in {"subscribe", "unsubscribe", "update"}
  <2>1. a \in Asks
    BY <1>2, <1>5 DEF GInv, GateTypes, Used
  <2>. QED  BY <2>1, AsksAssumption DEF Requests
<1>8. PICK pc : pc = IF Notable(g, answer) THEN "notify" ELSE "done"
  OBVIOUS
<1>9. PICK faulty : faulty = (r.faulty \/ answer.status = 500)
  OBVIOUS
<1>10. /\ answer.pc = "done"
       /\ Pass(g, [r EXCEPT !.pc = pc, !.sub = answer.id, !.saw = held[h], !.handler = None,
                            !.status = answer.status, !.faulty = faulty])
       /\ handlers' = [handlers EXCEPT ![h] = Free]
       /\ UNCHANGED <<topics, rows, sent, inbox, owner, faults>>
  <2>1. (r.faulty \/ handlers[h].status = 500) = faulty
    BY <1>4, <1>9
  <2>2. (IF Notable(g, handlers[h]) THEN "notify" ELSE "done") = pc
    BY <1>4, <1>8
  <2>. QED  BY <1>1, <1>3, <1>4, <2>1, <2>2 DEF Collect
<1>11. /\ handlers'[h] = Free /\ \A e \in Handlers \ {h} : handlers'[e] = handlers[e]
       /\ handlers' \in [Handlers -> HandlerStates]
  <2>1. Free \in HandlerStates
    BY DEF Free, HandlerStates, Pcs
  <2>. QED  BY <1>6, <1>10, <2>1 DEF GInv, HInv, IInv, StateOK
<1>12. HInv' /\ AnswersInv' /\ RowsStay
  BY <1>10, <1>11, RestKeeps DEF GInv
<1>13. SentInv' /\ SentStays /\ InboxInv'
  BY <1>10, <1>12, SentInvStays, InboxStays
<1>14. Working(g)' = {} /\ \A f \in Gateways \ {g} : Working(f)' \subseteq Working(f)
  <2>1. Working(g) = {}
    BY <1>3, <1>4, <1>5, <1>10 DEF OverOK, Working, InFlight
  <2>2. ~InFlight(h)'
    BY <1>11 DEF InFlight, Free
  <2>3. \A f : Working(f)' \subseteq Working(f)
    BY <1>10, <1>11, <2>2 DEF Working, InFlight
  <2>. QED  BY <2>1, <2>3
<1>15. PICK s1 : s1 = [r EXCEPT !.pc = pc]
  OBVIOUS
<1>16. PICK s2 : s2 = [s1 EXCEPT !.sub = answer.id]
  OBVIOUS
<1>17. PICK s3 : s3 = [s2 EXCEPT !.saw = held[h]]
  OBVIOUS
<1>18. PICK s4 : s4 = [s3 EXCEPT !.handler = None]
  OBVIOUS
<1>19. PICK s5 : s5 = [s4 EXCEPT !.status = answer.status]
  OBVIOUS
<1>20. PICK s : s = [s5 EXCEPT !.faulty = faulty]
  OBVIOUS
<1>21. s1 \in GateStates /\ s1.pc = pc /\ s1.request = r.request
  <2>1. s1 \in GateStates
    BY <1>5, <1>8, <1>15, GateFields
  <2>. QED  BY <1>5, <1>15, <2>1 DEF GateStates
<1>22. s2 \in GateStates /\ s2.pc = pc /\ s2.request = r.request /\ s2.sub = answer.id
  <2>1. answer.id \in Ids \cup {None}
    BY <1>6 DEF HandlerStates
  <2>2. s2 \in GateStates
    BY <1>16, <1>21, <2>1, GateFields
  <2>. QED  BY <1>16, <1>21, <2>2 DEF GateStates
<1>23. /\ s3 \in GateStates /\ s3.pc = pc /\ s3.request = r.request
       /\ s3.sub = answer.id /\ s3.saw = held[h]
  <2>1. held[h] \in SUBSET BOOLEAN
    BY <1>6 DEF GInv, HInv, HistoryOK
  <2>2. s3 \in GateStates
    BY <1>17, <1>22, <2>1, GateFields
  <2>. QED  BY <1>17, <1>22, <2>2 DEF GateStates
<1>24. /\ s4 \in GateStates /\ s4.pc = pc /\ s4.request = r.request
       /\ s4.sub = answer.id /\ s4.saw = held[h]
  <2>1. s4 \in GateStates
    BY <1>18, <1>23, GateFields
  <2>. QED  BY <1>18, <1>23, <2>1 DEF GateStates
<1>25. /\ s5 \in GateStates /\ s5.pc = pc /\ s5.request = r.request
       /\ s5.sub = answer.id /\ s5.saw = held[h] /\ s5.status = answer.status
  <2>1. answer.status \in Statuses \cup {None, 502}
    BY <1>6 DEF HandlerStates
  <2>2. s5 \in GateStates
    BY <1>19, <1>24, <2>1, GateFields, Zenon
  <2>. QED  BY <1>19, <1>24, <2>2 DEF GateStates
<1>26. /\ s.pc = pc /\ s.request = r.request /\ s.faulty = faulty
       /\ s.sub = answer.id /\ s.saw = held[h] /\ s.status = answer.status
  BY <1>20, <1>25 DEF GateStates
<1>27. s \in GateStates
  <2>1. faulty \in BOOLEAN
    BY <1>9
  <2>. QED  BY <1>20, <1>25, <2>1, GateFields, Zenon
<1>28. Pass(g, s)
  BY <1>10, <1>15, <1>16, <1>17, <1>18, <1>19, <1>20
<1>29. ASSUME answer.status \in Succeeded
       PROVE  /\ answer.id \in About(a)
              /\ a.op = "subscribe" => answer.status \in {200, 201}
              /\ a.op = "unsubscribe" => answer.status = 204
              /\ a.op # "update" => Wanted(a) \in held[h]
  <2>1. Answers(answer)
    BY <1>4, <1>6 DEF GInv, AnswersInv
  <2>2. a.op # "update" => Wanted(a) \in BOOLEAN /\ Wanted(a) # None
    BY <1>7, AbsentAssumption DEF Wanted
  <2>3. Wanted(a) # None => Wanted(a) \in held[h]
    BY <1>4, <1>6, <1>10, <1>29 DEF GInv, HInv, AnsweredTruly, Succeeded
  <2>. QED  BY <1>6, <1>10, <1>29, <2>1, <2>2, <2>3 DEF Answers
<1>30. Notable(g, answer) <=>
         \/ a.op = "subscribe" /\ answer.status \in {200, 201}
         \/ a.op = "unsubscribe" /\ answer.status = 204 /\ r.topic # None
  BY <1>1, <1>5 DEF Notable
<1>31. ASSUME pc = "notify"
       PROVE  Wanted(a) \in held[h] /\ answer.id \in About(a)
  BY <1>8, <1>29, <1>30, <1>31 DEF Succeeded
<1>32. ASSUME pc = "done", answer.status \in Succeeded, ~faulty, a.op # "update"
       PROVE  TooMany(a)
  <2>1. a.op = "unsubscribe" /\ r.topic = None
    BY <1>7, <1>8, <1>29, <1>30, <1>32
  <2>2. Overlooked(a)
    BY <1>2, <1>5, <1>9, <1>32, <2>1 DEF GateOK
  <2>3. a.id \in Mine(a)
    BY <1>29, <1>32, <2>1 DEF About, AboutIn, Mine, Stored
  <2>. QED  BY <2>2, <2>3 DEF Overlooked
<1>33. GateOK(s, g)'
  <2>1. s.request \in Used' /\ sent'[s.request] = a
    BY <1>2, <1>5, <1>13, <1>26 DEF SentStays
  <2>2. pc \in {"notify", "done"}
    BY <1>8
  <2>3. About(a)' = About(a) /\ TooMany(a)' = TooMany(a)
    BY <1>10 DEF About, AboutIn, TooMany, Mine, Stored
  <2>. QED  BY <1>26, <1>31, <1>32, <2>1, <2>2, <2>3 DEF GateOK
<1>34. OverOK(s, g)'
  BY <1>14 DEF OverOK
<1>35. ASSUME NEW f \in Gateways \ {g}, gates[f].pc = "wait"
       PROVE  LET i == gates[f].handler
              IN /\ owner'[i] = owner[i]
                 /\ handlers'[i].pc # "idle" /\ handlers'[i].ask = handlers[i].ask
  <2>1. /\ gates[f].handler \in Handlers /\ handlers[gates[f].handler].pc # "idle"
        /\ owner[gates[f].handler] = f
    BY <1>35 DEF GInv, GatesInv, GateOK
  <2>. QED  BY <1>6, <1>10, <1>11, <2>1
<1>36. /\ sent' \in [RequestIds -> Asks \cup {None}] /\ faults' \in Nat
       /\ owner' \in [Handlers -> Gateways \cup {None}] /\ inbox' = inbox
  BY <1>10 DEF GInv, GateTypes
<1>. QED
  BY <1>12, <1>13, <1>14, <1>27, <1>28, <1>33, <1>34, <1>35, <1>36, GateMoves

LEMMA NotifyStep ==
  ASSUME GInv, Remember, NEW g \in Gateways, Notify(g)
  PROVE  GInv'
<1>1. PICK r : r = gates[g]
  OBVIOUS
<1>2. PICK a : a = sent[r.request]
  OBVIOUS
<1>3. /\ r \in GateStates /\ r.pc = "notify" /\ r.request \in Used /\ a = Ask(g)
      /\ r.sub \in About(a) /\ Working(g) = {}
  <2>1. r \in GateStates /\ r.pc = "notify" /\ GateOK(r, g) /\ OverOK(r, g)
    BY <1>1 DEF GInv, GateTypes, GatesInv, OverInv, Notify
  <2>. QED  BY <1>1, <1>2, <2>1 DEF GateOK, OverOK, Ask
<1>4. Key(g) = <<a.op, r.sub, r.request>>
  BY <1>1, <1>3 DEF Key
<1>5. UNCHANGED subsVars /\ sent' = sent /\ owner' = owner /\ faults' \in Nat
  BY DEF Notify, Fault, GInv, GateTypes
<1>6. inbox \subseteq inbox'
      /\ \A n \in inbox' \ inbox : n = [key |-> Key(g), request |-> r.request]
  BY <1>1 DEF Notify
<1>7. InboxInv'
  <2>1. Used' = Used /\ \A b : About(b)' = About(b)
    BY <1>5 DEF subsVars, Used, About, AboutIn
  <2>2. ASSUME NEW n \in inbox'
        PROVE  /\ n.request \in Used
               /\ \E i \in About(sent[n.request]) :
                    n = [key |-> <<sent[n.request].op, i, n.request>>, request |-> n.request]
    <3>1. CASE n \in inbox
      BY <3>1 DEF GInv, InboxInv
    <3>2. CASE n \notin inbox
      <4>1. n = [key |-> <<a.op, r.sub, r.request>>, request |-> r.request]
        BY <1>4, <1>6, <3>2
      <4>2. n.request = r.request
        BY <4>1
      <4>. QED  BY <1>2, <1>3, <4>1, <4>2
    <3>. QED  BY <3>1, <3>2
  <2>. QED  BY <1>5, <2>1, <2>2 DEF InboxInv
<1>8. PICK x : x = [r EXCEPT !.faulty = TRUE]
  OBVIOUS
<1>9. x \in GateStates /\ x = Faulty(g)
  BY <1>1, <1>3, <1>8, GateFields DEF Faulty
<1>10. x.request = r.request /\ x.faulty
  BY <1>3, <1>8 DEF GateStates
<1>11. ASSUME NEW y \in GateStates, y.request = r.request, y.faulty \/ Noticed(r.request)',
              Pass(g, [y EXCEPT !.pc = "done"])
       PROVE  GInv'
  <2>1. PICK s : s = [y EXCEPT !.pc = "done"]
    OBVIOUS
  <2>2. s \in GateStates
    BY <1>11, <2>1, GateFields
  <2>3. s.pc = "done" /\ s.request = r.request /\ s.faulty = y.faulty
    BY <1>11, <2>1 DEF GateStates
  <2>4. GateOK(s, g) \/ Noticed(s.request)'
    <3>1. CASE Noticed(r.request)'
      BY <2>3, <3>1 DEF Noticed
    <3>2. CASE y.faulty
      BY <1>3, <2>3, <3>2 DEF GateOK
    <3>. QED  BY <1>11, <3>1, <3>2
  <2>5. OverOK(s, g)
    BY <1>3, <2>3 DEF OverOK
  <2>6. Pass(g, s)
    BY <1>11, <2>1
  <2>7. s.pc = "done" /\ s.request \in Used
    BY <1>3, <2>3
  <2>. QED  BY <1>5, <1>6, <1>7, <2>2, <2>4, <2>5, <2>6, <2>7, GateAlone
<1>12. CASE /\ \E n \in inbox' : n.key = Key(g)
            /\ Pass(g, [r EXCEPT !.pc = "done"])
  <2>1. PICK n \in inbox' : n.key = Key(g)
    BY <1>12
  <2>2. PICK i : n = [key |-> <<sent'[n.request].op, i, n.request>>, request |-> n.request]
    BY <1>7, <2>1 DEF InboxInv
  <2>3. n.key = <<sent'[n.request].op, i, n.request>>
    BY <2>2
  <2>4. n.request = r.request
    BY <1>4, <2>1, <2>3
  <2>5. Noticed(r.request)'
    BY <2>1, <2>4 DEF Noticed
  <2>. QED  BY <1>3, <1>11, <1>12, <2>5
<1>13. CASE Pass(g, [x EXCEPT !.pc = "done"])
  BY <1>9, <1>10, <1>11, <1>13
<1>. QED  BY <1>1, <1>9, <1>12, <1>13 DEF Notify

\* A request, sent for the first time or again, is begun.
Begin(a, q) == [NoGate EXCEPT !.pc = Start(a), !.request = q]

LEMMA Begun ==
  ASSUME NEW a \in Asks, NEW q \in RequestIds
  PROVE  LET s == Begin(a, q)
         IN /\ s \in GateStates /\ s.pc = Start(a) /\ s.request = q
            /\ s.pc = "find" => Searching(s, a)
            /\ s.pc = "write" => a.op # "unsubscribe"
<1>. PICK s : s = Begin(a, q)
  OBVIOUS
<1>1. NoGate \in GateStates /\ NoGate.cursor = None /\ NoGate.page = 0
  BY DEF NoGate, GateStates
<1>2. Start(a) \in {"find", "write"} /\ (Start(a) = "find" <=> a.op = "unsubscribe")
  BY DEF Start
<1>3. PICK x : x = [NoGate EXCEPT !.pc = Start(a)]
  OBVIOUS
<1>4. x \in GateStates
  BY <1>1, <1>2, <1>3, GateFields
<1>5. s = [x EXCEPT !.request = q]
  BY <1>3 DEF Begin
<1>6. s \in GateStates
  <2>1. q \in RequestIds
    OBVIOUS
  <2>2. \A y \in RequestIds : [x EXCEPT !.request = y] \in GateStates
    BY <1>4, GateFields
  <2>. QED  BY <1>5, <2>1, <2>2
<1>7. x.pc = Start(a) /\ x.cursor = None /\ x.page = 0
  BY <1>1, <1>3 DEF GateStates
<1>8. s.pc = Start(a) /\ s.request = q /\ s.cursor = None /\ s.page = 0
  BY <1>4, <1>5, <1>7 DEF GateStates
<1>9. s.pc = "find" => Searching(s, a)
  <2>1. Lists!From(Mine(a), None) = Mine(a)
    BY DEF Lists!From
  <2>2. Mine(a) \ Mine(a) = {} /\ Cardinality({}) = 0
    BY FS_EmptySet
  <2>3. 0 * PageSize = 0 /\ 0 < MaxPages
    BY GatewayAssumption
  <2>. QED  BY <1>2, <1>8, <2>1, <2>2, <2>3 DEF Searching
<1>. QED  BY <1>2, <1>6, <1>8, <1>9

\* The rows stay, and what a request is about is the same.
LEMMA SameSearch ==
  ASSUME UNCHANGED subsVars, NEW s, NEW a
  PROVE  Searching(s, a) => Searching(s, a)'
BY DEF subsVars, Searching, Mine, Stored

LEMMA NoneIsFree == NoGate \in GateStates /\ NoGate.pc = "idle"
BY DEF NoGate, GateStates

LEMMA RespondStep ==
  ASSUME GInv, Remember, NEW g \in Gateways, Respond(g)
  PROVE  GInv'
<1>1. PICK r : r = gates[g]
  OBVIOUS
<1>2. PICK a : a = sent[r.request]
  OBVIOUS
<1>3. r \in GateStates /\ r.request \in Used /\ a = Ask(g)
  <2>1. r \in GateStates /\ r.pc = "done" /\ GateOK(r, g)
    BY <1>1 DEF GInv, GateTypes, GatesInv, Respond
  <2>. QED  BY <1>1, <1>2, <2>1 DEF GateOK, Ask
<1>4. a \in Asks
  BY <1>2, <1>3 DEF GInv, GateTypes, Used
<1>5. /\ UNCHANGED subsVars /\ sent' = sent /\ inbox' = inbox /\ faults' \in Nat
      /\ owner' = [h \in Handlers |-> IF owner[h] = g THEN None ELSE owner[h]]
  BY DEF Respond, Fault, GInv, GateTypes
<1>6. HInv' /\ AnswersInv' /\ RowsStay /\ handlers' = handlers
  BY <1>5, RestKeeps DEF subsVars, GInv, HInv, IInv, StateOK
<1>7. SentInv' /\ SentStays /\ InboxInv'
  BY <1>5, <1>6, SentInvStays, InboxAlone
<1>8. owner' \in [Handlers -> Gateways \cup {None}]
  BY <1>5 DEF GInv, GateTypes
<1>9. g # None
  BY GatewayNoneAssumption
<1>10. Working(g)' = {} /\ \A f \in Gateways \ {g} : Working(f)' \subseteq Working(f)
  BY <1>5, <1>6, <1>9, GatewayNoneAssumption DEF Working, InFlight
<1>11. ASSUME NEW f \in Gateways \ {g}, gates[f].pc = "wait"
       PROVE  LET i == gates[f].handler
              IN /\ owner'[i] = owner[i]
                 /\ handlers'[i].pc # "idle" /\ handlers'[i].ask = handlers[i].ask
  <2>1. /\ gates[f].handler \in Handlers /\ handlers[gates[f].handler].pc # "idle"
        /\ owner[gates[f].handler] = f
    BY <1>11 DEF GInv, GatesInv, GateOK
  <2>. QED  BY <1>5, <1>6, <2>1
<1>12. ASSUME NEW s \in GateStates, Pass(g, s), GateOK(s, g)'
       PROVE  GInv'
  <2>1. OverOK(s, g)'
    BY <1>10 DEF OverOK
  <2>2. sent' \in [RequestIds -> Asks \cup {None}]
    BY <1>5 DEF GInv, GateTypes
  <2>. QED  BY <1>5, <1>6, <1>7, <1>8, <1>10, <1>11, <1>12, <2>1, <2>2, GateMoves
<1>13. CASE Pass(g, NoGate)
  <2>1. GateOK(NoGate, g)'
    BY NoneIsFree DEF GateOK
  <2>. QED  BY <1>12, <1>13, <2>1, NoneIsFree
<1>14. CASE Pass(g, [NoGate EXCEPT !.pc = Start(a), !.request = r.request])
  <2>1. PICK s : s = Begin(a, r.request)
    OBVIOUS
  <2>2. /\ s \in GateStates /\ s.pc = Start(a) /\ s.request = r.request
        /\ s.pc = "find" => Searching(s, a)
        /\ s.pc = "write" => a.op # "unsubscribe"
    BY <1>3, <1>4, <2>1, Begun DEF Used
  <2>3. GateOK(s, g)'
    <3>1. s.request \in Used' /\ sent'[s.request] = a
      BY <1>2, <1>3, <1>7, <2>2 DEF SentStays
    <3>2. s.pc = "find" => Searching(s, a)'
      BY <1>5, <2>2, SameSearch
    <3>3. s.pc \in {"find", "write"}
      BY <2>2 DEF Start
    <3>. QED  BY <2>2, <3>1, <3>2, <3>3 DEF GateOK
  <2>4. Pass(g, s)
    BY <1>14, <2>1 DEF Begin
  <2>. QED  BY <1>12, <2>2, <2>3, <2>4
<1>. QED  BY <1>1, <1>3, <1>13, <1>14 DEF Respond

\* The next X-Request-Id is taken.
LEMMA NextRequest ==
  ASSUME GInv, NEW a \in Asks, NEW q \in RequestIds, q = Cardinality(Used) + 1,
         a.op = "subscribe" \/ a.id \in Stored, UNCHANGED subsVars,
         sent' = [sent EXCEPT ![q] = a]
  PROVE  /\ q \notin Used /\ Used' = Used \cup {q} /\ sent'[q] = a
         /\ SentInv' /\ SentStays
         /\ sent' \in [RequestIds -> Asks \cup {None}]
<1>1. IsFiniteSet(Used) /\ Cardinality(Used) \in Nat
  <2>1. IsFiniteSet(RequestIds)
    BY GatewayAssumption, FS_Interval DEF RequestIds
  <2>. QED  BY <2>1, FS_Subset, FS_CardinalityType DEF Used
<1>2. RequestIds \subseteq Nat
  BY GatewayAssumption DEF RequestIds
<1>3. q \notin Used
  <2>1. ~(q <= Cardinality(Used))
    BY <1>1
  <2>. QED  BY <2>1 DEF GInv, SentInv
<1>4. a # None
  BY GatewayNoneAssumption
<1>5. /\ sent' \in [RequestIds -> Asks \cup {None}]
      /\ sent'[q] = a /\ \A r \in RequestIds \ {q} : sent'[r] = sent[r]
  BY DEF GInv, GateTypes
<1>6. Used' = Used \cup {q}
  BY <1>3, <1>4, <1>5 DEF Used
<1>7. Cardinality(Used') = Cardinality(Used) + 1
  BY <1>1, <1>3, <1>6, FS_AddElement
<1>8. SentStays
  BY <1>3, <1>5, <1>6 DEF SentStays, Used
<1>9. \A r \in RequestIds : r \in Used' <=> r <= Cardinality(Used')
  <2>1. ASSUME NEW r \in RequestIds
        PROVE  r \in Used' <=> r <= Cardinality(Used')
    <3>1. r \in Used <=> r <= Cardinality(Used)
      BY DEF GInv, SentInv
    <3>2. r <= Cardinality(Used) + 1 <=> (r <= Cardinality(Used) \/ r = q)
      BY <1>1, <1>2
    <3>. QED  BY <1>6, <1>7, <3>1, <3>2
  <2>. QED  BY <2>1
<1>10. ASSUME NEW r \in Used', sent'[r].op # "subscribe"
       PROVE  sent'[r].id \in Stored'
  <2>1. Stored' = Stored
    BY DEF subsVars, Stored
  <2>2. CASE r = q
    BY <1>5, <1>10, <2>1, <2>2
  <2>3. CASE r # q
    BY <1>5, <1>6, <1>10, <2>1, <2>3 DEF GInv, SentInv, Used
  <2>. QED  BY <2>2, <2>3
<1>11. SentInv'
  BY <1>9, <1>10 DEF SentInv
<1>. QED  BY <1>3, <1>5, <1>6, <1>8, <1>11

LEMMA RequestStep ==
  ASSUME GInv, Remember, NEW g \in Gateways, NEW a \in Asks, NEW q \in RequestIds,
         Request(g, a, q)
  PROVE  GInv'
<1>1. /\ UNCHANGED subsVars /\ inbox' = inbox /\ owner' = owner /\ faults' = faults
      /\ gates[g].pc = "idle" /\ sent' = [sent EXCEPT ![q] = a]
      /\ Pass(g, [NoGate EXCEPT !.pc = Start(a), !.request = q])
  BY DEF Request
<1>2. /\ Used' = Used \cup {q} /\ sent'[q] = a /\ SentInv' /\ SentStays
      /\ sent' \in [RequestIds -> Asks \cup {None}]
  BY NextRequest DEF Request
<1>3. HInv' /\ AnswersInv' /\ RowsStay /\ handlers' = handlers
  BY <1>1, RestKeeps DEF subsVars, GInv, HInv, IInv, StateOK
<1>4. InboxInv'
  BY <1>1, <1>2, <1>3, InboxStays
<1>5. \A f : Working(f)' = Working(f)
  BY <1>1, <1>3 DEF Working, InFlight
<1>6. Working(g) = {}
  BY <1>1 DEF GInv, OverInv, OverOK
<1>7. PICK s : s = Begin(a, q)
  OBVIOUS
<1>8. /\ s \in GateStates /\ s.pc = Start(a) /\ s.request = q
      /\ s.pc = "find" => Searching(s, a)
      /\ s.pc = "write" => a.op # "unsubscribe"
  BY <1>7, Begun
<1>9. GateOK(s, g)'
  <2>1. s.request \in Used' /\ sent'[s.request] = a
    BY <1>2, <1>8
  <2>2. s.pc = "find" => Searching(s, a)'
    BY <1>1, <1>8, SameSearch
  <2>3. s.pc \in {"find", "write"}
    BY <1>8 DEF Start
  <2>. QED  BY <1>8, <2>1, <2>2, <2>3 DEF GateOK
<1>10. OverOK(s, g)'
  BY <1>5, <1>6 DEF OverOK
<1>11. ASSUME NEW f \in Gateways \ {g}, gates[f].pc = "wait"
       PROVE  handlers[gates[f].handler].pc # "idle"
  BY <1>11 DEF GInv, GatesInv, GateOK
<1>12. owner' \in [Handlers -> Gateways \cup {None}] /\ faults' \in Nat
  BY <1>1 DEF GInv, GateTypes
<1>13. Pass(g, s)
  BY <1>1, <1>7 DEF Begin
<1>. QED
  BY <1>1, <1>2, <1>3, <1>4, <1>5, <1>8, <1>9, <1>10, <1>11, <1>12, <1>13, GateMoves

-----------------------------------------------------------------------------
(* The steps of the service, and none.                                     *)

LEMMA GatesRest ==
  ASSUME GInv, HInv', AnswersInv', RowsStay,
         UNCHANGED <<gates, sent, inbox, owner, faults>>,
         \A h \in Handlers :
           /\ handlers[h].pc # "idle" =>
                handlers'[h].pc # "idle" /\ handlers'[h].ask = handlers[h].ask
           /\ InFlight(h)' => InFlight(h)
  PROVE  GInv'
<1>1. SentInv' /\ SentStays /\ InboxInv'
  BY SentInvStays, InboxStays
<1>2. GateTypes'
  BY DEF GInv, GateTypes
<1>3. ASSUME NEW g \in Gateways
      PROVE  GateOK(gates[g], g)' /\ OverOK(gates[g], g)'
  <2>1. Working(g)' \subseteq Working(g)
    BY DEF Working
  <2>2. gates[g].pc = "wait" =>
          gates[g].handler \in Handlers /\ handlers[gates[g].handler].pc # "idle"
    BY DEF GInv, GatesInv, GateOK
  <2>. QED  BY <1>1, <2>1, <2>2, GateStays, OverStays DEF GInv
<1>. QED  BY <1>1, <1>2, <1>3 DEF GInv, GatesInv, OverInv

LEMMA GatewayServiceStep ==
  ASSUME GInv, Remember, ServiceNext, UNCHANGED <<gates, sent, inbox, owner, faults>>
  PROVE  GInv'
<1>1. HInv' /\ AnswersInv' /\ RowsStay
  BY ServiceKeeps DEF GInv, SubsNext
<1>2. ASSUME NEW h \in Handlers, NEW e \in Handlers, HandlerStep(e) \/ Fail(e)
      PROVE  /\ handlers[h].pc # "idle" =>
                  handlers'[h].pc # "idle" /\ handlers'[h].ask = handlers[h].ask
             /\ InFlight(h)' => InFlight(h)
  BY <1>2, OneHandlerSteps DEF GInv, HInv, InFlight
<1>3. ASSUME NEW t \in Topics, CreateTopic(t)
      PROVE  handlers' = handlers
  BY <1>3 DEF CreateTopic
<1>4. \A h \in Handlers :
        /\ handlers[h].pc # "idle" =>
             handlers'[h].pc # "idle" /\ handlers'[h].ask = handlers[h].ask
        /\ InFlight(h)' => InFlight(h)
  BY <1>2, <1>3 DEF ServiceNext, InFlight
<1>. QED  BY <1>1, <1>4, GatesRest

LEMMA GatewayStutters ==
  ASSUME GInv, UNCHANGED gatewayVars
  PROVE  GInv'
<1>1. HInv'
  BY HistoryInductive DEF GInv, gatewayVars
<1>2. /\ rows' = rows /\ handlers' = handlers
      /\ UNCHANGED <<gates, sent, inbox, owner, faults>>
  BY DEF gatewayVars, vars, subsVars
<1>3. AnswersInv' /\ RowsStay
  BY <1>2 DEF GInv, AnswersInv, Answers, About, AboutIn, RowsStay, Stored
<1>. QED  BY <1>1, <1>2, <1>3, GatesRest DEF InFlight

LEMMA GatewayBegins == GatewayInit => GInv
<1> SUFFICES ASSUME GatewayInit PROVE GInv
  OBVIOUS
<1>1. HInv
  BY HistoryInitially DEF GatewayInit
<1>2. /\ \A h \in Handlers : handlers[h] = Free /\ owner[h] = None
      /\ \A g \in Gateways : gates[g] = NoGate
      /\ \A r \in RequestIds : sent[r] = None
      /\ inbox = {}
  BY DEF GatewayInit, Init, SubsInit
<1>3. AnswersInv
  BY <1>2 DEF AnswersInv, Answers, Free
<1>4. GateTypes
  BY NoneIsFree DEF GatewayInit, GateTypes
<1>5. Used = {} /\ Cardinality(Used) = 0
  BY <1>2, FS_EmptySet DEF Used
<1>6. SentInv
  <2>1. \A r \in RequestIds : ~(r <= 0)
    BY GatewayAssumption DEF RequestIds
  <2>. QED  BY <1>5, <2>1 DEF SentInv
<1>7. GatesInv
  BY <1>2, NoneIsFree DEF GatesInv, GateOK
<1>8. OverInv
  <2>1. \A g : Working(g) = {}
    BY <1>2 DEF Working, InFlight, Free
  <2>. QED  BY <2>1 DEF OverInv, OverOK
<1>9. InboxInv
  BY <1>2 DEF InboxInv
<1>. QED  BY <1>1, <1>3, <1>4, <1>6, <1>7, <1>8, <1>9 DEF GInv

LEMMA GatewayInductive == GInv /\ [GatewayNext]_gatewayVars => GInv'
<1>1. ASSUME GInv, Remember, NEW g \in Gateways, GatewayStep(g)
      PROVE  GInv'
  BY <1>1, FindTopicStep, FindFailsStep, GateWriteStep, CollectStep, GiveUpStep,
     NotifyStep, RespondStep, RequestStep DEF GatewayStep
<1>. QED  BY <1>1, GatewayServiceStep, GatewayStutters DEF GatewayNext

LEMMA GatewayInvariance == GatewaySpec => []GInv
BY GatewayBegins, GatewayInductive, PTL DEF GatewaySpec

-----------------------------------------------------------------------------
(* The theorems.                                                           *)

\* A notification of a subscription switched on or off is made only if it was
\* so at some moment while the service worked on the request.
THEOREM NoticesTrueHolds == GatewaySpec => []NoticesTrue
<1>1. GInv => NoticesTrue
  BY DEF GInv, GatesInv, GateOK, NoticesTrue, Ask
<1>. QED  BY <1>1, GatewayInvariance, PTL

\* A request repeated under its id is told of once, whatever handlers, repeats
\* and other requests it ran beside.
THEOREM NoticedOnceHolds == GatewaySpec => []NoticedOnce
<1>1. ASSUME GInv, NEW m \in inbox, NEW n \in inbox, m.request = n.request
      PROVE  m = n
  <2>1. PICK q : q = m.request
    OBVIOUS
  <2>2. PICK i \in About(sent[q]) : m = [key |-> <<sent[q].op, i, q>>, request |-> q]
    BY <1>1, <2>1 DEF GInv, InboxInv
  <2>3. PICK j \in About(sent[q]) : n = [key |-> <<sent[q].op, j, q>>, request |-> q]
    BY <1>1, <2>1 DEF GInv, InboxInv
  <2>4. i = j
    BY <1>1, AboutOne DEF GInv, HInv
  <2>. QED  BY <2>2, <2>3, <2>4
<1>2. GInv => NoticedOnce
  BY <1>1 DEF NoticedOnce
<1>. QED  BY <1>2, GatewayInvariance, PTL

\* What succeeded without a fault is told of, if the user's subscriptions fit
\* on the pages the gateway reads.
THEOREM NoticedUnlessFaultyHolds == GatewaySpec => []NoticedUnlessFaulty
<1>1. ASSUME GInv, NEW g \in Gateways,
             gates[g].pc = "done", gates[g].status \in Succeeded, ~gates[g].faulty,
             Ask(g).op # "update", Cardinality(Mine(Ask(g))) <= PageSize * MaxPages
      PROVE  \E n \in inbox : n.request = gates[g].request
  <2>1. Noticed(gates[g].request) \/ TooMany(Ask(g))
    BY <1>1 DEF GInv, GatesInv, GateOK, Ask
  <2>2. ~TooMany(Ask(g))
    <3>1. Mine(Ask(g)) \in SUBSET Ids
      BY DEF Mine, Stored
    <3>2. Cardinality(Mine(Ask(g))) \in Nat /\ PageSize * MaxPages \in Nat
      BY <3>1, CountOfIds, GatewayAssumption
    <3>. QED  BY <1>1, <3>2 DEF TooMany
  <2>. QED  BY <2>1, <2>2 DEF Noticed
<1>2. GInv => NoticedUnlessFaulty
  BY <1>1 DEF NoticedUnlessFaulty, Succeeded
<1>. QED  BY <1>2, GatewayInvariance, PTL

\* Once the gateway answers, no handler is at work on the request, and after a
\* 500 or 502 at most one, for no write is sent again.
THEOREM AnsweredIsOverHolds == GatewaySpec => []AnsweredIsOver
<1>1. ASSUME GInv, NEW g \in Gateways, gates[g].pc = "done"
      PROVE  Cardinality(Working(g)) <= (IF gates[g].status \in {500, 502} THEN 1 ELSE 0)
  <2>1. OverOK(gates[g], g) /\ Cardinality({}) = 0
    BY <1>1, FS_EmptySet DEF GInv, OverInv
  <2>2. CASE Working(g) = {}
    BY <2>1, <2>2
  <2>3. CASE Working(g) # {}
    <3>1. gates[g].status \in {500, 502} /\ \A h, i \in Working(g) : h = i
      BY <1>1, <2>1, <2>3 DEF OverOK
    <3>2. PICK h : h \in Working(g)
      BY <2>3
    <3>3. Working(g) = {h}
      BY <3>1, <3>2
    <3>4. Cardinality(Working(g)) = 1
      BY <3>3, FS_Singleton
    <3>. QED  BY <3>1, <3>4
  <2>. QED  BY <2>2, <2>3
<1>2. GInv => AnsweredIsOver
  BY <1>1 DEF AnsweredIsOver, Working
<1>. QED  BY <1>2, GatewayInvariance, PTL

===============================================================================

------------------------------- MODULE Gateway -------------------------------
(***************************************************************************)
(* The gateway (bff) between a user's clients and two services: it sends   *)
(* POST, DELETE and PATCH /subscriptions on to the subscriptions service,  *)
(* and after a success of the first two makes a notification of it. The    *)
(* handlers of the subscriptions service are those of Subscriptions; of    *)
(* the notifications service only the idempotent creation is here. When    *)
(* the gateway stops waiting for a handler, the handler goes on. Requests  *)
(* its rate limiter refuses go no further, and are left out.               *)
(***************************************************************************)
EXTENDS Subscriptions

CONSTANTS Gateways,        \* requests the gateway works on at the same time
          MaxRequests,     \* bound on the requests with different X-Request-Ids
          MaxFaults,       \* bound on requests or answers lost, and errors
          PageSize, MaxPages, \* of the search for a subscription: 500, 20
          Retries          \* http_retries_get

ASSUME GatewayAssumption ==
    /\ {PageSize, MaxPages} \subseteq Nat \ {0}
    /\ {MaxRequests, MaxFaults, Retries} \subseteq Nat

ASSUME GatewayNoneAssumption == None \notin Gateways /\ None \notin Asks

VARIABLES gates,     \* what the gateway does for each request
          sent,      \* the request of each X-Request-Id
          inbox,     \* the notifications made
          owner,     \* history: the request a handler was started for
          faults

gatewayVars == <<vars, gates, sent, inbox, owner, faults>>

RequestIds == 1..MaxRequests
Used == {r \in RequestIds : sent[r] # None}

\* "saw" are the values is_active had while the service worked on the request,
\* "faulty" says that a step of it failed.
NoGate == [pc |-> "idle", request |-> None, cursor |-> None, page |-> 0, tries |-> 0,
           topic |-> None, sub |-> None, handler |-> None, saw |-> {},
           status |-> None, faulty |-> FALSE]

Pass(g, state) == gates' = [gates EXCEPT ![g] = state]
Ask(g) == sent[gates[g].request]

\* What goes wrong on the way of a request.
Fault == faults < MaxFaults /\ faults' = faults + 1
Faulty(g) == [gates[g] EXCEPT !.faulty = TRUE]

\* The gateway answers by itself: 502 for what send_with_retries gives up, 500
\* for an error of httpx it does not catch. Who asked cannot tell this 500 from
\* one of the subscriptions service.
Abandon(g, status) ==
    Pass(g, [Faulty(g) EXCEPT !.pc = "done", !.status = status, !.handler = None])

Start(a) == IF a.op = "unsubscribe" THEN "find" ELSE "write"

\* A client sends a request with an id of its own. The ids of subscriptions are
\* random: nobody asks for one that is not there yet.
Request(g, a, r) ==
    /\ gates[g].pc = "idle"
    /\ r = Cardinality(Used) + 1
    /\ a.op = "subscribe" \/ a.id \in Stored
    /\ sent' = [sent EXCEPT ![r] = a]
    /\ Pass(g, [NoGate EXCEPT !.pc = Start(a), !.request = r])
    /\ UNCHANGED <<subsVars, inbox, owner, faults>>

-----------------------------------------------------------------------------
(* The search for the topic of a subscription                              *)

\* ORDER BY created_at DESC, id DESC.
Newest(x, y) == y < x
Lists == INSTANCE Keyset WITH Before <- Newest

Mine(a) == {i \in Stored : rows[i].user = a.user}

\* GET /subscriptions/me. A subscription that is not found leaves the topic open.
FindTopic(g) ==
    /\ gates[g].pc = "find"
    /\ LET page == Lists!Page(Mine(Ask(g)), gates[g].cursor, PageSize)
           next == Lists!NextCursor(Mine(Ask(g)), gates[g].cursor, PageSize)
       IN \/ /\ Ask(g).id \in page
             /\ Pass(g, [gates[g] EXCEPT !.pc = "write", !.topic = rows[Ask(g).id].topic])
          \/ /\ Ask(g).id \notin page
             /\ next = None \/ gates[g].page + 1 = MaxPages
             /\ Pass(g, [gates[g] EXCEPT !.pc = "write"])
          \/ /\ Ask(g).id \notin page
             /\ next # None /\ gates[g].page + 1 < MaxPages
             /\ Pass(g, [gates[g] EXCEPT !.cursor = next, !.page = @ + 1, !.tries = 0])
    /\ UNCHANGED <<subsVars, sent, inbox, owner, faults>>

\* A GET that is not answered is sent again; at last, or after an error that is
\* not caught, the whole request is over. Another status than 200 ends the search
\* only.
FindFails(g) ==
    /\ gates[g].pc = "find"
    /\ Fault
    /\ \/ gates[g].tries < Retries /\ Pass(g, [gates[g] EXCEPT !.tries = @ + 1])
       \/ gates[g].tries = Retries /\ Abandon(g, 502)
       \/ Abandon(g, 500)
       \/ Pass(g, [Faulty(g) EXCEPT !.pc = "write"])
    /\ UNCHANGED <<subsVars, sent, inbox, owner>>

-----------------------------------------------------------------------------
(* The request to the subscriptions service                                *)

Write(g) ==
    /\ gates[g].pc = "write"
    /\ \E h \in Handlers :
         /\ Receive(h, Ask(g))
         /\ \A f \in Gateways : gates[f].handler # h
         /\ Pass(g, [gates[g] EXCEPT !.pc = "wait", !.handler = h])
         /\ owner' = [owner EXCEPT ![h] = g]
    /\ UNCHANGED <<sent, inbox, faults>>

\* Mutant of Notable: what the user asked for is told whatever came of it.
NotableAlways(g, answer) == Ask(g).op # "update"
\* A notification follows a success of which the topic is known.
Notable(g, answer) ==
    \/ Ask(g).op = "subscribe" /\ answer.status \in {200, 201}
    \/ Ask(g).op = "unsubscribe" /\ answer.status = 204 /\ gates[g].topic # None

Collect(g) ==
    /\ gates[g].pc = "wait"
    /\ LET h == gates[g].handler
           answer == handlers[h]
       IN /\ answer.pc = "done"
          /\ Pass(g, [gates[g] EXCEPT
                        !.pc = IF Notable(g, answer) THEN "notify" ELSE "done",
                        !.sub = answer.id, !.saw = held[h], !.handler = None,
                        !.status = answer.status,
                        !.faulty = @ \/ answer.status = 500])
          /\ handlers' = [handlers EXCEPT ![h] = Free]
    /\ UNCHANGED <<topics, rows, sent, inbox, owner, faults>>

\* Mutant of GiveUp: a write that is not answered is sent again.
WriteAgain(g) ==
    /\ gates[g].pc = "wait"
    /\ Fault
    /\ Pass(g, [gates[g] EXCEPT !.pc = "write", !.handler = None])
    /\ UNCHANGED <<subsVars, sent, inbox, owner>>
\* The service is not reached, or does not answer in time, or the connection
\* breaks: an error without another try, while the handler goes on.
GiveUp(g) ==
    /\ gates[g].pc \in {"write", "wait"}
    /\ Fault
    /\ \E status \in {500, 502} : Abandon(g, status)
    /\ UNCHANGED <<subsVars, sent, inbox, owner>>

-----------------------------------------------------------------------------
(* The notification                                                        *)

\* Mutants of Key: the request is no part of it; what came of the request is.
KeyOfEvent(g) == <<Ask(g).op, gates[g].sub>>
KeyOfOutcome(g) == <<Ask(g).op, gates[g].sub, gates[g].request, gates[g].status>>
Key(g) == <<Ask(g).op, gates[g].sub, gates[g].request>>

\* POST /notifications makes one for a new key. Its failure is not told to the
\* client: made or not, answered or not.
Notify(g) ==
    /\ gates[g].pc = "notify"
    /\ \/ UNCHANGED inbox
       \/ /\ \A n \in inbox : n.key # Key(g)
          /\ inbox' = inbox \cup {[key |-> Key(g), request |-> gates[g].request]}
    /\ \/ /\ \E n \in inbox' : n.key = Key(g)
          /\ Pass(g, [gates[g] EXCEPT !.pc = "done"])
          /\ UNCHANGED faults
       \/ /\ Fault
          /\ Pass(g, [Faulty(g) EXCEPT !.pc = "done"])
    /\ UNCHANGED <<subsVars, sent, owner>>

\* The client gets the status of the subscriptions service. It may repeat a
\* request that got 502, or one whose answer it lost, under the same id.
Respond(g) ==
    /\ gates[g].pc = "done"
    /\ \/ Pass(g, NoGate) /\ UNCHANGED faults
       \/ /\ IF gates[g].status = 502 THEN UNCHANGED faults ELSE Fault
          /\ Pass(g, [NoGate EXCEPT !.pc = Start(Ask(g)), !.request = gates[g].request])
    /\ owner' = [h \in Handlers |-> IF owner[h] = g THEN None ELSE owner[h]]
    /\ UNCHANGED <<subsVars, sent, inbox>>

-----------------------------------------------------------------------------
GatewayStep(g) ==
    \/ FindTopic(g) \/ FindFails(g) \/ Write(g) \/ Collect(g) \/ GiveUp(g)
    \/ Notify(g) \/ Respond(g)
    \/ \E a \in Asks, r \in RequestIds : Request(g, a, r)

GatewayInit ==
    /\ Init
    /\ gates = [g \in Gateways |-> NoGate]
    /\ sent = [r \in RequestIds |-> None]
    /\ inbox = {}
    /\ owner = [h \in Handlers |-> None]
    /\ faults = 0

GatewayNext ==
    /\ \/ \E g \in Gateways : GatewayStep(g)
       \/ ServiceNext /\ UNCHANGED <<gates, sent, inbox, owner, faults>>
    /\ Remember

GatewaySpec == GatewayInit /\ [][GatewayNext]_gatewayVars

-----------------------------------------------------------------------------
\* A notification that the user subscribed, or unsubscribed, is made only if the
\* subscription was on, or off, at some moment while the request was served.
NoticesTrue ==
    \A g \in Gateways : gates[g].pc = "notify" => Wanted(Ask(g)) \in gates[g].saw

\* A request the client repeats under its id is told of once.
NoticedOnce == \A m, n \in inbox : m.request = n.request => m = n

\* A subscribe or unsubscribe that succeeded has a notification of its own, also
\* when the user did the same before, unless a step of it failed or the
\* subscription is not on the pages the gateway looks at.
NoticedUnlessFaulty ==
    \A g \in Gateways :
      /\ gates[g].pc = "done" /\ gates[g].status \in {200, 201, 204} /\ ~gates[g].faulty
      /\ Ask(g).op # "update"
      /\ Cardinality(Mine(Ask(g))) <= PageSize * MaxPages
      => \E n \in inbox : n.request = gates[g].request

\* What the gateway answers is the end of it, for it sends no write twice: only
\* if it answers 500 or 502 may the subscriptions service be still at work on the
\* request, and then in one handler.
AnsweredIsOver ==
    \A g \in Gateways :
      gates[g].pc = "done" =>
        Cardinality({h \in Handlers : owner[h] = g /\ InFlight(h)})
          <= (IF gates[g].status \in {500, 502} THEN 1 ELSE 0)
=============================================================================

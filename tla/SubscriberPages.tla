--------------------------- MODULE SubscriberPages ---------------------------
(***************************************************************************)
(* How the delivery service finds the subscribers of a topic:              *)
(* iter_subscribers of its fan-out asks the subscriptions service for one  *)
(* page after another, each a query of its own, while people subscribe and *)
(* unsubscribe. A page that fails ends the fan-out, whose transaction is   *)
(* rolled back; when the message comes again it starts at the first page.  *)
(***************************************************************************)
EXTENDS Subscriptions

CONSTANT Limits      \* subscriptions_page_limit: the values it may have

ASSUME LimitsAssumption == Limits \subseteq Nat \ {0}
\* The rows are in the order of user_id, a number.
ASSUME KeysAssumption == Users \subseteq Nat /\ None \notin Users \X Ids

VARIABLES scan,      \* the pages one fan-out asks for
          always,    \* history: the users subscribed all the while since it began
          ever       \* history: the users subscribed at some moment since it began

pagesVars == <<vars, scan, always, ever>>

\* ORDER BY user_id, id, of the rows' keys.
ByUser(x, y) == x[1] < y[1] \/ (x[1] = y[1] /\ x[2] < y[2])
Pages == INSTANCE Keyset WITH Before <- ByUser

Subscribers(table, t) ==
    {<<table[i].user, i>> : i \in {j \in Ids : table[j] # None /\ table[j].topic = t
                                                /\ table[j].active}}
Subscribed(table, t) == {k[1] : k \in Subscribers(table, t)}

\* "got" counts how often a user was on a page.
NoScan == [pc |-> "idle", topic |-> None, limit |-> None, cursor |-> None,
           got |-> [u \in Users |-> 0]]

\* A message about a topic is fanned out, for the first time or again.
StartScan(t) ==
    /\ scan.pc # "fetch"
    /\ \E n \in Limits :
         scan' = [NoScan EXCEPT !.pc = "fetch", !.topic = t, !.limit = n]
    /\ UNCHANGED subsVars

\* GET /internal/topics/{id}/subscribers; of an unknown topic, 404.
FetchPage ==
    /\ scan.pc = "fetch"
    /\ scan.topic \in topics
    /\ LET list == Subscribers(rows, scan.topic)
           page == Pages!Page(list, scan.cursor, scan.limit)
           next == Pages!NextCursor(list, scan.cursor, scan.limit)
       IN scan' = [scan EXCEPT
                     !.pc = IF next = None THEN "done" ELSE "fetch",
                     !.cursor = next,
                     !.got = [u \in Users |->
                                @[u] + Cardinality({k \in page : k[1] = u})]]
    /\ UNCHANGED subsVars

\* raise_for_status, a timeout, or a crash of the consumer.
AbortScan ==
    /\ scan.pc = "fetch"
    /\ scan' = NoScan
    /\ UNCHANGED subsVars

ScanStep == FetchPage \/ AbortScan \/ \E t \in Topics : StartScan(t)

Watch ==
    IF scan'.pc = "idle" THEN always' = {} /\ ever' = {}
    ELSE LET now == Subscribed(rows', scan'.topic)
         IN IF scan.pc # "fetch" /\ scan'.pc = "fetch"
              THEN always' = now /\ ever' = now
              ELSE IF scan.pc = "done" THEN UNCHANGED <<always, ever>>
              ELSE always' = always \cap now /\ ever' = ever \cup now

PagesInit == Init /\ scan = NoScan /\ always = {} /\ ever = {}

PagesNext ==
    \/ SubsNext /\ Remember /\ UNCHANGED scan /\ Watch
    \/ ScanStep /\ UNCHANGED <<held, disturbed>> /\ Watch

PagesSpec == PagesInit /\ [][PagesNext]_pagesVars

-----------------------------------------------------------------------------
\* However subscriptions come and go between the pages, a fan-out that reached
\* the last one has got everybody who was subscribed all the while, and nobody
\* who was not subscribed at any moment of it.
SubscribersComplete ==
    scan.pc = "done" =>
      /\ \A u \in always : scan.got[u] > 0
      /\ \A u \in Users : scan.got[u] > 0 => u \in ever

\* Nobody is on two pages: one who leaves and comes back in between is got once.
NobodyTwice == \A u \in Users : scan.got[u] <= 1
=============================================================================

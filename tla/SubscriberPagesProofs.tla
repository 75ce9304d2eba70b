------------------------- MODULE SubscriberPagesProofs -------------------------
(***************************************************************************)
(* Proofs about SubscriberPages, for any users and topics, any limits, and *)
(* any number of handlers that write between the pages.                    *)
(***************************************************************************)
EXTENDS SubscriberPages, SubscriptionsProofs, KeysetProofs

-----------------------------------------------------------------------------
(* The order of the list.                                                  *)

Keys == Users \X Ids
ByKey == {p \in Keys \X Keys : ByUser(p[1], p[2])}

LEMMA KeysAreNumbers ==
  ASSUME NEW k \in Keys
  PROVE  /\ k[1] \in Nat /\ k[2] \in Nat
         /\ k[1] \in Users /\ k[2] \in Ids /\ k = <<k[1], k[2]>>
<1>1. PICK u \in Users, i \in Ids : k = <<u, i>>
  BY DEF Keys
<1>2. u \in Nat /\ i \in Nat
  BY KeysAssumption, IdsAreFinite
<1>. QED  BY <1>1, <1>2

LEMMA ByUserOrders ==
  ASSUME NEW x \in Keys, NEW y \in Keys, NEW z \in Keys
  PROVE  /\ ~ByUser(x, x)
         /\ ByUser(x, y) => ~ByUser(y, x)
         /\ ByUser(x, y) /\ ByUser(y, z) => ByUser(x, z)
         /\ x # y => ByUser(x, y) \/ ByUser(y, x)
<1>1. /\ x[1] \in Nat /\ x[2] \in Nat /\ y[1] \in Nat /\ y[2] \in Nat
      /\ z[1] \in Nat /\ z[2] \in Nat
  BY KeysAreNumbers
<1>2. x # y => x[1] # y[1] \/ x[2] # y[2]
  BY KeysAreNumbers
<1>. QED  BY <1>1, <1>2 DEF ByUser

LEMMA KeysOrdered ==
  ASSUME NEW S \in SUBSET Keys, IsFiniteSet(S)
  PROVE  Ordered(ByKey, S)
<1>1. \A x, y \in S : <<x, y>> \in ByKey <=> ByUser(x, y)
  BY DEF ByKey
<1>. QED  BY <1>1, ByUserOrders DEF Ordered

LEMMA SamePagesSize ==
  ASSUME NEW S
  PROVE  Pages!Cardinality(S) = Cardinality(S)
BY DEF Pages!Cardinality, Cardinality

LEMMA FirstKeys ==
  ASSUME NEW S \in SUBSET Keys, NEW n
  PROVE  Pages!First(S, n) = Least(ByKey, S, n)
<1>1. ASSUME NEW x \in S
      PROVE  {y \in S : ByUser(y, x)} = Under(ByKey, S, x)
  BY DEF ByKey, Under
<1>. QED  BY <1>1, SamePagesSize DEF Pages!First, Least

\* The cursor of the next page has the page before it, or is in it, and the
\* rest of the list after it; without one the page is the rest.
LEMMA SubscriberPage ==
  ASSUME NEW S \in SUBSET Keys, IsFiniteSet(S), NEW c \in Keys \cup {None}, NEW n \in Limits
  PROVE  LET from == Pages!From(S, c)
             page == Pages!Page(S, c, n)
             next == Pages!NextCursor(S, c, n)
         IN /\ from \subseteq S /\ page \subseteq from
            /\ next = None => page = from
            /\ next # None =>
                 /\ next \in page
                 /\ \A k \in page : ~ByUser(next, k)
                 /\ \A k \in from \ page : ByUser(next, k)
<1> DEFINE from == Pages!From(S, c)
           page == Pages!Page(S, c, n)
           next == Pages!NextCursor(S, c, n)
           read == Pages!First(from, n + 1)
<1>1. n \in Nat /\ n > 0
  BY LimitsAssumption
<1>2. from \subseteq S /\ from \in SUBSET Keys
  BY DEF Pages!From
<1>3. Ordered(ByKey, from)
  BY <1>2, FS_Subset, KeysOrdered
<1>4. page = Least(ByKey, from, n) /\ read = Least(ByKey, from, n + 1)
  BY <1>2, FirstKeys DEF Pages!Page
<1>5. next = IF Cardinality(read) > n THEN Pages!Last(Pages!First(read, n)) ELSE None
  BY SamePagesSize DEF Pages!NextCursor
<1>6. read \subseteq from
  BY <1>3, <1>4, LeastIsFinite
<1>7. Pages!First(read, n) = page
  <2>1. Pages!First(read, n) = Least(ByKey, read, n)
    BY <1>2, <1>6, FirstKeys
  <2>. QED  BY <1>1, <1>3, <1>4, <2>1, SamePage
<1> HIDE DEF from, page, next, read
<1>8. /\ page \subseteq from /\ Cardinality(read) \in Nat
      /\ Cardinality(read) <= n => page = from
      /\ ~(Cardinality(read) <= n) =>
           /\ \E x \in page : \A y \in page \ {x} : <<y, x>> \in ByKey
           /\ \A x \in page, y \in from \ page : <<x, y>> \in ByKey
  BY <1>1, <1>3, <1>4, PageParts
<1>9. CASE Cardinality(read) <= n
  BY <1>1, <1>2, <1>5, <1>8, <1>9 DEF from, page, next
<1>10. CASE ~(Cardinality(read) <= n)
  <2>1. next = Pages!Last(page)
    BY <1>1, <1>5, <1>7, <1>8, <1>10
  <2>2. \E x \in page : \A y \in page \ {x} : ByUser(y, x)
    BY <1>8, <1>10 DEF ByKey
  <2>3. next \in page /\ \A y \in page \ {next} : ByUser(y, next)
    BY <2>1, <2>2, Zenon DEF Pages!Last
  <2>4. page \subseteq Keys
    BY <1>2, <1>8
  <2>5. \A k \in page : ~ByUser(next, k)
    BY <2>3, <2>4, ByUserOrders
  <2>6. \A k \in from \ page : ByUser(next, k)
    BY <1>8, <1>10, <2>3 DEF ByKey
  <2>7. next # None
    BY <2>3, <2>4, KeysAssumption DEF Keys
  <2>. QED  BY <1>2, <1>8, <2>3, <2>5, <2>6, <2>7 DEF from, page, next
<1>. QED  BY <1>9, <1>10

-----------------------------------------------------------------------------
(* The inductive invariant.                                                *)

\* The keys of all subscriptions to a topic, on or off.
RowKeys(t) == {<<rows[i].user, i>> : i \in {j \in Stored : rows[j].topic = t}}

\* The pages have come to the key k.
Passed(k, cursor) == cursor # None /\ ~ByUser(cursor, k)

Scans == [pc : {"idle", "fetch", "done"}, topic : Topics \cup {None},
          limit : Limits \cup {None}, cursor : Keys \cup {None}, got : [Users -> Nat]]

\* Who was got has a subscription that the pages passed; who was subscribed all
\* the while and is passed was got.
FetchInv ==
    /\ scan.topic \in Topics /\ scan.limit \in Limits
    /\ always \subseteq Subscribed(rows, scan.topic)
    /\ \A u \in Users : scan.got[u] > 0 =>
         \E k \in RowKeys(scan.topic) : k[1] = u /\ Passed(k, scan.cursor)
    /\ \A k \in Subscribers(rows, scan.topic) :
         k[1] \in always /\ Passed(k, scan.cursor) => scan.got[k[1]] > 0

GotInv ==
    /\ \A u \in Users : scan.got[u] <= 1 /\ (scan.got[u] > 0 => u \in ever)
    /\ scan.pc = "idle" => scan = NoScan
    /\ scan.pc = "done" => \A u \in always : scan.got[u] > 0

PInv ==
    /\ IInv /\ scan \in Scans
    /\ GotInv
    /\ scan.pc = "fetch" => FetchInv

-----------------------------------------------------------------------------
LEMMA SubscriberKeys ==
  ASSUME IInv, NEW t
  PROVE  /\ Subscribers(rows, t) \subseteq RowKeys(t)
         /\ RowKeys(t) \subseteq Keys
         /\ IsFiniteSet(Subscribers(rows, t))
         /\ Subscribed(rows, t) \subseteq Users
<1>1. Subscribers(rows, t) \subseteq RowKeys(t)
  BY DEF Subscribers, RowKeys, Stored
<1>2. RowKeys(t) \subseteq Keys
  BY DEF RowKeys, Keys, IInv, StateOK, Stored, Rows
<1>3. IsFiniteSet(Subscribers(rows, t))
  <2> DEFINE J == {j \in Ids : rows[j] # None /\ rows[j].topic = t /\ rows[j].active}
  <2>1. IsFiniteSet(J)
    BY IdsAreFinite, FS_Subset
  <2>2. PICK f : f = [i \in J |-> <<rows[i].user, i>>]
    OBVIOUS
  <2>3. f \in Surjection(J, Subscribers(rows, t))
    BY <2>2 DEF Surjection, Subscribers
  <2>. QED  BY <2>1, <2>3, FS_Surjection
<1>4. Subscribed(rows, t) \subseteq Users
  BY <1>1, <1>2, KeysAreNumbers DEF Subscribed
<1>. QED  BY <1>1, <1>2, <1>3, <1>4

\* A user has one key in a topic, on or off.
LEMMA OneKey ==
  ASSUME IInv, NEW t, NEW k \in RowKeys(t), NEW m \in RowKeys(t), k[1] = m[1]
  PROVE  k = m
<1>1. PICK i \in Stored : k = <<rows[i].user, i>> /\ rows[i].topic = t
  BY DEF RowKeys
<1>2. PICK j \in Stored : m = <<rows[j].user, j>> /\ rows[j].topic = t
  BY DEF RowKeys
<1>3. i = j
  BY <1>1, <1>2 DEF IInv, OneRowPerPair
<1>. QED  BY <1>1, <1>2, <1>3

LEMMA KeysStay ==
  ASSUME RowsStay, NEW t
  PROVE  RowKeys(t) \subseteq RowKeys(t)'
BY DEF RowsStay, RowKeys

\* Subscriptions come and go between the pages.
LEMMA OthersStep ==
  ASSUME PInv, IInv', RowsStay, UNCHANGED scan, Watch
  PROVE  PInv'
<1>1. GotInv'
  <2>1. CASE scan.pc = "idle"
    <3>1. \A u \in Users : scan.got[u] = 0
      BY <2>1 DEF PInv, GotInv, NoScan
    <3>. QED  BY <2>1, <3>1 DEF PInv, GotInv
  <2>2. CASE scan.pc = "fetch"
    BY <2>2 DEF PInv, GotInv, Watch
  <2>3. CASE scan.pc = "done"
    BY <2>3 DEF PInv, GotInv, Watch
  <2>. QED  BY <2>1, <2>2, <2>3 DEF PInv, Scans
<1>2. ASSUME scan.pc = "fetch"
      PROVE  FetchInv'
  <2>1. FetchInv /\ always' = always \cap Subscribed(rows', scan.topic)
    BY <1>2 DEF PInv, Watch
  <2>2. PICK t : t = scan.topic
    OBVIOUS
  <2>3. RowKeys(t) \subseteq RowKeys(t)'
    BY KeysStay
  <2>4. RowKeys(scan.topic)' = RowKeys(t)'
    BY <2>2 DEF RowKeys
  <2>5. \A u \in Users : scan.got[u] > 0 =>
          \E k \in RowKeys(t)' : k[1] = u /\ Passed(k, scan.cursor)
    BY <2>1, <2>2, <2>3 DEF FetchInv
  <2>6. ASSUME NEW k \in Subscribers(rows', t), k[1] \in always', Passed(k, scan.cursor)
        PROVE  scan.got[k[1]] > 0
    <3>1. k[1] \in always /\ k[1] \in Subscribed(rows, t)
      BY <2>1, <2>2, <2>6 DEF FetchInv
    <3>2. PICK m \in Subscribers(rows, t) : m[1] = k[1]
      BY <3>1 DEF Subscribed
    <3>3. m \in RowKeys(t)' /\ k \in RowKeys(t)'
      <4>1. m \in RowKeys(t)
        BY SubscriberKeys DEF PInv
      <4>2. k \in RowKeys(t)'
        BY <2>6 DEF Subscribers, RowKeys, Stored
      <4>. QED  BY <2>3, <4>1, <4>2
    <3>4. m = k
      <4>1. PICK i \in Stored' : k = <<rows'[i].user, i>> /\ rows'[i].topic = t
        BY <3>3 DEF RowKeys
      <4>2. PICK j \in Stored' : m = <<rows'[j].user, j>> /\ rows'[j].topic = t
        BY <3>3 DEF RowKeys
      <4>3. i = j
        BY <3>2, <4>1, <4>2 DEF IInv, OneRowPerPair
      <4>. QED  BY <4>1, <4>2, <4>3
    <3>. QED  BY <2>1, <2>2, <2>6, <3>1, <3>2, <3>4 DEF FetchInv
  <2>. QED  BY <2>1, <2>2, <2>4, <2>5, <2>6 DEF FetchInv
<1>. QED  BY <1>1, <1>2 DEF PInv

LEMMA StartStep ==
  ASSUME PInv, NEW t \in Topics, StartScan(t), UNCHANGED <<held, disturbed>>, Watch
  PROVE  PInv'
<1>1. IInv' /\ rows' = rows
  BY Stuttering DEF PInv, StartScan, subsVars
<1>2. PICK n \in Limits : scan' = [NoScan EXCEPT !.pc = "fetch", !.topic = t, !.limit = n]
  BY DEF StartScan
<1>3. scan' = [pc |-> "fetch", topic |-> t, limit |-> n, cursor |-> None,
               got |-> [u \in Users |-> 0]]
  BY <1>2 DEF NoScan
<1>4. scan' \in Scans /\ scan'.pc = "fetch" /\ scan'.topic = t /\ scan'.limit = n
      /\ scan'.cursor = None /\ \A u \in Users : scan'.got[u] = 0
  BY <1>3 DEF Scans
<1>5. always' = Subscribed(rows', t)
  BY <1>4 DEF Watch, StartScan
<1>6. GotInv'
  BY <1>4 DEF GotInv
<1>7. FetchInv'
  BY <1>4, <1>5 DEF FetchInv, Passed
<1>. QED  BY <1>1, <1>4, <1>6, <1>7 DEF PInv

LEMMA AbortStep ==
  ASSUME PInv, AbortScan, UNCHANGED <<held, disturbed>>, Watch
  PROVE  PInv'
<1>1. IInv'
  BY Stuttering DEF PInv, AbortScan, subsVars
<1>2. scan' \in Scans /\ scan'.pc = "idle" /\ \A u \in Users : scan'.got[u] = 0
  BY DEF AbortScan, NoScan, Scans
<1>3. GotInv'
  BY <1>2 DEF GotInv, AbortScan, NoScan
<1>. QED  BY <1>1, <1>2, <1>3 DEF PInv

\* A page gives each user at most once, and nobody whose key was passed.
LEMMA FetchStep ==
  ASSUME PInv, FetchPage, UNCHANGED <<held, disturbed>>, Watch
  PROVE  PInv'
<1>1. PICK t : t = scan.topic
  OBVIOUS
<1>2. PICK c : c = scan.cursor
  OBVIOUS
<1>3. PICK list : list = Subscribers(rows, t)
  OBVIOUS
<1>4. PICK page : page = Pages!Page(list, c, scan.limit)
  OBVIOUS
<1>5. PICK next : next = Pages!NextCursor(list, c, scan.limit)
  OBVIOUS
<1>6. PICK from : from = Pages!From(list, c)
  OBVIOUS
<1>7. /\ IInv /\ IInv' /\ rows' = rows /\ FetchInv /\ GotInv /\ scan.pc = "fetch"
      /\ scan \in Scans /\ c \in Keys \cup {None} /\ scan.limit \in Limits /\ t \in Topics
  <2>1. IInv /\ FetchInv /\ GotInv /\ scan.pc = "fetch" /\ scan \in Scans
    BY DEF PInv, FetchPage
  <2>2. UNCHANGED subsVars
    BY DEF FetchPage
  <2>3. IInv'
    BY <2>1, <2>2, Stuttering
  <2>. QED  BY <1>1, <1>2, <2>1, <2>2, <2>3 DEF FetchInv, Scans, subsVars
<1>8. /\ list \subseteq RowKeys(t) /\ RowKeys(t) \subseteq Keys
      /\ list \in SUBSET Keys /\ IsFiniteSet(list)
  BY <1>3, <1>7, SubscriberKeys
<1>9. /\ from \subseteq list /\ page \subseteq from
      /\ next = None => page = from
      /\ next # None =>
           /\ next \in page
           /\ \A k \in page : ~ByUser(next, k)
           /\ \A k \in from \ page : ByUser(next, k)
  BY <1>4, <1>5, <1>6, <1>7, <1>8, SubscriberPage
<1>10. \A k \in list : k \in from <=> ~Passed(k, c)
  BY <1>6 DEF Pages!From, Passed
<1>11. PICK got : got = [u \in Users |-> scan.got[u] + Cardinality({k \in page : k[1] = u})]
  OBVIOUS
<1>12. PICK pc : pc = IF next = None THEN "done" ELSE "fetch"
  OBVIOUS
<1>13. scan' = [scan EXCEPT !.pc = pc, !.cursor = next, !.got = got]
  BY <1>1, <1>2, <1>3, <1>4, <1>5, <1>11, <1>12 DEF FetchPage
<1>14. /\ scan'.pc = pc /\ scan'.topic = t /\ scan'.limit = scan.limit
       /\ scan'.cursor = next /\ scan'.got = got
  BY <1>1, <1>7, <1>13 DEF Scans
<1>15. /\ always' = always \cap Subscribed(rows, t)
       /\ ever' = ever \cup Subscribed(rows, t)
  <2>1. pc # "idle"
    BY <1>12
  <2>. QED  BY <1>7, <1>14, <2>1 DEF Watch
\* What a page gives a user.
<1>16. ASSUME NEW u \in Users
       PROVE  \/ /\ got[u] = scan.got[u]
                 /\ \A k \in page : k[1] # u
              \/ /\ scan.got[u] = 0 /\ got[u] = 1
                 /\ \E k \in page : k[1] = u
  <2>1. scan.got[u] \in Nat
    BY <1>7 DEF Scans
  <2>2. got[u] = scan.got[u] + Cardinality({k \in page : k[1] = u})
    BY <1>11
  <2>3. CASE \A k \in page : k[1] # u
    <3>1. {k \in page : k[1] = u} = {}
      BY <2>3
    <3>2. Cardinality({k \in page : k[1] = u}) = 0
      BY <3>1, FS_EmptySet
    <3>. QED  BY <2>1, <2>2, <2>3, <3>2
  <2>4. ASSUME NEW k \in page, k[1] = u
        PROVE  scan.got[u] = 0 /\ got[u] = 1
    <3>1. k \in RowKeys(t) /\ k \in from /\ k \in list
      BY <1>8, <1>9
    <3>2. \A m \in page : m[1] = u => m = k
      BY <1>7, <1>8, <1>9, <2>4, <3>1, OneKey
    <3>3. {m \in page : m[1] = u} = {k}
      BY <2>4, <3>2
    <3>4. Cardinality({m \in page : m[1] = u}) = 1
      BY <3>3, FS_Singleton
    <3>5. ~(scan.got[u] > 0)
      <4>1. SUFFICES ASSUME scan.got[u] > 0
                     PROVE  FALSE
        OBVIOUS
      <4>2. PICK m \in RowKeys(t) : m[1] = u /\ Passed(m, c)
        BY <1>1, <1>2, <1>7, <4>1 DEF FetchInv
      <4>3. m = k
        BY <1>7, <2>4, <3>1, <4>2, OneKey
      <4>. QED  BY <1>10, <3>1, <4>2, <4>3
    <3>. QED  BY <2>1, <2>2, <3>4, <3>5
  <2>. QED  BY <2>3, <2>4
<1>17. got \in [Users -> Nat]
  <2>1. \A u \in Users : got[u] \in Nat
    BY <1>7, <1>16 DEF Scans
  <2>. QED  BY <1>11, <2>1
<1>18. scan' \in Scans
  <2>1. next \in Keys \cup {None}
    BY <1>8, <1>9
  <2>2. pc \in {"fetch", "done"}
    BY <1>12
  <2>3. PICK x : x = [scan EXCEPT !.pc = pc]
    OBVIOUS
  <2>4. PICK y : y = [x EXCEPT !.cursor = next]
    OBVIOUS
  <2>5. x \in Scans
    BY <1>7, <2>2, <2>3 DEF Scans
  <2>6. y \in Scans
    BY <2>1, <2>4, <2>5 DEF Scans
  <2>7. scan' = [y EXCEPT !.got = got]
    BY <1>13, <2>3, <2>4
  <2>. QED  BY <1>17, <2>6, <2>7 DEF Scans
\* Everybody subscribed who is passed now was got.
<1>19. ASSUME NEW k \in list, k[1] \in always, next = None \/ Passed(k, next)
       PROVE  got[k[1]] > 0
  <2>1. k[1] \in Users /\ k \in Keys
    BY <1>8, KeysAreNumbers
  <2>2. CASE k \in from
    <3>1. k \in page
      BY <1>9, <1>19, <2>2 DEF Passed
    <3>. QED  BY <1>16, <2>1, <3>1
  <2>3. CASE k \notin from
    <3>1. Passed(k, c)
      BY <1>10, <2>3
    <3>2. scan.got[k[1]] > 0
      BY <1>1, <1>2, <1>3, <1>7, <1>19, <3>1 DEF FetchInv
    <3>. QED  BY <1>16, <2>1, <3>2
  <2>. QED  BY <2>2, <2>3
<1>20. ASSUME NEW u \in Users, got[u] > 0
       PROVE  u \in ever'
  <2>1. CASE scan.got[u] > 0
    BY <1>7, <1>15, <2>1 DEF GotInv
  <2>2. CASE \E k \in page : k[1] = u
    <3>1. PICK k \in page : k[1] = u
      BY <2>2
    <3>2. u \in Subscribed(rows, t)
      BY <1>3, <1>9, <3>1 DEF Subscribed
    <3>. QED  BY <1>15, <3>2
  <2>. QED  BY <1>16, <1>20, <2>1, <2>2
<1>21. \A u \in always' : \E k \in list : k[1] = u
  BY <1>3, <1>15 DEF Subscribed
<1>22. GotInv'
  <2>1. \A u \in Users : got[u] <= 1
    <3>1. ASSUME NEW u \in Users
          PROVE  got[u] <= 1
      <4>1. scan.got[u] <= 1
        BY <1>7 DEF GotInv
      <4>. QED  BY <1>16, <4>1
    <3>. QED  BY <3>1
  <2>2. pc = "done" => \A u \in always' : got[u] > 0
    BY <1>12, <1>15, <1>19, <1>21
  <2>3. pc # "idle"
    BY <1>12
  <2>. QED  BY <1>14, <1>20, <2>1, <2>2, <2>3 DEF GotInv
<1>23. ASSUME pc = "fetch"
       PROVE  FetchInv'
  <2>1. next # None /\ next \in page /\ next \in Keys
    BY <1>8, <1>9, <1>12, <1>23
  <2>2. ASSUME NEW u \in Users, got[u] > 0
        PROVE  \E k \in RowKeys(t) : k[1] = u /\ Passed(k, next)
    <3>1. CASE \E k \in page : k[1] = u
      BY <1>8, <1>9, <2>1, <3>1 DEF Passed
    <3>2. CASE scan.got[u] > 0
      <4>1. PICK m \in RowKeys(t) : m[1] = u /\ Passed(m, c)
        BY <1>1, <1>2, <1>7, <3>2 DEF FetchInv
      <4>2. m \in Keys /\ c \in Keys /\ ~ByUser(c, m) /\ c # None
        BY <1>7, <1>8, <4>1 DEF Passed
      <4>3. ByUser(c, next)
        BY <1>9, <1>10, <2>1, <4>2 DEF Passed
      <4>4. ~ByUser(next, m)
        BY <2>1, <4>2, <4>3, ByUserOrders
      <4>. QED  BY <2>1, <4>1, <4>4 DEF Passed
    <3>. QED  BY <1>16, <2>2, <3>1, <3>2
  <2>3. RowKeys(t)' = RowKeys(t)
    BY <1>7 DEF RowKeys, Stored
  <2>4. RowKeys(scan.topic)' = RowKeys(t)'
    BY <1>14 DEF RowKeys
  <2>5. Subscribers(rows', scan'.topic) = list /\ always' \subseteq Subscribed(rows', scan'.topic)
    BY <1>3, <1>7, <1>14, <1>15
  <2>. QED
    BY <1>7, <1>14, <1>15, <1>19, <2>2, <2>3, <2>4, <2>5 DEF FetchInv
<1>. QED  BY <1>7, <1>14, <1>18, <1>22, <1>23 DEF PInv

-----------------------------------------------------------------------------
LEMMA PagesBegin == PagesInit => PInv
<1> SUFFICES ASSUME PagesInit PROVE PInv
  OBVIOUS
<1>1. IInv
  BY Initially DEF PagesInit
<1>2. scan = NoScan /\ scan \in Scans /\ scan.pc = "idle" /\ \A u \in Users : scan.got[u] = 0
  BY DEF PagesInit, NoScan, Scans
<1>. QED  BY <1>1, <1>2 DEF PInv, GotInv

LEMMA PagesStutter ==
  ASSUME PInv, UNCHANGED pagesVars
  PROVE  PInv'
<1>1. IInv' /\ rows' = rows /\ UNCHANGED <<scan, always, ever>>
  BY Stuttering DEF PInv, pagesVars, vars, subsVars
<1>2. \A t : RowKeys(t)' = RowKeys(t)
  BY <1>1 DEF RowKeys, Stored
<1>3. GotInv'
  BY <1>1 DEF PInv, GotInv
<1>4. FetchInv => FetchInv'
  BY <1>1, <1>2 DEF FetchInv
<1>. QED  BY <1>1, <1>3, <1>4 DEF PInv

LEMMA PagesInductive == PInv /\ [PagesNext]_pagesVars => PInv'
<1>1. ASSUME PInv, SubsNext, UNCHANGED scan, Watch
      PROVE  PInv'
  BY <1>1, ServiceStep, ServiceRowsStay, OthersStep DEF PInv
<1>2. ASSUME PInv, ScanStep, UNCHANGED <<held, disturbed>>, Watch
      PROVE  PInv'
  BY <1>2, FetchStep, AbortStep, StartStep DEF ScanStep
<1>. QED  BY <1>1, <1>2, PagesStutter DEF PagesNext

LEMMA PagesInvariance == PagesSpec => []PInv
BY PagesBegin, PagesInductive, PTL DEF PagesSpec

\* A fan-out that reached the last page got everybody subscribed all the while,
\* and nobody who never was, whatever was written between the pages.
THEOREM SubscribersCompleteHolds == PagesSpec => []SubscribersComplete
<1>1. PInv => SubscribersComplete
  BY DEF PInv, GotInv, SubscribersComplete
<1>. QED  BY <1>1, PagesInvariance, PTL

\* Nobody is on two pages, also not who leaves and comes back between them.
THEOREM NobodyTwiceHolds == PagesSpec => []NobodyTwice
<1>1. PInv => NobodyTwice
  BY DEF PInv, GotInv, NobodyTwice
<1>. QED  BY <1>1, PagesInvariance, PTL

===============================================================================

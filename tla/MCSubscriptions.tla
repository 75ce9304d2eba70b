--------------------------- MODULE MCSubscriptions ---------------------------
(* Small instances of Subscriptions for TLC. *)
EXTENDS Subscriptions

CONSTANTS h1, h2, t1

MCDefaults == [f \in Fields |-> "default"]

\* No subscriptions, or one of the first user.
MCEarlier ==
    {[i \in Ids |-> None]} \cup
    {[i \in Ids |-> IF i = 1 THEN [user |-> 1, topic |-> t1, active |-> b, prefs |-> Defaults]
                    ELSE None] : b \in BOOLEAN}

Named(f, v) == [NoPatch EXCEPT ![f] = v]
Channels == Named("channels", "email")
TimeZone == Named("timezone", "Zurich")

\* A user subscribes, unsubscribes and updates; another one, who has no
\* subscription, tries to end and to change the first one's.
MCAsks ==
    [op : {"subscribe"}, user : {1}, topic : Topics, id : {None},
     active : {None}, patch : {NoPatch}]
    \cup [op : {"unsubscribe"}, user : Users, topic : {None}, id : {1},
          active : {None}, patch : {NoPatch}]
    \cup [op : {"update"}, user : {1}, topic : {None}, id : {1},
          active : BOOLEAN, patch : {NoPatch, Channels}]
    \cup [op : {"update"}, user : {1}, topic : {None}, id : {1},
          active : {None}, patch : {Channels, TimeZone}]
    \cup [op : {"update"}, user : {2}, topic : {None}, id : {1},
          active : {FALSE}, patch : {TimeZone}]
=============================================================================

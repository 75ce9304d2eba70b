-------------------------- MODULE MCSubscriberPages --------------------------
(* Small instances of SubscriberPages for TLC. *)
EXTENDS SubscriberPages

CONSTANTS h1, t1

MCDefaults == [f \in Fields |-> "default"]

\* Everybody subscribes and unsubscribes.
MCAsks ==
    [op : {"subscribe"}, user : Users, topic : Topics, id : {None},
     active : {None}, patch : {NoPatch}]
    \cup {a \in [op : {"unsubscribe"}, user : Users, topic : {None}, id : Ids,
                 active : {None}, patch : {NoPatch}] : a.user <= 3 => a.id = a.user}

\* All but the last user have a row, on or off; the last one's comes after.
MCEarlier ==
    {[i \in Ids |-> IF i = MaxSubs THEN None
                    ELSE [user |-> i, topic |-> t1, active |-> on[i], prefs |-> Defaults]] :
       on \in [Ids -> BOOLEAN]}
=============================================================================

------------------------------ MODULE MCGateway ------------------------------
(* A small instance of Gateway for TLC. *)
EXTENDS Gateway, TLC

CONSTANTS t1, t2, t3

MCDefaults == [f \in Fields |-> "default"]

\* The user has n subscriptions, all of them on or all off: the first of them
\* is on the first page of one, on the second, or on none that is read.
Named(i) == CASE i = 1 -> t1 [] i = 2 -> t2 [] OTHER -> t3
MCEarlier ==
    {[i \in Ids |-> IF i <= n THEN [user |-> 1, topic |-> Named(i), active |-> b, prefs |-> Defaults]
                    ELSE None] : n \in {0, 1, 2, 3}, b \in BOOLEAN}

\* The user switches the first subscription on and off, on every way there is.
MCAsks ==
    {[op |-> "subscribe", user |-> 1, topic |-> t1, id |-> None, active |-> None, patch |-> NoPatch],
     [op |-> "unsubscribe", user |-> 1, topic |-> None, id |-> 1, active |-> None, patch |-> NoPatch],
     [op |-> "update", user |-> 1, topic |-> None, id |-> 1, active |-> FALSE, patch |-> NoPatch]}

Symmetry == Permutations(Gateways) \cup Permutations(Handlers)
=============================================================================

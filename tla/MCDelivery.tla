------------------------------ MODULE MCDelivery ------------------------------
(* Small instances of Delivery for TLC. *)
EXTENDS Delivery, TLC

CONSTANTS e1, e2, t1, t2, a1, a2, a3, a4, c1, c2, w1, w2

Symmetry == Permutations(AttemptIds) \cup Permutations(Consumers) \cup Permutations(Workers)

\* t1 has quiet hours that contain midnight, t2 has none.
MixedQuiet == [t \in Targets |-> IF t = t1 THEN [start |-> Day - 1, end |-> 1]
                                           ELSE [start |-> 0, end |-> 0]]

NoQuiet == [t \in Targets |-> [start |-> 0, end |-> 0]]
===============================================================================

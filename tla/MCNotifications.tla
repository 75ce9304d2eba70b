--------------------------- MODULE MCNotifications ---------------------------
(* Small instances of Notifications for TLC. *)
EXTENDS Notifications, TLC

CONSTANTS n1, n2, e1, e2, u1, u2, k1, h1, h2, s1, s2, p1, p2

\* Processes and uuids are interchangeable; users are not, one may be an admin.
Symmetry == Permutations(Ids) \cup Permutations(EventIds) \cup Permutations(Handlers)
            \cup Permutations(Schedulers) \cup Permutations(Publishers)
=============================================================================

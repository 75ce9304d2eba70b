------------------------ MODULE NotificationLifecycle ------------------------
(***************************************************************************)
(* What the notifications service promises of each notification, with no   *)
(* word of tables, transactions or processes: it is accepted for now or    *)
(* for later, one for later is released or cancelled, never both, and only *)
(* an accepted or released one is ever announced to the delivery service.  *)
(***************************************************************************)
CONSTANT Ids

VARIABLES life,        \* where each notification stands
          announced    \* the notifications the delivery service can know of

lifeVars == <<life, announced>>

States == {"absent", "waiting", "released", "cancelled"}

LifeInit ==
    /\ life = [n \in Ids |-> "absent"]
    /\ announced = {}

Become(n, state) == life' = [life EXCEPT ![n] = state] /\ UNCHANGED announced

Accept(n) == life[n] = "absent" /\ Become(n, "released")
Schedule(n) == life[n] = "absent" /\ Become(n, "waiting")
CancelWaiting(n) == life[n] = "waiting" /\ Become(n, "cancelled")

\* A batch of them becomes due at once.
Release(batch) ==
    /\ \A n \in batch : life[n] = "waiting"
    /\ life' = [n \in Ids |-> IF n \in batch THEN "released" ELSE life[n]]
    /\ UNCHANGED announced

Announce(n) ==
    /\ life[n] = "released"
    /\ announced' = announced \cup {n}
    /\ UNCHANGED life

LifeNext ==
    \/ \E n \in Ids : Accept(n) \/ Schedule(n) \/ CancelWaiting(n) \/ Announce(n)
    \/ \E b \in SUBSET Ids : Release(b)

LifeSpec == LifeInit /\ [][LifeNext]_lifeVars
=============================================================================

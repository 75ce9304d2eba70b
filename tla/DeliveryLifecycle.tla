--------------------------- MODULE DeliveryLifecycle ---------------------------
(***************************************************************************)
(* What the delivery service promises for each event and each target of    *)
(* its topic: all targets get their delivery at once, one each, which is   *)
(* tried until it succeeds or MaxAttempts tries have failed, and then      *)
(* never touched again.                                                    *)
(***************************************************************************)
EXTENDS Naturals

CONSTANTS EventIds, Targets, MaxAttempts

VARIABLE delivery      \* by event and target: where it stands, and failed tries

States == {"absent", "pending", "failed", "sent", "dead"}

LifeInit == delivery = [p \in EventIds \X Targets |-> [state |-> "absent", no |-> 0]]

Become(p, state, no) == delivery' = [delivery EXCEPT ![p] = [state |-> state, no |-> no]]

Open(p) == delivery[p].state \in {"pending", "failed"}

FanOut(e) ==
    /\ \A t \in Targets : delivery[<<e, t>>].state = "absent"
    /\ delivery' = [p \in EventIds \X Targets |->
         IF p[1] = e THEN [state |-> "pending", no |-> 0] ELSE delivery[p]]

\* Quiet hours: no try is used up.
Postpone(p) == Open(p) /\ Become(p, "failed", delivery[p].no)

Succeed(p) == Open(p) /\ Become(p, "sent", delivery[p].no)

Fail(p) ==
    /\ Open(p)
    /\ delivery[p].no + 1 < MaxAttempts
    /\ Become(p, "failed", delivery[p].no + 1)

GiveUp(p) ==
    /\ Open(p)
    /\ delivery[p].no + 1 = MaxAttempts
    /\ Become(p, "dead", MaxAttempts)

LifeNext ==
    \/ \E e \in EventIds : FanOut(e)
    \/ \E p \in EventIds \X Targets : Postpone(p) \/ Succeed(p) \/ Fail(p) \/ GiveUp(p)

LifeSpec == LifeInit /\ [][LifeNext]_delivery
===============================================================================

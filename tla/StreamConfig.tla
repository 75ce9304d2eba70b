---------------------------- MODULE StreamConfig ----------------------------
(***************************************************************************)
(* The JetStream stream the services share. Every process of notifications *)
(* and of delivery sets it up when it starts, each with the subjects its   *)
(* own service knows of, and the processes start and restart in any order. *)
(***************************************************************************)
CONSTANTS Notifiers,     \* processes of notifications: the API, the publisher
          Deliverers,    \* others, of delivery: the API, the consumer, the worker
          Worker,        \* the one that publishes outcomes
          None

Processes == Notifiers \cup Deliverers
Created == "notification.created.v1"
Outcomes == {"delivery.succeeded.v1", "delivery.failed.v1"}

VARIABLES stream,        \* the subjects of the stream, None before there is one
          pc,            \* "down", "connected", "update" or "up"
          refused        \* the subjects a publish was refused for

vars == <<stream, pc, refused>>

Init ==
    /\ stream = None
    /\ pc = [p \in Processes |-> "down"]
    /\ refused = {}

Goto(p, state) == pc' = [pc EXCEPT ![p] = state]

Configured(p) == IF p \in Notifiers THEN {Created} ELSE {Created} \cup Outcomes

Connect(p) ==
    /\ pc[p] = "down"
    /\ Goto(p, "connected")
    /\ UNCHANGED <<stream, refused>>

\* To add the stream as it is already is no error; to add it otherwise is one.
AddStream(p) ==
    /\ pc[p] = "connected"
    /\ \/ /\ stream \in {None, Configured(p)}
          /\ stream' = Configured(p)
          /\ Goto(p, "up")
       \/ /\ stream \notin {None, Configured(p)}
          /\ Goto(p, "update")
          /\ UNCHANGED stream
    /\ UNCHANGED refused

UpdateStream(p) ==
    /\ pc[p] = "update"
    /\ stream' = Configured(p)
    /\ Goto(p, "up")
    /\ UNCHANGED refused

\* A subject that is not of the stream: nobody answers, and publish raises.
Publish(p, subject) ==
    /\ pc[p] = "up"
    /\ subject \in (IF p \in Notifiers THEN {Created} ELSE IF p = Worker THEN Outcomes ELSE {})
    /\ refused' = IF subject \in stream THEN refused ELSE refused \cup {subject}
    /\ UNCHANGED <<stream, pc>>

\* The process ends; the stream, in a file, stays.
Stop(p) ==
    /\ pc[p] # "down"
    /\ Goto(p, "down")
    /\ UNCHANGED <<stream, refused>>

Next ==
    \E p \in Processes :
      \/ Connect(p) \/ AddStream(p) \/ UpdateStream(p) \/ Stop(p)
      \/ \E subject \in {Created} \cup Outcomes : Publish(p, subject)

Spec == Init /\ [][Next]_vars

-----------------------------------------------------------------------------
\* What the worker publishes, delivery.succeeded and delivery.failed, goes to
\* the stream, in whatever order the processes start.
OutcomesAccepted == refused \cap Outcomes = {}
=============================================================================

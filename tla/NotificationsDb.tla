--------------------------- MODULE NotificationsDb ---------------------------
(***************************************************************************)
(* The state the processes of the notifications service share: the two     *)
(* PostgreSQL tables, the row locks their transactions take on the first   *)
(* of them, the JetStream stream they publish to, and the clock.           *)
(*                                                                         *)
(* A transaction keeps its own writes in the state of its process and adds *)
(* them to the tables in one step, its commit (READ COMMITTED: nobody sees *)
(* them before).                                                           *)
(***************************************************************************)
EXTENDS Naturals, FiniteSets

CONSTANTS Ids,          \* notification ids (uuid4)
          EventIds,     \* outbox event ids (uuid4)
          Users,        \* authenticated users
          Admins,       \* the users that hold the role "admin"
          Keys,         \* idempotency keys
          None,         \* NULL / None of the code
          Schedulers,   \* scheduler processes
          MaxTime,      \* bound on the clock
          MaxFaults     \* bound on crashes, rollbacks and failed publications

ASSUME BoundsAssumption == MaxTime \in Nat /\ MaxFaults \in Nat

VARIABLES notes,    \* notifications.notifications, by id; None where no row is
          outbox,   \* notifications.outbox_events, by id; None where no row is
          locked,   \* the notification rows each scheduler's transaction holds
          stream,   \* copies of each event in the JetStream stream
          now,      \* the time
          faults    \* crashes, rollbacks and failed publications so far

dbVars == <<notes, outbox, locked, stream, now, faults>>

Times == 0 .. MaxTime
Statuses == {"created", "scheduled", "queued", "cancelled"}

NoteRows == [owner : Users, key : Keys \cup {None},
             scheduledAt : Times \cup {None}, status : Statuses]
EventRows == [note : Ids, createdAt : Times, published : BOOLEAN, failed : BOOLEAN]

ASSUME NoneAssumption ==
    None \notin Keys \cup Ids \cup EventIds \cup NoteRows \cup EventRows

DbTypeOK ==
    /\ notes \in [Ids -> NoteRows \cup {None}]
    /\ outbox \in [EventIds -> EventRows \cup {None}]
    /\ locked \in [Schedulers -> SUBSET Ids]
    /\ stream \in [EventIds -> Nat]
    /\ now \in Times
    /\ faults \in 0 .. MaxFaults

DbInit ==
    /\ notes = [n \in Ids |-> None]
    /\ outbox = [e \in EventIds |-> None]
    /\ locked = [s \in Schedulers |-> {}]
    /\ stream = [e \in EventIds |-> 0]
    /\ now = 0
    /\ faults = 0

-----------------------------------------------------------------------------
(* Queries.                                                                *)

Stored == {n \in Ids : notes[n] # None}

Events == {e \in EventIds : outbox[e] # None}

\* get_by_idempotency_key
WithKey(user, key) ==
    {n \in Stored : notes[n].owner = user /\ notes[n].key = key}

\* Rows another transaction's FOR UPDATE or UPDATE has to wait for, or skips.
RowLocked(n) == \E s \in Schedulers : n \in locked[s]

\* ORDER BY stamp LIMIT limit: as many rows as the limit allows, and none of
\* them younger than a row left behind. Rows of equal stamp come in any order.
Batches(rows, limit, stamp) ==
    {b \in SUBSET rows :
        /\ Cardinality(b) = IF Cardinality(rows) <= limit
                              THEN Cardinality(rows) ELSE limit
        /\ \A x \in b, y \in rows \ b : stamp[x] <= stamp[y]}

\* create_event: what an INSERT INTO outbox_events leaves in the row.
NewEvent(n) == [note |-> n, createdAt |-> now, published |-> FALSE, failed |-> FALSE]

-----------------------------------------------------------------------------
(* The clock, and one more fault of the environment.                       *)

Tick ==
    /\ now < MaxTime
    /\ now' = now + 1
    /\ UNCHANGED <<notes, outbox, locked, stream, faults>>

Fault == faults < MaxFaults /\ faults' = faults + 1
=============================================================================

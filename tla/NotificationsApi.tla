--------------------------- MODULE NotificationsApi ---------------------------
(***************************************************************************)
(* The HTTP handlers of notifications-api that change state:               *)
(* POST /notifications and POST /notifications/{id}/cancel. A handler      *)
(* awaits the database between its steps, and other handlers, the          *)
(* scheduler and the publishers run in between.                            *)
(***************************************************************************)
EXTENDS NotificationsDb

CONSTANT Handlers      \* requests the API serves at the same time

VARIABLES api,         \* what each handler is doing
          answers      \* history: the answers to requests with a key

apiVars == <<api, answers>>

Pcs == {"idle", "create", "insert", "commit", "duplicate", "respond",
        "cancel", "cancelling"}

\* One record for both requests. "note" is the id a creation inserts or a
\* cancellation is about.
Requests == [pc : Pcs, user : Users \cup {None}, key : Keys \cup {None},
             at : Times \cup {None}, status : {"created", "scheduled"},
             note : Ids \cup {None}]

Idle == [pc |-> "idle", user |-> None, key |-> None, at |-> None,
         status |-> "created", note |-> None]

\* An answer to a creation: 201 when new, 200 otherwise.
Answers == [user : Users, key : Keys, note : Ids, new : BOOLEAN]

ApiTypeOK ==
    /\ api \in [Handlers -> Requests]
    /\ answers \in SUBSET Answers

ApiInit ==
    /\ api = [h \in Handlers |-> Idle]
    /\ answers = {}

Become(h, request) == api' = [api EXCEPT ![h] = request]
Goto(h, pc) == Become(h, [api[h] EXCEPT !.pc = pc])
Done(h) == Become(h, Idle)

-----------------------------------------------------------------------------
(* POST /notifications                                                     *)

\* Ids no row has and no handler has drawn: what uuid4() may return.
FreshIds == {n \in Ids \ Stored : \A h \in Handlers : api[h].note # n}

\* Bound: a request is taken only while an id is left for it.
ReceiveCreate(h) ==
    /\ api[h].pc = "idle"
    /\ Cardinality({g \in Handlers : api[g].pc = "create"}) < Cardinality(FreshIds)
    /\ \E u \in Users, k \in Keys \cup {None}, t \in Times \cup {None} :
         Become(h, [api[h] EXCEPT !.pc = "create", !.user = u, !.key = k, !.at = t])
    /\ UNCHANGED <<dbVars, answers>>

\* _is_immediate
Immediate(at) == at = None \/ at <= now

\* The answer of handler h about the notifications in the set found.
Answered(h, found, new) ==
    IF api[h].key = None THEN {}
    ELSE {[user |-> api[h].user, key |-> api[h].key, note |-> n, new |-> new] :
            n \in found}

\* Lines 44-52: an earlier notification with the key is the answer; without one
\* the id is drawn and the status decided, before the transaction begins.
CheckKey(h) ==
    /\ api[h].pc = "create"
    /\ LET found == IF api[h].key = None THEN {}
                    ELSE WithKey(api[h].user, api[h].key)
       IN \/ /\ found # {}
             /\ Done(h)
             /\ answers' = answers \cup Answered(h, found, FALSE)
          \/ /\ found = {}
             /\ \E n \in FreshIds :
                  Become(h, [api[h] EXCEPT
                    !.pc = "insert", !.note = n,
                    !.status = IF Immediate(api[h].at) THEN "created" ELSE "scheduled"])
             /\ UNCHANGED answers
    /\ UNCHANGED dbVars

\* Another open transaction has inserted the key: the unique index makes an
\* INSERT of the same key wait for its end.
KeyTaken(h) ==
    /\ api[h].key # None
    /\ \E g \in Handlers \ {h} :
         api[g].pc = "commit" /\ api[g].user = api[h].user /\ api[g].key = api[h].key

\* Mutants of Insert: no unique index; an INSERT that fails without waiting for
\* the transaction it collides with.
InsertUnindexed(h) ==
    /\ api[h].pc = "insert"
    /\ Goto(h, "commit")
    /\ UNCHANGED <<dbVars, answers>>
InsertImpatient(h) ==
    /\ api[h].pc = "insert"
    /\ Goto(h, IF KeyTaken(h) THEN "duplicate" ELSE "commit")
    /\ UNCHANGED <<dbVars, answers>>

\* The INSERT: 23505 when the key is in the table by now.
Insert(h) ==
    /\ api[h].pc = "insert"
    /\ ~KeyTaken(h)
    /\ IF api[h].key # None /\ WithKey(api[h].user, api[h].key) # {}
         THEN Goto(h, "duplicate")
         ELSE Goto(h, "commit")
    /\ UNCHANGED <<dbVars, answers>>

\* The row and, for an immediate notification, its outbox event.
Commit(h) ==
    /\ api[h].pc = "commit"
    /\ LET n == api[h].note
           row == [owner |-> api[h].user, key |-> api[h].key,
                   scheduledAt |-> api[h].at, status |-> api[h].status]
       IN /\ notes' = [notes EXCEPT ![n] = row]
          /\ \/ /\ api[h].status = "created"
                /\ \E e \in EventIds \ Events :
                     outbox' = [outbox EXCEPT ![e] = NewEvent(n)]
             \/ /\ api[h].status # "created"
                /\ UNCHANGED outbox
    /\ Goto(h, "respond")
    /\ UNCHANGED <<locked, stream, now, faults, answers>>

Respond(h) ==
    /\ api[h].pc = "respond"
    /\ answers' = answers \cup Answered(h, {api[h].note}, TRUE)
    /\ Done(h)
    /\ UNCHANGED dbVars

\* Mutant of Reread: the id drawn before the INSERT is the answer.
RereadOwnId(h) ==
    /\ api[h].pc = "duplicate"
    /\ answers' = answers \cup Answered(h, {api[h].note}, FALSE)
    /\ Done(h)
    /\ UNCHANGED dbVars

\* Lines 91-96: the notification the key belongs to is the answer. Were there
\* none, the error would be raised, and nothing answered.
Reread(h) ==
    /\ api[h].pc = "duplicate"
    /\ answers' = answers \cup
         Answered(h, WithKey(api[h].user, api[h].key), FALSE)
    /\ Done(h)
    /\ UNCHANGED dbVars

-----------------------------------------------------------------------------
(* POST /notifications/{id}/cancel                                         *)

ReceiveCancel(h) ==
    /\ api[h].pc = "idle"
    /\ \E u \in Users, n \in Stored :
         Become(h, [api[h] EXCEPT !.pc = "cancel", !.user = u, !.note = n])
    /\ UNCHANGED <<dbVars, answers>>

\* get_notification, and the status it returns: 404, 403 and 409 end the request.
ReadForCancel(h) ==
    /\ api[h].pc = "cancel"
    /\ LET n == api[h].note
           visible == n \in Stored /\ (notes[n].owner = api[h].user \/ api[h].user \in Admins)
       IN IF visible /\ notes[n].status = "scheduled"
            THEN Goto(h, "cancelling")
            ELSE Done(h)
    /\ UNCHANGED <<dbVars, answers>>

\* Mutants of CancelIfScheduled: a status that does not exist; an UPDATE without
\* AND status = 'scheduled'; one that does not wait for the row lock.
CancelMisspelt(h) ==
    /\ api[h].pc = "cancelling"
    /\ ~RowLocked(api[h].note)
    /\ notes' = [notes EXCEPT ![api[h].note].status = "canceled"]
    /\ Done(h)
    /\ UNCHANGED <<outbox, locked, stream, now, faults, answers>>
CancelAlways(h) ==
    /\ api[h].pc = "cancelling"
    /\ ~RowLocked(api[h].note)
    /\ notes' = [notes EXCEPT ![api[h].note].status = "cancelled"]
    /\ Done(h)
    /\ UNCHANGED <<outbox, locked, stream, now, faults, answers>>
CancelUnlocked(h) ==
    /\ api[h].pc = "cancelling"
    /\ notes' = IF notes[api[h].note].status = "scheduled"
                  THEN [notes EXCEPT ![api[h].note].status = "cancelled"]
                  ELSE notes
    /\ Done(h)
    /\ UNCHANGED <<outbox, locked, stream, now, faults, answers>>

\* The guarded UPDATE waits for the row lock, then looks at the status again.
CancelIfScheduled(h) ==
    /\ api[h].pc = "cancelling"
    /\ ~RowLocked(api[h].note)
    /\ notes' = IF notes[api[h].note].status = "scheduled"
                  THEN [notes EXCEPT ![api[h].note].status = "cancelled"]
                  ELSE notes
    /\ Done(h)
    /\ UNCHANGED <<outbox, locked, stream, now, faults, answers>>

-----------------------------------------------------------------------------
(* The process dies, the connection breaks or the client goes away: an     *)
(* open transaction rolls back, and no answer reaches the client.          *)
AbortHandler(h) ==
    /\ api[h].pc # "idle"
    /\ Done(h)
    /\ Fault
    /\ UNCHANGED <<notes, outbox, locked, stream, now, answers>>

ApiNext ==
    \E h \in Handlers :
        \/ ReceiveCreate(h) \/ CheckKey(h) \/ Insert(h) \/ Commit(h)
        \/ Respond(h) \/ Reread(h)
        \/ ReceiveCancel(h) \/ ReadForCancel(h) \/ CancelIfScheduled(h)
        \/ AbortHandler(h)
=============================================================================

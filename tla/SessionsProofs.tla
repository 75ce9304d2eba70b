--------------------------- MODULE SessionsProofs ---------------------------
(***************************************************************************)
(* Proofs about Sessions, for any number of requests at the same time, any *)
(* limits of the rate limiter, and any number of sessions and faults.      *)
(***************************************************************************)
EXTENDS Sessions, TLAPS

-----------------------------------------------------------------------------
(* The inductive invariant.                                                *)

TypeOK ==
    /\ registered \in BOOLEAN
    /\ sessions \in [Tokens -> Rows \cup {None}]
    /\ counter \in Counters
    /\ calls \in [Calls -> CallStates]
    /\ cookie \in Tokens \cup {None}
    /\ crashes \in Nat /\ losses \in Nat
    /\ signedIn \in BOOLEAN

\* A token names a session. What was ended stays so; a refresh that has found its
\* session was sent before that session was ended.
Sound(s) ==
    /\ s.token \in Stored \cup {None}
    /\ s.pc # "done" => s.new = None
    /\ s.new # None => s.op # "logout"
    /\ s.pc \in {"look", "revoke", "create"} => s.token # None
    /\ s.late => s.token # None /\ Ended(s.token)
    /\ s.op = "refresh" /\ s.pc \in {"revoke", "create"} => ~s.late

CallInv == \A c \in Calls : Sound(calls[c])

RowInv ==
    /\ cookie \in Stored \cup {None}
    /\ \A i \in Stored : sessions[i].from \in Stored \cup {None}
    /\ RotationIsWhole

\* A session whose token is on its way to the browser is good: nobody has the
\* token, to refresh it or to log it out.
OnItsWay(c) ==
    /\ calls[c].new \in Stored
    /\ ~sessions[calls[c].new].revoked
    /\ calls[c].new # cookie
    /\ \A d \in Calls : calls[d].token # calls[c].new
    /\ \A d \in Calls \ {c} : calls[d].new # calls[c].new

WayInv == \A c \in Calls : calls[c].new # None => OnItsWay(c)

\* The cookie of a user who is signed in is good, or a new one is on its way.
KeptInv ==
    /\ losses = 0 => \A c \in Calls : ~calls[c].away
    /\ signedIn => \A c \in Calls : calls[c].pc # "idle" => calls[c].op # "logout"
    /\ signedIn /\ losses = 0 =>
         /\ cookie # None
         /\ sessions[cookie].revoked => \E c \in Calls : calls[c].new # None

IInv == TypeOK /\ CallInv /\ RowInv /\ WayInv

-----------------------------------------------------------------------------
(* The fields of the states a request comes to.                            *)

LEMMA NoCallFields ==
    /\ NoCall \in CallStates
    /\ NoCall.pc = "idle" /\ NoCall.token = None /\ NoCall.new = None
    /\ ~NoCall.late /\ ~NoCall.away
BY DEF NoCall, CallStates

LEMMA AnswerFields ==
    ASSUME TypeOK, NEW c \in Calls, NEW status \in {200, 201, 204, 401, 429, 500},
           NEW new \in Tokens \cup {None}, Answer(c, status, new)
    PROVE  /\ calls'[c] \in CallStates
           /\ \A d \in Calls \ {c} : calls'[d] = calls[d]
           /\ calls[c].away => calls'[c] = NoCall
           /\ ~calls[c].away =>
                /\ calls'[c].pc = "done" /\ calls'[c].new = new
                /\ calls'[c].op = calls[c].op
                /\ calls'[c].token = calls[c].token
                /\ calls'[c].late = calls[c].late
                /\ ~calls'[c].away
<1>1. PICK s : s = IF calls[c].away THEN NoCall
                   ELSE [calls[c] EXCEPT !.pc = "done", !.status = status, !.new = new]
  OBVIOUS
<1>2. calls[c] \in CallStates
  BY DEF TypeOK
<1>3. /\ s \in CallStates
      /\ calls[c].away => s = NoCall
      /\ ~calls[c].away =>
           /\ s.pc = "done" /\ s.new = new /\ s.op = calls[c].op
           /\ s.token = calls[c].token /\ s.late = calls[c].late /\ ~s.away
  <2>1. CASE calls[c].away
    BY <1>1, <2>1, NoCallFields
  <2>2. CASE ~calls[c].away
    <3>1. s = [calls[c] EXCEPT !.pc = "done", !.status = status, !.new = new]
      BY <1>1, <2>2
    <3>2. /\ s \in CallStates
          /\ s.pc = "done" /\ s.new = new /\ s.op = calls[c].op
          /\ s.token = calls[c].token /\ s.late = calls[c].late /\ s.away = calls[c].away
      <4>1. PICK x : x = [calls[c] EXCEPT !.pc = "done"]
        OBVIOUS
      <4>2. /\ x \in CallStates
            /\ x.pc = "done" /\ x.op = calls[c].op
            /\ x.token = calls[c].token /\ x.late = calls[c].late /\ x.away = calls[c].away
        BY <1>2, <4>1 DEF CallStates
      <4>3. PICK y : y = [x EXCEPT !.status = status]
        OBVIOUS
      <4>4. /\ y \in CallStates
            /\ y.pc = "done" /\ y.op = x.op
            /\ y.token = x.token /\ y.late = x.late /\ y.away = x.away
        BY <4>2, <4>3 DEF CallStates
      <4>5. PICK z : z = [y EXCEPT !.new = new]
        OBVIOUS
      <4>6. /\ z \in CallStates
            /\ z.pc = "done" /\ z.new = new /\ z.op = y.op
            /\ z.token = y.token /\ z.late = y.late /\ z.away = y.away
        BY <4>4, <4>5 DEF CallStates
      <4>7. s = z
        BY <3>1, <4>1, <4>3, <4>5, Zenon
      <4> QED BY <4>2, <4>4, <4>6, <4>7
    <3> QED BY <2>2, <3>2
  <2> QED BY <2>1, <2>2
<1>4. calls'[c] = s /\ \A d \in Calls \ {c} : calls'[d] = calls[d]
  BY <1>1 DEF Answer, Become, TypeOK
<1> QED BY <1>3, <1>4

LEMMA GotoFields ==
    ASSUME TypeOK, NEW c \in Calls, NEW pc \in {"expire", "work", "revoke", "create"}, Goto(c, pc)
    PROVE  /\ calls'[c] \in CallStates
           /\ \A d \in Calls \ {c} : calls'[d] = calls[d]
           /\ calls'[c].pc = pc
           /\ calls'[c].op = calls[c].op
           /\ calls'[c].token = calls[c].token
           /\ calls'[c].away = calls[c].away
           /\ calls'[c].late = calls[c].late
           /\ calls'[c].new = calls[c].new
<1>1. PICK s : s = [calls[c] EXCEPT !.pc = pc]
  OBVIOUS
<1>2. calls[c] \in CallStates
  BY DEF TypeOK
<1>3. calls'[c] = s /\ \A d \in Calls \ {c} : calls'[d] = calls[d]
  BY <1>1 DEF Goto, Become, TypeOK
<1> QED BY <1>1, <1>2, <1>3 DEF CallStates

LEMMA CallsAreTyped ==
    ASSUME TypeOK, NEW c \in Calls, NEW s \in CallStates, Become(c, s)
    PROVE  /\ calls' \in [Calls -> CallStates]
           /\ calls'[c] = s /\ \A d \in Calls \ {c} : calls'[d] = calls[d]
BY DEF TypeOK, Become

-----------------------------------------------------------------------------
(* Steps that leave the sessions alone.                                    *)

LEMMA SameRows ==
    ASSUME UNCHANGED sessions
    PROVE  Stored' = Stored /\ \A i : Ended(i)' = Ended(i)
BY DEF Stored, Ended

LEMMA SameRowInv ==
    ASSUME RowInv, UNCHANGED <<sessions, cookie>>
    PROVE  RowInv'
BY SameRows DEF RowInv, RotationIsWhole

\* A request goes on without a new token.
LEMMA QuietStep ==
    ASSUME IInv, NEW c \in Calls, UNCHANGED <<sessions, cookie>>,
           \A d \in Calls \ {c} : calls'[d] = calls[d],
           Sound(calls'[c]), calls'[c].new = None,
           calls'[c].token \in {None, calls[c].token, cookie}
    PROVE  CallInv' /\ RowInv' /\ WayInv'
<1>1. Stored' = Stored /\ \A i : Ended(i)' = Ended(i)
  BY SameRows
<1>2. CallInv'
  BY <1>1, Zenon DEF IInv, CallInv, Sound
<1>3. \A d \in Calls : calls'[d].new # None => d # c /\ calls'[d].new = calls[d].new
  OBVIOUS
<1>4. \A d \in Calls : OnItsWay(d) => calls[d].new # None
  BY NoneAssumption DEF OnItsWay, Stored
<1>5. ASSUME NEW d \in Calls, calls'[d].new # None
      PROVE  OnItsWay(d)'
  <2>1. d # c /\ calls'[d].new = calls[d].new /\ OnItsWay(d)
    BY <1>3, <1>5 DEF IInv, WayInv
  <2>2. calls[d].new \in Tokens /\ calls[d].new # None
    BY <1>4, <2>1 DEF OnItsWay, Stored
  <2>3. \A e \in Calls : calls'[e].token # calls[d].new
    BY <2>1, <2>2 DEF OnItsWay
  <2>4. \A e \in Calls \ {d} : calls'[e].new # calls[d].new
    BY <2>1, <2>2 DEF OnItsWay
  <2> QED BY <1>1, <2>1, <2>3, <2>4 DEF OnItsWay
<1>6. WayInv'
  BY <1>5 DEF WayInv
<1> QED BY <1>2, <1>6, SameRowInv DEF IInv

\* An answer without a new token.
LEMMA QuietAnswer ==
    ASSUME IInv, NEW c \in Calls, NEW status \in {200, 201, 204, 401, 429, 500},
           Answer(c, status, None), UNCHANGED <<sessions, cookie>>
    PROVE  CallInv' /\ RowInv' /\ WayInv'
<1>1. /\ \A d \in Calls \ {c} : calls'[d] = calls[d]
      /\ calls[c].away => calls'[c] = NoCall
      /\ ~calls[c].away =>
           /\ calls'[c].pc = "done" /\ calls'[c].new = None
           /\ calls'[c].op = calls[c].op
           /\ calls'[c].token = calls[c].token
           /\ calls'[c].late = calls[c].late
  BY AnswerFields DEF IInv
<1>2. Sound(calls[c])
  BY DEF IInv, CallInv
<1>3. Sound(calls'[c]) /\ calls'[c].new = None /\ calls'[c].token \in {None, calls[c].token}
  <2>1. CASE calls[c].away
    BY <1>1, <2>1, NoCallFields DEF Sound
  <2>2. CASE ~calls[c].away
    BY <1>1, <1>2, <2>2 DEF Sound
  <2> QED BY <2>1, <2>2
<1> QED BY <1>1, <1>3, QuietStep

LEMMA AnswerIsTyped ==
    ASSUME TypeOK, NEW c \in Calls, NEW status \in {200, 201, 204, 401, 429, 500},
           NEW new \in Tokens \cup {None}, Answer(c, status, new)
    PROVE  calls' \in [Calls -> CallStates]
<1>1. PICK s : s = IF calls[c].away THEN NoCall
                   ELSE [calls[c] EXCEPT !.pc = "done", !.status = status, !.new = new]
  OBVIOUS
<1>2. calls' = [calls EXCEPT ![c] = s]
  BY <1>1, Zenon DEF Answer, Become
<1>3. s \in CallStates
  BY <1>2, AnswerFields DEF TypeOK
<1> QED BY <1>2, <1>3 DEF TypeOK

\* A request in service goes on to its next step.
LEMMA QuietGoto ==
    ASSUME IInv, NEW c \in Calls, NEW pc \in {"expire", "work", "revoke", "create"}, Goto(c, pc),
           UNCHANGED <<sessions, cookie>>, Serving(c),
           pc \in {"revoke", "create"} => calls[c].token # None /\ ~calls[c].late
    PROVE  CallInv' /\ RowInv' /\ WayInv' /\ calls' \in [Calls -> CallStates]
<1>1. /\ \A d \in Calls \ {c} : calls'[d] = calls[d]
      /\ calls'[c] \in CallStates
      /\ calls'[c].pc = pc /\ calls'[c].new = calls[c].new
      /\ calls'[c].op = calls[c].op
      /\ calls'[c].token = calls[c].token
      /\ calls'[c].late = calls[c].late
  BY GotoFields DEF IInv
<1>2. Sound(calls[c])
  BY DEF IInv, CallInv
<1>3. Sound(calls'[c]) /\ calls'[c].new = None
  BY <1>1, <1>2 DEF Sound, Serving
<1>4. calls' \in [Calls -> CallStates]
  <2>1. calls' = [calls EXCEPT ![c] = calls'[c]]
    BY DEF Goto, Become, IInv, TypeOK
  <2> QED BY <1>1, <2>1 DEF IInv, TypeOK
<1> QED BY <1>1, <1>3, <1>4, QuietStep

-----------------------------------------------------------------------------
(* Steps that write sessions.                                              *)

\* A session i is made, in the place of f if it is not None.
Made(i, f) ==
    /\ sessions'[i] # None /\ ~sessions'[i].revoked /\ ~sessions'[i].out
    /\ sessions'[i].from = f
    /\ \A j \in Tokens \ {i} : sessions'[j] = None <=> sessions[j] = None
    /\ \A j \in Stored : /\ sessions'[j].from = sessions[j].from
                         /\ sessions'[j].out <=> sessions[j].out
                         /\ sessions'[j].revoked <=> sessions[j].revoked \/ j = f

LEMMA MadeEnds ==
    ASSUME IInv, NEW i \in Fresh, NEW f \in Stored \cup {None}, Made(i, f)
    PROVE  /\ i \in Tokens \ Stored /\ Stored' = Stored \cup {i}
           /\ i # None
           /\ \A j \in Stored : Ended(j)' <=> Ended(j) \/ j = f
           /\ ~Ended(i)'
<1>1. i \in Tokens \ Stored /\ i # None /\ f # i
  BY NoneAssumption DEF Fresh
<1>2. Stored' = Stored \cup {i}
  BY <1>1 DEF Made, Stored
<1>3. \A j \in Stored : sessions[j].from \in Stored \cup {None} /\ sessions'[j].from = sessions[j].from
  BY DEF Made, IInv, RowInv
<1>4. ASSUME NEW j \in Stored
      PROVE  Ended(j)' <=> Ended(j) \/ j = f
  <2>1. (sessions'[j].out <=> sessions[j].out) /\ sessions'[i].from = f
    BY DEF Made
  <2>2. (\E k \in Stored' : sessions'[k].from = j) <=> (\E k \in Stored : sessions[k].from = j) \/ j = f
    BY <1>2, <1>3, <2>1
  <2> QED BY <2>1, <2>2 DEF Ended
<1>5. ~Ended(i)'
  <2>1. \A k \in Stored' : sessions'[k].from # i
    BY <1>1, <1>2, <1>3 DEF Made
  <2> QED BY <2>1 DEF Ended, Made
<1> QED BY <1>1, <1>2, <1>4, <1>5

LEMMA MadeStep ==
    ASSUME IInv, NEW c \in Calls, NEW i \in Fresh, NEW f \in Stored \cup {None}, Made(i, f),
           f # None => calls[c].token = f,
           Answer(c, 200, i), UNCHANGED cookie, calls[c].op # "logout"
    PROVE  CallInv' /\ RowInv' /\ WayInv'
<1>1. /\ i \in Tokens \ Stored /\ Stored' = Stored \cup {i} /\ i # None
      /\ \A j \in Stored : Ended(j)' <=> Ended(j) \/ j = f
      /\ ~Ended(i)'
  BY MadeEnds
<1>2. /\ \A d \in Calls \ {c} : calls'[d] = calls[d]
      /\ calls[c].away => calls'[c] = NoCall
      /\ ~calls[c].away =>
           /\ calls'[c].pc = "done" /\ calls'[c].new = i
           /\ calls'[c].op = calls[c].op
           /\ calls'[c].token = calls[c].token
           /\ calls'[c].late = calls[c].late
  BY <1>1, AnswerFields DEF IInv
<1>3. RowInv'
  <2>1. cookie' \in Stored' \cup {None}
    BY <1>1 DEF IInv, RowInv
  <2>2. \A j \in Stored' : sessions'[j].from \in Stored' \cup {None}
    BY <1>1 DEF IInv, RowInv, Made
  <2>3. \A j \in Stored' : sessions'[j].revoked <=> Ended(j)'
    BY <1>1 DEF IInv, RowInv, RotationIsWhole, Made
  <2> QED BY <2>1, <2>2, <2>3 DEF RowInv, RotationIsWhole
<1>4. CallInv'
  <2>1. ASSUME NEW d \in Calls, d # c
        PROVE  Sound(calls[d])'
    BY <1>1, <1>2, <2>1 DEF IInv, CallInv, Sound
  <2>2. Sound(calls[c])'
    <3>1. CASE calls[c].away
      BY <1>1, <1>2, <3>1, NoCallFields DEF Sound
    <3>2. CASE ~calls[c].away
      BY <1>1, <1>2, <3>2 DEF IInv, CallInv, Sound
    <3> QED BY <3>1, <3>2
  <2> QED BY <2>1, <2>2 DEF CallInv
<1>5. /\ \A d \in Calls : calls'[d].token \in {calls[d].token, None}
      /\ \A d \in Calls \ {c} : calls'[d].new = calls[d].new
      /\ calls'[c].new \in {i, None}
  <2>1. CASE calls[c].away
    BY <1>2, <2>1, NoCallFields
  <2>2. CASE ~calls[c].away
    BY <1>2, <2>2
  <2> QED BY <2>1, <2>2
<1>6. /\ \A d \in Calls : calls[d].token \in Stored \cup {None}
      /\ \A d \in Calls : calls[d].new \in Stored \cup {None}
      /\ cookie \in Stored \cup {None}
  BY DEF IInv, CallInv, RowInv, WayInv, OnItsWay, Sound
<1>7. ASSUME NEW d \in Calls, d # c, calls'[d].new # None
      PROVE  OnItsWay(d)'
  <2>1. OnItsWay(d) /\ calls'[d].new = calls[d].new
    BY <1>5, <1>7 DEF IInv, WayInv
  <2>2. calls[d].new \in Stored /\ calls[d].new # i /\ calls[d].new # None
    BY <1>1, <2>1, NoneAssumption DEF OnItsWay, Stored
  <2>3. calls[d].new # f
    BY <2>1, <2>2 DEF OnItsWay
  <2>4. ~sessions'[calls[d].new].revoked
    BY <2>1, <2>2, <2>3 DEF OnItsWay, Made
  <2>5. \A e \in Calls : calls'[e].token # calls[d].new
    BY <1>5, <2>1, <2>2 DEF OnItsWay
  <2>6. \A e \in Calls \ {d} : calls'[e].new # calls[d].new
    BY <1>5, <2>1, <2>2 DEF OnItsWay
  <2> QED BY <1>1, <2>1, <2>2, <2>4, <2>5, <2>6 DEF OnItsWay
<1>8. ASSUME calls'[c].new # None
      PROVE  OnItsWay(c)'
  <2>1. calls'[c].new = i
    BY <1>5, <1>8
  <2>2. \A e \in Calls : calls'[e].token # i
    BY <1>1, <1>5, <1>6
  <2>3. \A e \in Calls \ {c} : calls'[e].new # i
    BY <1>1, <1>5, <1>6
  <2>4. ~sessions'[i].revoked /\ i # cookie
    BY <1>1, <1>6 DEF Made
  <2> QED BY <1>1, <2>1, <2>2, <2>3, <2>4 DEF OnItsWay
<1> QED BY <1>3, <1>4, <1>7, <1>8 DEF WayInv

\* The rows login and refresh leave.
LEMMA NewRowFields ==
    ASSUME NEW f \in Tokens \cup {None}
    PROVE  /\ NewRow(f) \in Rows /\ NewRow(f) # None
           /\ ~NewRow(f).revoked /\ ~NewRow(f).out /\ NewRow(f).from = f
<1>1. NewRow(f) \in Rows
  BY DEF NewRow, Rows
<1>2. NewRow(f).revoked = FALSE /\ NewRow(f).out = FALSE /\ NewRow(f).from = f
  BY DEF NewRow
<1> QED BY <1>1, <1>2, NoneAssumption

LEMMA LoginMakes ==
    ASSUME IInv, NEW i \in Fresh, sessions' = [sessions EXCEPT ![i] = NewRow(None)]
    PROVE  Made(i, None) /\ sessions' \in [Tokens -> Rows \cup {None}]
<1>1. i \in Tokens \ Stored
  BY DEF Fresh
<1>2. /\ sessions'[i] = NewRow(None) /\ \A j \in Tokens \ {i} : sessions'[j] = sessions[j]
      /\ sessions' \in [Tokens -> Rows \cup {None}]
  BY <1>1, NewRowFields DEF IInv, TypeOK
<1>3. \A j \in Stored : j \in Tokens /\ j # i /\ j # None
  BY <1>1, NoneAssumption DEF Stored
<1> QED BY <1>2, <1>3, NewRowFields DEF Made

LEMMA RotateMakes ==
    ASSUME IInv, NEW i \in Fresh, NEW t \in Stored,
           sessions' = [sessions EXCEPT ![t].revoked = TRUE, ![i] = NewRow(t)]
    PROVE  Made(i, t) /\ sessions' \in [Tokens -> Rows \cup {None}]
<1>1. i \in Tokens \ Stored /\ t \in Tokens /\ t # i
  BY DEF Fresh, Stored
<1>2. sessions[t] \in Rows
  BY DEF Stored, IInv, TypeOK
<1>3. PICK r : r = [sessions[t] EXCEPT !.revoked = TRUE]
  OBVIOUS
<1>4. r \in Rows /\ r.revoked /\ r.from = sessions[t].from /\ r.out = sessions[t].out
  BY <1>2, <1>3 DEF Rows
<1>5. r # None
  BY <1>4, NoneAssumption
<1>6. sessions' = [[sessions EXCEPT ![t] = r] EXCEPT ![i] = NewRow(t)]
  BY <1>3, Zenon
<1>7. /\ sessions'[i] = NewRow(t) /\ sessions'[t] = r
      /\ \A j \in Tokens \ {i, t} : sessions'[j] = sessions[j]
      /\ sessions' \in [Tokens -> Rows \cup {None}]
  BY <1>1, <1>4, <1>6, NewRowFields DEF IInv, TypeOK
<1>8. \A j \in Stored : j \in Tokens /\ j # i
  BY <1>1 DEF Stored
<1>9. \A j \in Tokens \ {i} : sessions'[j] = None <=> sessions[j] = None
  BY <1>5, <1>7 DEF Stored
<1>10. \A j \in Stored : /\ sessions'[j].from = sessions[j].from
                         /\ sessions'[j].out <=> sessions[j].out
                         /\ sessions'[j].revoked <=> sessions[j].revoked \/ j = t
  BY <1>4, <1>7, <1>8
<1> QED BY <1>1, <1>7, <1>9, <1>10, NewRowFields DEF Made

LEMMA LoginStep ==
    ASSUME IInv, NEW c \in Calls, Login(c)
    PROVE  IInv'
<1>1. CASE Answer(c, 401, None) /\ UNCHANGED sessions
  BY <1>1, QuietAnswer, AnswerIsTyped DEF Login, IInv, TypeOK
<1>2. CASE \E i \in Fresh : /\ sessions' = [sessions EXCEPT ![i] = NewRow(None)]
                            /\ Answer(c, 200, i)
  <2>1. PICK i \in Fresh : /\ sessions' = [sessions EXCEPT ![i] = NewRow(None)]
                           /\ Answer(c, 200, i)
    BY <1>2
  <2>2. Made(i, None) /\ sessions' \in [Tokens -> Rows \cup {None}]
    BY <2>1, LoginMakes
  <2>3. UNCHANGED <<registered, counter, cookie, crashes, losses, signedIn>>
    BY DEF Login
  <2>4. CallInv' /\ RowInv' /\ WayInv'
    BY <2>1, <2>2, <2>3, MadeStep DEF Login, Is
  <2>5. calls' \in [Calls -> CallStates]
    BY <2>1, AnswerIsTyped DEF Fresh, IInv
  <2> QED BY <2>2, <2>3, <2>4, <2>5 DEF IInv, TypeOK
<1> QED BY <1>1, <1>2 DEF Login

LEMMA RotateStep ==
    ASSUME IInv, NEW c \in Calls, Rotate(c)
    PROVE  IInv'
<1>1. PICK i \in Fresh :
        /\ sessions' = [sessions EXCEPT ![calls[c].token].revoked = TRUE,
                                        ![i] = NewRow(calls[c].token)]
        /\ Answer(c, 200, i)
  BY DEF Rotate
<1>2. calls[c].token \in Stored
  BY DEF Rotate, Is, IInv, CallInv, Sound
<1>3. Made(i, calls[c].token) /\ sessions' \in [Tokens -> Rows \cup {None}]
  BY <1>1, <1>2, RotateMakes
<1>4. UNCHANGED <<registered, counter, cookie, crashes, losses, signedIn>>
  BY DEF Rotate
<1>5. CallInv' /\ RowInv' /\ WayInv'
  BY <1>1, <1>2, <1>3, <1>4, MadeStep DEF Rotate, Is
<1>6. calls' \in [Calls -> CallStates]
  BY <1>1, AnswerIsTyped DEF Fresh, IInv
<1> QED BY <1>3, <1>4, <1>5, <1>6 DEF IInv, TypeOK

\* The one row a logout writes.
LEMMA LogoutWrites ==
    ASSUME IInv, NEW c \in Calls, Logout(c)
    PROVE  /\ calls[c].token \in Stored
           /\ sessions' \in [Tokens -> Rows \cup {None}]
           /\ Stored' = Stored
           /\ \A i \in Stored : sessions'[i].from = sessions[i].from
           /\ \A i \in Stored \ {calls[c].token} : sessions'[i] = sessions[i]
           /\ sessions'[calls[c].token].revoked
           /\ sessions'[calls[c].token].out <=>
                sessions[calls[c].token].out \/ ~sessions[calls[c].token].revoked
<1>1. PICK t : t = calls[c].token
  OBVIOUS
<1>2. t \in Stored /\ t \in Tokens /\ sessions[t] \in Rows
  BY <1>1 DEF Logout, Is, IInv, CallInv, Sound, Stored, TypeOK
<1>3. sessions' = [sessions EXCEPT ![t].out = @ \/ ~sessions[t].revoked, ![t].revoked = TRUE]
  BY <1>1 DEF Logout
<1>4. PICK r : r = [sessions[t] EXCEPT !.out = @ \/ ~sessions[t].revoked]
  OBVIOUS
<1>5. /\ r \in Rows /\ r.from = sessions[t].from
      /\ r.out <=> sessions[t].out \/ ~sessions[t].revoked
  BY <1>2, <1>4 DEF Rows
<1>6. PICK q : q = [r EXCEPT !.revoked = TRUE]
  OBVIOUS
<1>7. q \in Rows /\ q.from = r.from /\ q.out = r.out /\ q.revoked
  BY <1>5, <1>6 DEF Rows
<1>8. sessions' \in [Tokens -> Rows \cup {None}] /\ sessions'[t] = q
      /\ \A i \in Tokens \ {t} : sessions'[i] = sessions[i]
  <2>1. PICK x : x = [sessions EXCEPT ![t] = r]
    OBVIOUS
  <2>2. x \in [Tokens -> Rows \cup {None}] /\ x[t] = r /\ \A i \in Tokens \ {t} : x[i] = sessions[i]
    BY <1>2, <1>5, <2>1 DEF IInv, TypeOK
  <2>3. x = [sessions EXCEPT ![t].out = @ \/ ~sessions[t].revoked]
    BY <1>4, <2>1, Zenon
  <2>4. sessions' = [x EXCEPT ![t].revoked = TRUE]
    BY <1>3, <2>3, Zenon
  <2>5. sessions' = [x EXCEPT ![t] = q]
    BY <1>6, <2>2, <2>4
  <2> QED BY <1>2, <1>7, <2>2, <2>5
<1>9. \A i \in Stored : i \in Tokens
  BY DEF Stored
<1>10. Stored' = Stored
  BY <1>2, <1>7, <1>8, NoneAssumption DEF Stored
<1> QED BY <1>1, <1>2, <1>5, <1>7, <1>8, <1>9, <1>10

LEMMA LogoutStep ==
    ASSUME IInv, NEW c \in Calls, Logout(c)
    PROVE  IInv'
<1>1. PICK t : t = calls[c].token
  OBVIOUS
<1>2. /\ t \in Stored
      /\ sessions' \in [Tokens -> Rows \cup {None}]
      /\ Stored' = Stored
      /\ \A i \in Stored : sessions'[i].from = sessions[i].from
      /\ \A i \in Stored \ {t} : sessions'[i] = sessions[i]
      /\ sessions'[t].revoked
      /\ sessions'[t].out <=> sessions[t].out \/ ~sessions[t].revoked
  BY <1>1, LogoutWrites
<1>3. Answer(c, 204, None) /\ UNCHANGED <<registered, counter, cookie, crashes, losses, signedIn>>
  BY DEF Logout
<1>4. /\ \A d \in Calls \ {c} : calls'[d] = calls[d]
      /\ calls[c].away => calls'[c] = NoCall
      /\ ~calls[c].away =>
           /\ calls'[c].pc = "done" /\ calls'[c].new = None
           /\ calls'[c].op = calls[c].op
           /\ calls'[c].token = calls[c].token
           /\ calls'[c].late = calls[c].late
  BY <1>3, AnswerFields DEF IInv
<1>5. \A i \in Stored : Ended(i) => Ended(i)'
  BY <1>2 DEF Ended
<1>6. \A i \in Stored \ {t} : Ended(i)' => Ended(i)
  BY <1>2 DEF Ended
<1>7. Ended(t)'
  <2>1. sessions[t].revoked => Ended(t)
    BY <1>2 DEF IInv, RowInv, RotationIsWhole
  <2>2. sessions'[t].out => Ended(t)'
    BY DEF Ended
  <2> QED BY <1>2, <1>5, <2>1, <2>2
<1>8. RowInv'
  <2>1. \A i \in Stored : sessions'[i].revoked <=> Ended(i)'
    BY <1>2, <1>5, <1>6, <1>7 DEF IInv, RowInv, RotationIsWhole
  <2> QED BY <1>2, <1>3, <2>1 DEF IInv, RowInv, RotationIsWhole
<1>9. CallInv'
  <2>1. ASSUME NEW d \in Calls, d # c
        PROVE  Sound(calls[d])'
    BY <1>2, <1>4, <1>5, <2>1 DEF IInv, CallInv, Sound
  <2>2. Sound(calls[c])'
    <3>1. CASE calls[c].away
      BY <1>4, <3>1, NoCallFields DEF Sound
    <3>2. CASE ~calls[c].away
      BY <1>2, <1>4, <1>5, <3>2 DEF IInv, CallInv, Sound
    <3> QED BY <3>1, <3>2
  <2> QED BY <2>1, <2>2 DEF CallInv
<1>10. /\ \A d \in Calls : calls'[d].token \in {calls[d].token, None}
       /\ \A d \in Calls \ {c} : calls'[d].new = calls[d].new
       /\ calls'[c].new = None
  <2>1. CASE calls[c].away
    BY <1>4, <2>1, NoCallFields
  <2>2. CASE ~calls[c].away
    BY <1>4, <2>2
  <2> QED BY <2>1, <2>2
<1>11. ASSUME NEW d \in Calls, calls'[d].new # None
       PROVE  OnItsWay(d)'
  <2>1. d # c /\ OnItsWay(d) /\ calls'[d].new = calls[d].new
    BY <1>10, <1>11 DEF IInv, WayInv
  <2>2. calls[d].new \in Stored \ {t} /\ calls[d].new # None
    BY <1>1, <2>1, NoneAssumption DEF OnItsWay, Stored
  <2>3. \A e \in Calls : calls'[e].token # calls[d].new
    BY <1>10, <2>1, <2>2 DEF OnItsWay
  <2>4. \A e \in Calls \ {d} : calls'[e].new # calls[d].new
    BY <1>10, <2>1, <2>2 DEF OnItsWay
  <2> QED BY <1>2, <1>3, <2>1, <2>2, <2>3, <2>4 DEF OnItsWay
<1>12. calls' \in [Calls -> CallStates]
  BY <1>3, AnswerIsTyped DEF IInv
<1> QED BY <1>2, <1>3, <1>8, <1>9, <1>11, <1>12 DEF IInv, TypeOK, WayInv

-----------------------------------------------------------------------------
(* The other steps.                                                        *)

LEMMA HitsTyped ==
    ASSUME TypeOK
    PROVE  /\ Hits \in 1 .. LoginLimit + 1
           /\ Hit => counter' \in Counters /\ counter'.count = Hits /\ counter'.ttl = counter.ttl
<1>1. counter.count \in 0 .. LoginLimit + 1 /\ LoginLimit \in Nat \ {0}
  BY BoundsAssumption DEF TypeOK, Counters
<1>2. Hits \in 1 .. LoginLimit + 1
  BY <1>1 DEF Hits, Least
<1>3. ASSUME Hit
      PROVE  counter' \in Counters /\ counter'.count = Hits /\ counter'.ttl = counter.ttl
  BY <1>2, <1>3 DEF Hit, TypeOK, Counters
<1> QED BY <1>2, <1>3

LEMMA LimiterStep ==
    ASSUME IInv, NEW c \in Calls, Count(c) \/ SetExpiry(c)
    PROVE  IInv'
<1>1. CASE Count(c)
  <2>1. counter' \in Counters
    BY <1>1, HitsTyped DEF Count, IInv
  <2>2. UNCHANGED <<registered, sessions, cookie, crashes, losses, signedIn>>
    BY <1>1 DEF Count, authVars
  <2>3. CASE \E pc \in {"expire", "work"} : Goto(c, pc)
    BY <1>1, <2>1, <2>2, <2>3, QuietGoto DEF Count, Is, Serving, IInv, TypeOK
  <2>4. CASE Answer(c, 429, None)
    BY <2>1, <2>2, <2>4, QuietAnswer, AnswerIsTyped DEF IInv, TypeOK
  <2> QED BY <1>1, <2>3, <2>4 DEF Count
<1>2. CASE SetExpiry(c)
  <2>1. counter' \in Counters
    <3>1. PICK b : b = (counter.count > 0)
      OBVIOUS
    <3>2. b \in BOOLEAN
      BY <3>1
    <3>3. counter' = [counter EXCEPT !.ttl = b]
      BY <1>2, <3>1 DEF SetExpiry
    <3> QED BY <3>2, <3>3 DEF IInv, TypeOK, Counters
  <2>2. UNCHANGED <<registered, sessions, cookie, crashes, losses, signedIn>>
    BY <1>2 DEF SetExpiry, authVars
  <2>3. Goto(c, "work") /\ Serving(c)
    BY <1>2 DEF SetExpiry, Serving
  <2> QED BY <2>1, <2>2, <2>3, QuietGoto DEF IInv, TypeOK
<1> QED BY <1>1, <1>2

LEMMA LookUpStep ==
    ASSUME IInv, NEW c \in Calls, LookUp(c) \/ Revoke(c)
    PROVE  IInv'
<1>1. UNCHANGED <<registered, sessions, counter, cookie, crashes, losses, signedIn>>
  BY DEF LookUp, Revoke, authVars
<1>2. Sound(calls[c])
  BY DEF IInv, CallInv
<1>3. CASE LookUp(c)
  <2>1. CASE Answer(c, 401, None)
    BY <1>1, <2>1, QuietAnswer, AnswerIsTyped DEF IInv, TypeOK
  <2>2. CASE ~sessions[calls[c].token].revoked /\ Goto(c, "revoke")
    <3>1. calls[c].pc = "look" /\ calls[c].token \in Stored /\ calls[c].token # None
      BY <1>2, <1>3 DEF LookUp, Is, Sound
    <3>2. ~Ended(calls[c].token)
      BY <2>2, <3>1 DEF IInv, RowInv, RotationIsWhole
    <3>3. ~calls[c].late
      BY <1>2, <3>2 DEF Sound
    <3> QED BY <1>1, <2>2, <3>1, <3>3, QuietGoto DEF Serving, IInv, TypeOK
  <2> QED BY <1>3, <2>1, <2>2 DEF LookUp
<1>4. CASE Revoke(c)
  <2>1. /\ calls[c].pc = "revoke" /\ calls[c].token # None /\ ~calls[c].late
        /\ Goto(c, "create")
    BY <1>2, <1>4 DEF Revoke, Is, Sound
  <2> QED BY <1>1, <2>1, QuietGoto DEF Serving, IInv, TypeOK
<1> QED BY <1>3, <1>4

LEMMA AnswerOnlyStep ==
    ASSUME IInv, NEW c \in Calls, Register(c) \/ Fail(c)
    PROVE  IInv'
<1>1. PICK status \in {200, 201, 204, 401, 429, 500} : Answer(c, status, None)
  BY DEF Register, Fail
<1>2. UNCHANGED <<sessions, counter, cookie, losses, signedIn>>
  BY DEF Register, Fail, authVars
<1>3. registered' \in BOOLEAN /\ crashes' \in Nat
  <2>1. registered \in BOOLEAN /\ crashes \in Nat
    BY DEF IInv, TypeOK
  <2>2. CASE Register(c)
    <3>1. registered' = registered \/ registered' = TRUE
      BY <2>2 DEF Register
    <3>2. crashes' = crashes
      BY <2>2 DEF Register
    <3> QED BY <2>1, <3>1, <3>2
  <2>3. CASE Fail(c)
    <3>1. registered' = registered
      BY <2>3 DEF Fail, authVars
    <3>2. crashes' = crashes \/ crashes' = crashes + 1
      BY <2>3 DEF Fail
    <3>3. crashes' \in Nat
      BY <2>1, <3>2
    <3> QED BY <2>1, <3>1, <3>3
  <2> QED BY <2>2, <2>3
<1> QED BY <1>1, <1>2, <1>3, QuietAnswer, AnswerIsTyped DEF IInv, TypeOK

\* What a request is when it is sent.
LEMMA RequestFields ==
    ASSUME IInv, NEW r \in Requests
    PROVE  /\ r \in CallStates /\ Sound(r) /\ r.new = None
           /\ r.token \in {None, cookie} /\ ~r.away
<1>1. cookie \in Stored \cup {None} /\ cookie \in Tokens \cup {None}
  BY DEF IInv, RowInv, TypeOK
<1>2. ASSUME NEW op \in {"register", "login", "refresh", "logout"},
             NEW first \in {"limit", "work", "look", "revoke"},
             NEW token \in {None, cookie}, r = New(op, first, token),
             first \in {"look", "revoke"} => token # None,
             ~(op = "refresh" /\ first = "revoke")
      PROVE  /\ r \in CallStates /\ Sound(r) /\ r.new = None
             /\ r.token \in {None, cookie} /\ ~r.away
  <2>1. PICK late : late = (token # None /\ Ended(token))
    OBVIOUS
  <2>2. late \in BOOLEAN
    BY <2>1
  <2>3. r = [pc |-> first, op |-> op, token |-> token, away |-> FALSE, late |-> late,
             status |-> None, new |-> None]
    BY <1>2, <2>1 DEF New, NoCall
  <2>4. r \in CallStates
    BY <1>1, <2>2, <2>3 DEF CallStates
  <2>5. /\ r.pc = first /\ r.op = op /\ r.token = token /\ r.late = late
        /\ r.new = None /\ r.away = FALSE
    BY <2>3
  <2>6. r.late => token # None /\ Ended(token)
    BY <2>1, <2>5
  <2>7. Sound(r)
    BY <1>1, <1>2, <2>5, <2>6 DEF Sound
  <2> QED BY <2>4, <2>5, <2>7
<1>3. ASSUME NEW op \in {"refresh", "logout"}, NEW status \in {401, 204}, r = ByGateway(op, status)
      PROVE  /\ r \in CallStates /\ Sound(r) /\ r.new = None
             /\ r.token \in {None, cookie} /\ ~r.away
  <2>1. r = [pc |-> "done", op |-> op, token |-> None, away |-> FALSE, late |-> FALSE,
             status |-> status, new |-> None]
    BY <1>3 DEF ByGateway, NoCall
  <2>2. r \in CallStates
    BY <2>1 DEF CallStates
  <2> QED BY <2>1, <2>2 DEF Sound
<1> QED BY <1>2, <1>3 DEF Requests

LEMMA SendStep ==
    ASSUME IInv, NEW c \in Calls, Send(c)
    PROVE  IInv'
<1>1. PICK r \in Requests : Become(c, r) /\ signedIn' = (signedIn /\ r.op # "logout")
  BY DEF Send
<1>2. /\ r \in CallStates /\ Sound(r) /\ r.new = None /\ r.token \in {None, cookie}
  BY RequestFields
<1>3. /\ calls' \in [Calls -> CallStates]
      /\ calls'[c] = r /\ \A d \in Calls \ {c} : calls'[d] = calls[d]
  BY <1>1, <1>2, CallsAreTyped DEF IInv
<1>4. UNCHANGED <<registered, sessions, counter, cookie, crashes, losses>>
  BY DEF Send, authVars
<1>5. signedIn' \in BOOLEAN
  BY <1>1
<1>6. CallInv' /\ RowInv' /\ WayInv'
  BY <1>2, <1>3, <1>4, QuietStep
<1> QED BY <1>3, <1>4, <1>5, <1>6 DEF IInv, TypeOK

\* A request nobody waits for any more.
LEMMA LoseFields ==
    ASSUME TypeOK, NEW c \in Calls, Lose(c)
    PROVE  /\ calls' \in [Calls -> CallStates]
           /\ \A d \in Calls \ {c} : calls'[d] = calls[d]
           /\ calls[c].pc = "done" => calls'[c] = NoCall
           /\ calls[c].pc # "done" =>
                /\ calls'[c].pc = calls[c].pc /\ calls'[c].new = calls[c].new
                /\ calls'[c].op = calls[c].op
                /\ calls'[c].token = calls[c].token
                /\ calls'[c].late = calls[c].late
<1>1. calls[c] \in CallStates
  BY DEF TypeOK
<1>b. PICK b \in BOOLEAN : b = TRUE
  OBVIOUS
<1>2. PICK s : b = TRUE /\ s = [calls[c] EXCEPT !.away = b]
  BY <1>b
<1>3. /\ s \in CallStates
      /\ s.pc = calls[c].pc /\ s.new = calls[c].new /\ s.op = calls[c].op
      /\ s.token = calls[c].token /\ s.late = calls[c].late
  <2>1. s \in CallStates
    <3>1. PICK r : r = calls[c]
      OBVIOUS
    <3>2. r \in CallStates /\ s = [r EXCEPT !.away = b]
      BY <1>1, <1>2, <3>1
    <3> QED BY <3>2 DEF CallStates
  <2>2. s.pc = calls[c].pc /\ s.new = calls[c].new /\ s.op = calls[c].op
    BY <1>1, <1>2 DEF CallStates
  <2>3. s.token = calls[c].token /\ s.late = calls[c].late
    BY <1>1, <1>2 DEF CallStates
  <2> QED BY <2>1, <2>2, <2>3
<1>4. CASE calls[c].pc = "done"
  <2>1. Become(c, NoCall)
    BY <1>4 DEF Lose
  <2> QED BY <1>4, <2>1, NoCallFields, CallsAreTyped
<1>5. CASE calls[c].pc # "done"
  <2>1. Become(c, s)
    BY <1>2, <1>5 DEF Lose
  <2> QED BY <1>3, <1>5, <2>1, CallsAreTyped
<1> QED BY <1>4, <1>5

LEMMA LoseStep ==
    ASSUME IInv, NEW c \in Calls, Lose(c)
    PROVE  IInv'
<1>1. UNCHANGED <<registered, sessions, counter, cookie, crashes, signedIn>> /\ losses' \in Nat
  BY DEF Lose, authVars, IInv, TypeOK
<1>2. Sound(calls[c])
  BY DEF IInv, CallInv
<1>3. Sound(calls'[c]) /\ calls'[c].new = None /\ calls'[c].token \in {None, calls[c].token}
  <2>1. CASE calls[c].pc = "done"
    BY <2>1, LoseFields, NoCallFields DEF Sound, IInv
  <2>2. CASE calls[c].pc # "done"
    BY <1>2, <2>2, LoseFields DEF Sound, IInv
  <2> QED BY <2>1, <2>2
<1>4. CallInv' /\ RowInv' /\ WayInv'
  BY <1>1, <1>3, LoseFields, QuietStep DEF IInv
<1> QED BY <1>1, <1>4, LoseFields DEF IInv, TypeOK

\* The browser takes the cookie of an answer.
LEMMA RespondStep ==
    ASSUME IInv, NEW c \in Calls, Respond(c)
    PROVE  IInv' /\ (calls[c].new # None => cookie' = calls[c].new)
<1>1. /\ calls' \in [Calls -> CallStates]
      /\ calls'[c] = NoCall /\ \A d \in Calls \ {c} : calls'[d] = calls[d]
  BY NoCallFields, CallsAreTyped DEF Respond, IInv
<1>2. UNCHANGED <<registered, sessions, counter, crashes, losses>>
  BY DEF Respond, authVars
<1>3. signedIn' \in BOOLEAN
  BY DEF Respond
<1>4. /\ cookie' \in {calls[c].new, None, cookie}
      /\ calls[c].new # None => cookie' = calls[c].new
  <2>1. cookie' = NewCookie(c)
    BY DEF Respond
  <2>2. CASE calls[c].new # None
    <3>1. calls[c].op # "logout"
      BY <2>2 DEF IInv, CallInv, Sound
    <3> QED BY <2>1, <2>2, <3>1 DEF NewCookie
  <2>3. CASE calls[c].new = None
    BY <2>1, <2>3 DEF NewCookie
  <2> QED BY <2>2, <2>3
<1>5. Stored' = Stored /\ \A i : Ended(i)' = Ended(i)
  BY <1>2, SameRows
<1>6. /\ cookie \in Stored \cup {None}
      /\ calls[c].new \in Stored \cup {None}
  BY DEF IInv, RowInv, WayInv, OnItsWay
<1>7. RowInv'
  BY <1>2, <1>4, <1>5, <1>6 DEF IInv, RowInv, RotationIsWhole
<1>8. CallInv'
  <2>1. Sound(calls'[c])
    BY <1>1, NoCallFields DEF Sound
  <2> QED BY <1>1, <1>5, <2>1, Zenon DEF IInv, CallInv, Sound
<1>9. ASSUME NEW d \in Calls, calls'[d].new # None
      PROVE  OnItsWay(d)'
  <2>1. d # c /\ OnItsWay(d) /\ calls'[d].new = calls[d].new
    BY <1>1, <1>9, NoCallFields DEF IInv, WayInv
  <2>2. calls[d].new \in Stored /\ calls[d].new # None
    BY <2>1, NoneAssumption DEF OnItsWay, Stored
  <2>3. calls[c].new # calls[d].new
    BY <2>1 DEF OnItsWay
  <2>4. cookie' # calls[d].new
    BY <1>4, <2>1, <2>2, <2>3 DEF OnItsWay
  <2>5. \A e \in Calls : calls'[e].token # calls[d].new
    BY <1>1, <2>1, <2>2, NoCallFields DEF OnItsWay
  <2>6. \A e \in Calls \ {d} : calls'[e].new # calls[d].new
    BY <1>1, <2>1, <2>2, NoCallFields DEF OnItsWay
  <2> QED BY <1>2, <1>5, <2>1, <2>4, <2>5, <2>6 DEF OnItsWay
<1>10. cookie' \in Tokens \cup {None}
  BY <1>4, <1>6 DEF Stored
<1> QED BY <1>1, <1>2, <1>3, <1>4, <1>7, <1>8, <1>9, <1>10 DEF IInv, TypeOK, WayInv

\* What a crash leaves of a request.
LEMMA CrashFields ==
    ASSUME TypeOK, Crash, NEW c \in Calls
    PROVE  /\ calls'[c] \in CallStates
           /\ ~Serving(c) => calls'[c] = calls[c]
           /\ Serving(c) /\ calls[c].away => calls'[c] = NoCall
           /\ Serving(c) /\ ~calls[c].away =>
                /\ calls'[c].pc = "done" /\ calls'[c].new = calls[c].new
                /\ calls'[c].op = calls[c].op
                /\ calls'[c].token = calls[c].token
                /\ calls'[c].late = calls[c].late
                /\ calls'[c].away = calls[c].away
<1>1. calls[c] \in CallStates
  BY DEF TypeOK
<1>2. calls'[c] = IF ~Serving(c) THEN calls[c] ELSE IF calls[c].away THEN NoCall
                  ELSE [calls[c] EXCEPT !.pc = "done", !.status = 502]
  BY DEF Crash
<1>3. CASE ~Serving(c)
  BY <1>1, <1>2, <1>3
<1>4. CASE Serving(c) /\ calls[c].away
  BY <1>2, <1>4, NoCallFields
<1>5. CASE Serving(c) /\ ~calls[c].away
  <2>1. PICK r : r = calls[c]
    OBVIOUS
  <2>2. PICK s : s = [r EXCEPT !.pc = "done"]
    OBVIOUS
  <2>3. /\ s \in CallStates
        /\ s.pc = "done" /\ s.new = r.new /\ s.op = r.op
        /\ s.token = r.token /\ s.late = r.late /\ s.away = r.away
    BY <1>1, <2>1, <2>2 DEF CallStates
  <2>4. PICK q : q = [s EXCEPT !.status = 502]
    OBVIOUS
  <2>5. /\ q \in CallStates
        /\ q.pc = "done" /\ q.new = s.new /\ q.op = s.op
        /\ q.token = s.token /\ q.late = s.late /\ q.away = s.away
    BY <2>3, <2>4 DEF CallStates
  <2>6. calls'[c] = [calls[c] EXCEPT !.pc = "done", !.status = 502]
    BY <1>2, <1>5
  <2>7. calls'[c] = q
    BY <2>1, <2>2, <2>4, <2>6, Zenon
  <2> QED BY <1>5, <2>1, <2>3, <2>5, <2>7
<1> QED BY <1>3, <1>4, <1>5

LEMMA CrashStep ==
    ASSUME IInv, Crash
    PROVE  IInv'
<1>1. UNCHANGED <<registered, sessions, counter, cookie, losses, signedIn>> /\ crashes' \in Nat
  <2>1. crashes' = crashes + 1 /\ crashes \in Nat
    BY DEF Crash, IInv, TypeOK
  <2>2. UNCHANGED <<authVars, counter, cookie, losses, signedIn>>
    BY DEF Crash
  <2> QED BY <2>1, <2>2 DEF authVars
<1>2. calls' \in [Calls -> CallStates]
  <2>1. calls' = [d \in Calls |-> calls'[d]]
    BY Zenon DEF Crash
  <2>2. \A d \in Calls : calls'[d] \in CallStates
    BY CrashFields DEF IInv
  <2> QED BY <2>1, <2>2
<1>3. Stored' = Stored /\ \A i : Ended(i)' = Ended(i)
  BY <1>1, SameRows
<1>4. ASSUME NEW d \in Calls
      PROVE  /\ Sound(calls'[d])
             /\ calls'[d].token \in {calls[d].token, None}
             /\ calls'[d].new \in {calls[d].new, None}
  <2>1. Sound(calls[d])
    BY DEF IInv, CallInv
  <2>2. CASE ~Serving(d)
    BY <2>1, <2>2, CrashFields DEF IInv
  <2>3. CASE Serving(d) /\ calls[d].away
    BY <2>3, CrashFields, NoCallFields DEF IInv, Sound
  <2>4. CASE Serving(d) /\ ~calls[d].away
    BY <2>1, <2>4, CrashFields DEF IInv, Sound
  <2> QED BY <2>2, <2>3, <2>4
<1>5. CallInv'
  BY <1>3, <1>4, Zenon DEF CallInv, Sound
<1>6. ASSUME NEW d \in Calls, calls'[d].new # None
      PROVE  OnItsWay(d)'
  <2>1. OnItsWay(d) /\ calls'[d].new = calls[d].new
    BY <1>4, <1>6 DEF IInv, WayInv
  <2>2. calls[d].new # None
    BY <1>6, <2>1
  <2>3. \A e \in Calls : calls'[e].token # calls[d].new
    BY <1>4, <2>1, <2>2 DEF OnItsWay
  <2>4. \A e \in Calls \ {d} : calls'[e].new # calls[d].new
    BY <1>4, <2>1, <2>2 DEF OnItsWay
  <2> QED BY <1>1, <1>3, <2>1, <2>3, <2>4 DEF OnItsWay
<1>7. RowInv'
  BY <1>1, SameRowInv DEF IInv
<1> QED BY <1>1, <1>2, <1>5, <1>6, <1>7 DEF IInv, TypeOK, WayInv

\* Nothing but the counter of the limiter changes.
LEMMA StillStep ==
    ASSUME IInv, UNCHANGED <<registered, sessions, calls, cookie, crashes, losses, signedIn>>,
           counter' \in Counters
    PROVE  IInv'
<1>1. Stored' = Stored /\ \A i : Ended(i)' = Ended(i)
  BY SameRows
<1>2. RowInv'
  BY SameRowInv DEF IInv
<1>3. CallInv'
  BY <1>1, Zenon DEF IInv, CallInv, Sound
<1>4. WayInv'
  BY <1>1 DEF IInv, WayInv, OnItsWay
<1>5. TypeOK'
  BY DEF IInv, TypeOK
<1> QED BY <1>2, <1>3, <1>4, <1>5 DEF IInv

LEMMA Initially == Init => IInv
<1> SUFFICES ASSUME Init PROVE IInv
  OBVIOUS
<1>1. Stored = {}
  BY DEF Init, Stored
<1>2. TypeOK
  <2>1. NoCounter \in Counters
    BY BoundsAssumption DEF NoCounter, Counters
  <2>2. calls \in [Calls -> CallStates] /\ sessions \in [Tokens -> Rows \cup {None}]
    BY NoCallFields DEF Init
  <2> QED BY <2>1, <2>2 DEF Init, TypeOK
<1>3. CallInv /\ WayInv
  BY <1>1, NoCallFields DEF Init, CallInv, WayInv, Sound
<1>4. RowInv
  BY <1>1 DEF Init, RowInv, RotationIsWhole
<1> QED BY <1>2, <1>3, <1>4 DEF IInv

LEMMA Inductive == IInv /\ [Next]_vars => IInv'
<1> SUFFICES ASSUME IInv, [Next]_vars PROVE IInv'
  OBVIOUS
<1>1. CASE \E c \in Calls : Send(c) \/ Serve(c) \/ Respond(c) \/ Lose(c) \/ Fail(c)
  BY <1>1, SendStep, LimiterStep, AnswerOnlyStep, LoginStep, LookUpStep, RotateStep,
     LogoutStep, RespondStep, LoseStep DEF Serve
<1>2. CASE Lapse
  <2>1. NoCounter \in Counters
    BY BoundsAssumption DEF NoCounter, Counters
  <2> QED BY <1>2, <2>1, StillStep DEF Lapse, authVars
<1>3. CASE Crash
  BY <1>3, CrashStep
<1>4. CASE UNCHANGED vars
  BY <1>4, StillStep DEF vars, authVars, IInv, TypeOK
<1> QED BY <1>1, <1>2, <1>3, <1>4 DEF Next

LEMMA Invariance == Spec => []IInv
BY Initially, Inductive, PTL DEF Spec

\* Every variable keeps to its type.
THEOREM TypeCorrect == Spec => []TypeOK
<1>1. IInv => TypeOK
  BY DEF IInv
<1> QED BY Invariance, <1>1, PTL

\* A session is revoked just when it was logged out or replaced, whatever the
\* requests beside it do, and wherever the service fails or dies.
THEOREM RotationIsWholeHolds == Spec => []RotationIsWhole
<1>1. IInv => RotationIsWhole
  BY DEF IInv, RowInv
<1> QED BY Invariance, <1>1, PTL

\* Whoever gets a session for a token asked for it before an answer ended it.
THEOREM DeadAfterAnswerHolds == Spec => DeadAfterAnswer
<1> DEFINE Justified(c) == /\ calls'[c] # calls[c]
                           /\ \/ calls[c].op = "login"
                              \/ Is(c, "refresh", "create") /\ ~calls[c].late
           Step == \A i \in Tokens : sessions[i] = None /\ sessions'[i] # None =>
                     \E c \in Calls : Justified(c)
<1>1. ASSUME IInv, NEW c \in Calls, NEW i \in Fresh, NEW pc \in {"work", "create"},
             calls[c].pc = pc, Answer(c, 200, i)
      PROVE  calls'[c] # calls[c]
  <2>1. calls'[c].pc = "idle" \/ calls'[c].pc = "done"
    BY <1>1, AnswerFields, NoCallFields DEF IInv, Fresh
  <2> QED BY <1>1, <2>1
<1>2. ASSUME IInv, NEW c \in Calls, Login(c)
      PROVE  Step
  <2>1. CASE UNCHANGED sessions
    BY <2>1
  <2>2. CASE \E i \in Fresh : Answer(c, 200, i)
    <3>1. Justified(c)
      BY <1>1, <1>2, <2>2 DEF Login, Is
    <3> QED BY <3>1
  <2> QED BY <1>2, <2>1, <2>2 DEF Login
<1>3. ASSUME IInv, NEW c \in Calls, Rotate(c)
      PROVE  Step
  <2>1. ~calls[c].late
    BY <1>3 DEF Rotate, Is, IInv, CallInv, Sound
  <2>2. calls'[c] # calls[c]
    BY <1>1, <1>3 DEF Rotate, Is
  <2>3. Justified(c)
    BY <1>3, <2>1, <2>2 DEF Rotate
  <2> QED BY <2>3
<1>4. ASSUME IInv, NEW c \in Calls, Logout(c)
      PROVE  Step
  <2>1. Stored' = Stored
    BY <1>4, LogoutWrites
  <2> QED BY <2>1 DEF Stored
<1>5. ASSUME UNCHANGED sessions
      PROVE  Step
  BY <1>5
<1> HIDE DEF Step
<1>6. IInv /\ [Next]_vars => [Step]_vars
  BY <1>2, <1>3, <1>4, <1>5
  DEF Next, Serve, Send, Count, SetExpiry, Register, LookUp, Revoke, Respond, Lose, Fail,
      Lapse, Crash, vars, authVars
<1> QED BY <1>6, Invariance, PTL DEF Spec, DeadAfterAnswer, Step

-----------------------------------------------------------------------------
(* The counter of the limiter.                                             *)

\* A step of one request leaves the others alone.
LEMMA OneCall ==
    ASSUME IInv, NEW c \in Calls, Send(c) \/ Serve(c) \/ Respond(c) \/ Lose(c) \/ Fail(c),
           NEW d \in Calls \ {c}
    PROVE  calls'[d] = calls[d]
<1>1. ASSUME NEW s, Become(c, s)
      PROVE  calls'[d] = calls[d]
  BY <1>1 DEF Become, IInv, TypeOK
<1>2. ASSUME NEW status, NEW new, Answer(c, status, new)
      PROVE  calls'[d] = calls[d]
  BY <1>1, <1>2, Zenon DEF Answer
<1>3. ASSUME NEW pc, Goto(c, pc)
      PROVE  calls'[d] = calls[d]
  BY <1>1, <1>3, Zenon DEF Goto
<1>4. CASE Send(c) \/ Respond(c)
  BY <1>1, <1>4 DEF Send, Respond
<1>5. CASE Lose(c)
  BY <1>1, <1>5, Zenon DEF Lose
<1>6. CASE Count(c) \/ SetExpiry(c) \/ Register(c) \/ Login(c) \/ Fail(c)
  BY <1>2, <1>3, <1>6 DEF Count, SetExpiry, Register, Login, Fail
<1>7. CASE LookUp(c) \/ Revoke(c) \/ Rotate(c) \/ Logout(c)
  BY <1>2, <1>3, <1>7 DEF LookUp, Revoke, Rotate, Logout
<1> QED BY <1>4, <1>5, <1>6, <1>7 DEF Serve

\* Between INCR and EXPIRE a login stays there until it sets the expiry, if the
\* service does not die and EXPIRE does not fail.
LEMMA ExpiringStays ==
    ASSUME IInv, [Next]_vars, crashes' = crashes, NEW w \in Calls, Is(w, "login", "expire"),
           ~SetExpiry(w)
    PROVE  Is(w, "login", "expire")'
<1>1. ASSUME NEW c \in Calls, Send(c) \/ Serve(c) \/ Respond(c) \/ Fail(c)
      PROVE  Is(w, "login", "expire")'
  <2>1. calls[w].pc = "expire" /\ crashes \in Nat
    BY DEF Is, IInv, TypeOK
  <2>2. CASE c = w
    <3>1. ~Send(w) /\ ~Respond(w) /\ ~Fail(w)
      BY <2>1 DEF Send, Respond, Fail
    <3>2. ~Serve(w)
      BY <2>1 DEF Serve, Count, Register, Login, LookUp, Revoke, Rotate, Logout, Is
    <3> QED BY <1>1, <2>2, <3>1, <3>2
  <2>3. CASE c # w
    BY <1>1, <2>3, OneCall DEF Is
  <2> QED BY <2>2, <2>3
<1>2. ASSUME NEW c \in Calls, Lose(c)
      PROVE  Is(w, "login", "expire")'
  BY <1>2, LoseFields DEF Is, IInv
<1>3. CASE Lapse \/ UNCHANGED vars
  BY <1>3 DEF Lapse, vars, Is
<1>4. ~Crash
  <2>1. crashes \in Nat
    BY DEF IInv, TypeOK
  <2>2. Crash => crashes' = crashes + 1
    BY DEF Crash
  <2> QED BY <2>1, <2>2
<1> QED BY <1>1, <1>2, <1>3, <1>4 DEF Next

LEMMA CounterStep == IInv /\ CounterExpires /\ [Next]_vars => CounterExpires'
<1> SUFFICES ASSUME IInv, CounterExpires, [Next]_vars,
                    crashes' = 0, counter'.count > 0, ~counter'.ttl
             PROVE  \E c \in Calls : Is(c, "login", "expire")'
  BY DEF CounterExpires, Is
<1>1. crashes = 0 /\ crashes' = crashes
  <2>1. crashes \in Nat
    BY DEF IInv, TypeOK
  <2>2. crashes' = crashes \/ crashes' = crashes + 1
    BY DEF Next, Serve, Send, Count, SetExpiry, Register, Login, LookUp, Revoke, Rotate, Logout,
       Respond, Lose, Fail, Lapse, Crash, vars
  <2> QED BY <2>1, <2>2
<1>2. counter.count \in 0 .. LoginLimit + 1 /\ LoginLimit \in Nat \ {0}
  BY BoundsAssumption DEF IInv, TypeOK, Counters
<1>3. ASSUME NEW c \in Calls, Count(c), Hits = 1, Goto(c, "expire")
      PROVE  Is(c, "login", "expire")'
  BY <1>3, GotoFields DEF Count, Is, IInv
<1>4. \A c \in Calls : ~SetExpiry(c)
  <2>1. ASSUME NEW c \in Calls, SetExpiry(c)
        PROVE  FALSE
    <3>1. PICK b : b = (counter.count > 0)
      OBVIOUS
    <3>2. counter' = [counter EXCEPT !.ttl = b]
      BY <2>1, <3>1 DEF SetExpiry
    <3>3. counter'.count = counter.count /\ counter'.ttl = b
      BY <3>2 DEF IInv, TypeOK, Counters
    <3> QED BY <3>1, <3>3
  <2> QED BY <2>1
<1>5. CASE counter.count > 0 /\ ~counter.ttl
  <2>1. PICK w \in Calls : Is(w, "login", "expire")
    BY <1>1, <1>5 DEF CounterExpires
  <2> QED BY <1>1, <1>4, <2>1, ExpiringStays
<1>6. CASE ~(counter.count > 0 /\ ~counter.ttl)
  <2>1. counter' # counter
    BY <1>6
  <2>2. ~Lapse
    BY DEF Lapse, NoCounter
  <2>3. PICK c \in Calls : Count(c)
    BY <1>4, <2>1, <2>2
    DEF Next, Serve, Send, Register, Login, LookUp, Revoke, Rotate, Logout,
        Respond, Lose, Fail, Crash, vars
  <2>4. counter'.count = Hits /\ counter'.ttl = counter.ttl
    BY <2>3, HitsTyped DEF Count, IInv
  <2>5. counter.count = 0
    BY <1>2, <1>6, <2>4
  <2>6. Hits = 1
    BY <1>2, <2>5 DEF Hits, Least
  <2>7. Goto(c, "expire")
    BY <1>2, <2>3, <2>6 DEF Count
  <2> QED BY <1>3, <2>3, <2>6, <2>7
<1> QED BY <1>5, <1>6

\* A counter of logins without an expiry is that of a login about to set it,
\* unless the service died or EXPIRE failed just then.
THEOREM CounterExpiresHolds == Spec => []CounterExpires
<1>1. Init => CounterExpires
  BY DEF Init, NoCounter, CounterExpires
<1> QED BY <1>1, CounterStep, Invariance, PTL DEF Spec

-----------------------------------------------------------------------------
(* The cookie of a user who is signed in.                                  *)

\* An answer comes to a request that was sent: it keeps its operation.
LEMMA AnswerKeeps ==
    ASSUME IInv, NEW c \in Calls, Serve(c) \/ Fail(c)
    PROVE  /\ calls[c].pc # "idle" /\ calls[c].new = None
           /\ \/ calls'[c].pc = "idle" /\ ~calls'[c].away
              \/ /\ calls'[c].op = calls[c].op
                 /\ ~calls[c].away => ~calls'[c].away
<1>1. ASSUME NEW status \in {200, 201, 204, 401, 429, 500}, NEW new \in Tokens \cup {None},
             Answer(c, status, new)
      PROVE  \/ calls'[c].pc = "idle" /\ ~calls'[c].away
             \/ /\ calls'[c].op = calls[c].op
                /\ ~calls[c].away => ~calls'[c].away
  BY <1>1, AnswerFields, NoCallFields DEF IInv
<1>2. ASSUME NEW pc \in {"expire", "work", "revoke", "create"}, Goto(c, pc)
      PROVE  /\ calls'[c].op = calls[c].op
             /\ ~calls[c].away => ~calls'[c].away
  BY <1>2, GotoFields DEF IInv
<1>3. calls[c].pc # "idle" /\ calls[c].pc # "done"
  BY DEF Serve, Fail, Serving, Count, SetExpiry, Register, Login, LookUp, Revoke, Rotate, Logout, Is
<1>4. calls[c].new = None
  BY <1>3 DEF IInv, CallInv, Sound
<1>5. \A i \in Fresh : i \in Tokens \cup {None}
  BY DEF Fresh
<1>6. CASE Count(c) \/ SetExpiry(c) \/ LookUp(c) \/ Revoke(c)
  BY <1>1, <1>2, <1>3, <1>4, <1>6 DEF Count, SetExpiry, LookUp, Revoke
<1>7. CASE Register(c) \/ Login(c) \/ Rotate(c) \/ Logout(c) \/ Fail(c)
  <2>1. \E status \in {200, 201, 204, 401, 429, 500}, new \in Tokens \cup {None} :
           Answer(c, status, new)
    BY <1>5, <1>7 DEF Register, Login, Rotate, Logout, Fail
  <2> QED BY <1>1, <1>3, <1>4, <2>1
<1> QED BY <1>6, <1>7 DEF Serve

\* Nobody's answer was lost, so all of them are waited for.
LEMMA AwaitedStep ==
    ASSUME IInv, KeptInv, [Next]_vars, losses' = 0
    PROVE  losses = 0 /\ \A c \in Calls : ~calls'[c].away
<1>1. losses \in Nat
  BY DEF IInv, TypeOK
<1>2. \A c \in Calls : Lose(c) => losses' = losses + 1
  BY DEF Lose
<1>3. losses = 0 /\ \A c \in Calls : ~Lose(c)
  <2>1. \A c \in Calls : ~Lose(c)
    BY <1>1, <1>2
  <2>2. losses' = losses
    BY <2>1 DEF Next, Serve, Send, Count, SetExpiry, Register, Login, LookUp, Revoke, Rotate,
       Logout, Respond, Fail, Lapse, Crash, vars
  <2> QED BY <2>1, <2>2
<1>4. \A c \in Calls : ~calls[c].away
  BY <1>3 DEF KeptInv
<1>5. ASSUME NEW c \in Calls, Send(c) \/ Serve(c) \/ Respond(c) \/ Fail(c)
      PROVE  ~calls'[c].away
  <2>1. CASE Send(c)
    <3>1. PICK r \in Requests : Become(c, r)
      BY <2>1 DEF Send
    <3> QED BY <3>1, RequestFields, CallsAreTyped DEF IInv
  <2>2. CASE Respond(c)
    BY <2>2, NoCallFields, CallsAreTyped DEF Respond, IInv
  <2>3. CASE Serve(c) \/ Fail(c)
    BY <1>4, <2>3, AnswerKeeps
  <2> QED BY <1>5, <2>1, <2>2, <2>3
<1>6. CASE \E c \in Calls : Send(c) \/ Serve(c) \/ Respond(c) \/ Fail(c)
  <2>1. PICK c \in Calls : Send(c) \/ Serve(c) \/ Respond(c) \/ Fail(c)
    BY <1>6
  <2>2. \A d \in Calls \ {c} : calls'[d] = calls[d]
    BY <2>1, OneCall
  <2>3. ~calls'[c].away
    BY <1>5, <2>1
  <2> QED BY <1>3, <1>4, <2>2, <2>3
<1>7. CASE Crash
  <2>1. ASSUME NEW d \in Calls
        PROVE  ~calls'[d].away
    <3>1. CASE ~Serving(d)
      BY <1>4, <1>7, <3>1, CrashFields DEF IInv
    <3>2. CASE Serving(d)
      BY <1>4, <1>7, <3>2, CrashFields DEF IInv
    <3> QED BY <3>1, <3>2
  <2> QED BY <1>3, <2>1
<1>8. CASE Lapse \/ UNCHANGED vars
  BY <1>3, <1>4, <1>8 DEF Lapse, vars
<1> QED BY <1>3, <1>6, <1>7, <1>8 DEF Next

\* No logout is under way while the user is signed in.
LEMMA NoLogoutStep ==
    ASSUME IInv, KeptInv, [Next]_vars, signedIn', NEW d \in Calls, calls'[d].pc # "idle"
    PROVE  calls'[d].op # "logout"
<1>1. signedIn /\ calls[d].pc # "idle" => calls[d].op # "logout"
  BY DEF KeptInv
<1>2. ASSUME NEW c \in Calls, Send(c)
      PROVE  calls'[d].op # "logout"
  <2>1. PICK r \in Requests : Become(c, r) /\ signedIn' = (signedIn /\ r.op # "logout")
    BY <1>2 DEF Send
  <2>2. calls'[c] = r /\ r.op # "logout" /\ signedIn
    BY <2>1, RequestFields, CallsAreTyped DEF IInv
  <2> QED BY <1>1, <1>2, <2>2, OneCall
<1>3. ASSUME NEW c \in Calls, Respond(c)
      PROVE  calls'[d].op # "logout"
  <2>1. calls'[c] = NoCall
    BY <1>3, NoCallFields, CallsAreTyped DEF Respond, IInv
  <2>2. d # c /\ calls'[d] = calls[d]
    BY <1>3, <2>1, NoCallFields, OneCall
  <2>3. signedIn \/ \A e \in Calls : calls[e].op # "logout"
    BY <1>3 DEF Respond
  <2> QED BY <1>1, <2>2, <2>3
<1>4. ASSUME NEW c \in Calls, Serve(c) \/ Fail(c)
      PROVE  calls'[d].op # "logout"
  <2>1. signedIn
    BY <1>4 DEF Serve, Count, SetExpiry, Register, Login, LookUp, Revoke, Rotate, Logout, Fail
  <2> QED BY <1>1, <1>4, <2>1, AnswerKeeps, OneCall
<1>5. ASSUME NEW c \in Calls, Lose(c)
      PROVE  calls'[d].op # "logout"
  <2>1. signedIn
    BY <1>5 DEF Lose
  <2>2. CASE d = c
    <3>1. CASE calls[c].pc = "done"
      BY <1>5, <2>2, <3>1, LoseFields, NoCallFields DEF IInv
    <3>2. CASE calls[c].pc # "done"
      BY <1>1, <1>5, <2>1, <2>2, <3>2, LoseFields DEF IInv
    <3> QED BY <3>1, <3>2
  <2>3. CASE d # c
    BY <1>1, <1>5, <2>1, <2>3, LoseFields DEF IInv
  <2> QED BY <2>2, <2>3
<1>6. CASE Crash
  <2>1. signedIn
    BY <1>6 DEF Crash
  <2>2. CASE ~Serving(d)
    BY <1>1, <1>6, <2>1, <2>2, CrashFields DEF IInv
  <2>3. CASE Serving(d) /\ calls[d].away
    BY <1>6, <2>3, CrashFields, NoCallFields DEF IInv
  <2>4. CASE Serving(d) /\ ~calls[d].away
    BY <1>1, <1>6, <2>1, <2>4, CrashFields DEF IInv, Serving
  <2> QED BY <2>2, <2>3, <2>4
<1>7. CASE Lapse \/ UNCHANGED vars
  BY <1>1, <1>7 DEF Lapse, vars
<1> QED BY <1>2, <1>3, <1>4, <1>5, <1>6, <1>7 DEF Next

\* The cookie is good, or an answer that replaces it is on its way.
CookieKept ==
    /\ cookie # None
    /\ sessions[cookie].revoked => \E c \in Calls : calls[c].new # None

\* A step that neither writes sessions nor takes an answer.
LEMMA NewStays ==
    ASSUME IInv, CookieKept, UNCHANGED <<sessions, cookie>>,
           \A d \in Calls : calls[d].new # None => calls'[d].new # None
    PROVE  CookieKept'
BY DEF CookieKept

LEMMA ServeKeeps ==
    ASSUME IInv, CookieKept, NEW c \in Calls, Serve(c) \/ Fail(c), ~calls[c].away,
           calls[c].op # "logout"
    PROVE  CookieKept'
<1>1. \A d \in Calls : calls[d].new # None => d # c /\ calls'[d].new # None
  BY AnswerKeeps, OneCall
<1>2. UNCHANGED cookie
  BY DEF Serve, Count, SetExpiry, Register, Login, LookUp, Revoke, Rotate, Logout, Fail
<1>3. cookie \in Stored /\ cookie # None
  BY DEF CookieKept, IInv, RowInv
<1>4. CASE UNCHANGED sessions
  BY <1>1, <1>2, <1>4, NewStays
<1>5. ASSUME NEW i \in Fresh, sessions' = [sessions EXCEPT ![i] = NewRow(None)]
      PROVE  CookieKept'
  <2>1. sessions'[cookie].revoked <=> sessions[cookie].revoked
    BY <1>3, <1>5, LoginMakes DEF Made
  <2> QED BY <1>1, <1>2, <1>3, <2>1 DEF CookieKept
<1>6. CASE Rotate(c)
  <2>1. PICK i \in Fresh :
          /\ sessions' = [sessions EXCEPT ![calls[c].token].revoked = TRUE,
                                          ![i] = NewRow(calls[c].token)]
          /\ Answer(c, 200, i)
    BY <1>6 DEF Rotate
  <2>2. i \in Tokens /\ i # None
    BY NoneAssumption DEF Fresh
  <2>3. calls'[c].new # None
    BY <2>1, <2>2, AnswerFields DEF IInv
  <2> QED BY <1>2, <1>3, <2>3 DEF CookieKept
<1>7. ~Logout(c)
  BY DEF Logout, Is
<1> QED BY <1>4, <1>5, <1>6, <1>7
        DEF Serve, Count, SetExpiry, Register, Login, LookUp, Revoke, Fail, authVars

LEMMA KeptStep == IInv /\ KeptInv /\ [Next]_vars => KeptInv'
<1> SUFFICES ASSUME IInv, KeptInv, [Next]_vars PROVE KeptInv'
  OBVIOUS
<1>1. losses' = 0 => losses = 0 /\ (\A c \in Calls : ~calls[c].away) /\ \A c \in Calls : ~calls'[c].away
  BY AwaitedStep DEF KeptInv
<1>2. signedIn' => \A c \in Calls : calls'[c].pc # "idle" => calls'[c].op # "logout"
  BY NoLogoutStep
<1>3. ASSUME signedIn', losses' = 0
      PROVE  CookieKept'
  <2>1. losses = 0 /\ \A c \in Calls : ~calls[c].away
    BY <1>1, <1>3
  <2>2. signedIn => CookieKept /\ \A c \in Calls : calls[c].pc # "idle" => calls[c].op # "logout"
    BY <2>1 DEF KeptInv, CookieKept
  <2>3. ASSUME NEW c \in Calls, Send(c)
        PROVE  CookieKept'
    <3>1. calls[c].new = None /\ signedIn
      BY <1>3, <2>3 DEF Send, IInv, CallInv, Sound
    <3>2. UNCHANGED <<sessions, cookie>>
      BY <2>3 DEF Send, authVars
    <3> QED BY <2>2, <2>3, <3>1, <3>2, OneCall, NewStays
  <2>4. ASSUME NEW c \in Calls, Serve(c) \/ Fail(c)
        PROVE  CookieKept'
    <3>1. signedIn
      BY <1>3, <2>4 DEF Serve, Count, SetExpiry, Register, Login, LookUp, Revoke, Rotate, Logout, Fail
    <3>2. calls[c].pc # "idle"
      BY <2>4, AnswerKeeps
    <3> QED BY <2>1, <2>2, <2>4, <3>1, <3>2, ServeKeeps
  <2>5. ASSUME NEW c \in Calls, Respond(c)
        PROVE  CookieKept'
    <3>1. UNCHANGED sessions
      BY <2>5 DEF Respond, authVars
    <3>2. CASE calls[c].new # None
      <4>1. cookie' = calls[c].new
        BY <2>5, <3>2, RespondStep
      <4>2. ~sessions[calls[c].new].revoked
        BY <3>2 DEF IInv, WayInv, OnItsWay
      <4> QED BY <3>1, <3>2, <4>1, <4>2 DEF CookieKept
    <3>3. CASE calls[c].new = None
      <4>1. signedIn /\ calls[c].pc = "done"
        BY <1>3, <2>5, <3>3 DEF Respond
      <4>2. calls[c].op # "logout"
        BY <2>2, <4>1
      <4>3. cookie' = NewCookie(c)
        BY <2>5 DEF Respond
      <4>4. cookie' = cookie
        BY <3>3, <4>2, <4>3 DEF NewCookie
      <4>5. \A d \in Calls : calls[d].new # None => calls'[d].new # None
        BY <2>5, <3>3, OneCall
      <4> QED BY <2>2, <3>1, <4>1, <4>4, <4>5, NewStays
    <3> QED BY <3>2, <3>3
  <2>6. \A c \in Calls : ~Lose(c)
    <3>1. \A c \in Calls : Lose(c) => losses' = losses + 1
      BY DEF Lose
    <3> QED BY <1>3, <2>1, <3>1
  <2>7. CASE Crash
    <3>1. signedIn /\ UNCHANGED <<sessions, cookie>>
      BY <1>3, <2>7 DEF Crash, authVars
    <3>2. ASSUME NEW d \in Calls, calls[d].new # None
          PROVE  calls'[d].new # None
      <4>1. ~Serving(d)
        BY <3>2 DEF IInv, CallInv, Sound, Serving
      <4> QED BY <2>7, <3>2, <4>1, CrashFields DEF IInv
    <3> QED BY <2>2, <3>1, <3>2, NewStays
  <2>8. CASE Lapse \/ UNCHANGED vars
    BY <1>3, <2>2, <2>8, NewStays DEF Lapse, vars, authVars
  <2> QED BY <2>3, <2>4, <2>5, <2>6, <2>7, <2>8 DEF Next
<1> QED BY <1>1, <1>2, <1>3 DEF KeptInv, CookieKept

-----------------------------------------------------------------------------
(* What a lost answer leaves.                                              *)

\* The sessions that replaced the cookie's are good: nobody has their tokens.
HeirsInv ==
    cookie # None =>
      \A i \in Stored : sessions[i].from = cookie =>
        /\ ~sessions[i].revoked /\ i # cookie
        /\ \A c \in Calls : calls[c].token # i

\* The cookie of a user who is signed in was not logged out.
SignedInv == signedIn => cookie # None /\ ~sessions[cookie].out

\* A request has the token it was sent with, the cookie of that moment.
LEMMA TokenSteps ==
    ASSUME IInv, [Next]_vars, NEW d \in Calls
    PROVE  calls'[d].token \in {None, calls[d].token, cookie}
<1>1. ASSUME NEW c \in Calls, Serve(c) \/ Fail(c)
      PROVE  calls'[c].token \in {None, calls[c].token}
  <2>1. ASSUME NEW status \in {200, 201, 204, 401, 429, 500}, NEW new \in Tokens \cup {None},
               Answer(c, status, new)
        PROVE  calls'[c].token \in {None, calls[c].token}
    BY <2>1, AnswerFields, NoCallFields DEF IInv
  <2>2. ASSUME NEW pc \in {"expire", "work", "revoke", "create"}, Goto(c, pc)
        PROVE  calls'[c].token \in {None, calls[c].token}
    BY <2>2, GotoFields DEF IInv
  <2>3. \A i \in Fresh : i \in Tokens \cup {None}
    BY DEF Fresh
  <2>4. CASE Count(c) \/ SetExpiry(c) \/ LookUp(c) \/ Revoke(c)
    BY <2>1, <2>2, <2>4 DEF Count, SetExpiry, LookUp, Revoke
  <2>5. CASE Register(c) \/ Login(c) \/ Rotate(c) \/ Logout(c) \/ Fail(c)
    <3>1. \E status \in {200, 201, 204, 401, 429, 500}, new \in Tokens \cup {None} :
             Answer(c, status, new)
      BY <2>3, <2>5 DEF Register, Login, Rotate, Logout, Fail
    <3> QED BY <2>1, <3>1
  <2> QED BY <1>1, <2>4, <2>5 DEF Serve
<1>2. ASSUME NEW c \in Calls, Send(c)
      PROVE  calls'[c].token \in {None, cookie}
  <2>1. PICK r \in Requests : Become(c, r)
    BY <1>2 DEF Send
  <2> QED BY <2>1, RequestFields, CallsAreTyped DEF IInv
<1>3. ASSUME NEW c \in Calls, Respond(c)
      PROVE  calls'[c].token = None
  BY <1>3, NoCallFields, CallsAreTyped DEF Respond, IInv
<1>4. ASSUME NEW c \in Calls, Lose(c)
      PROVE  calls'[c].token \in {None, calls[c].token}
  BY <1>4, LoseFields, NoCallFields DEF IInv
<1>5. CASE \E c \in Calls : Send(c) \/ Serve(c) \/ Respond(c) \/ Lose(c) \/ Fail(c)
  BY <1>1, <1>2, <1>3, <1>4, <1>5, OneCall
<1>6. CASE Crash
  BY <1>6, CrashFields, NoCallFields DEF IInv
<1>7. CASE Lapse \/ UNCHANGED vars
  BY <1>7 DEF Lapse, vars
<1> QED BY <1>5, <1>6, <1>7 DEF Next

\* What a handler does to the sessions.
LEMMA RowSteps ==
    ASSUME IInv, NEW c \in Calls, Serve(c) \/ Fail(c)
    PROVE  /\ UNCHANGED cookie
           /\ \/ UNCHANGED sessions
              \/ \E i \in Fresh, f \in {None, calls[c].token} : f \in Stored \cup {None} /\ Made(i, f)
              \/ Logout(c)
<1>1. UNCHANGED cookie
  BY DEF Serve, Count, SetExpiry, Register, Login, LookUp, Revoke, Rotate, Logout, Fail
<1>2. CASE Count(c) \/ SetExpiry(c) \/ Register(c) \/ LookUp(c) \/ Revoke(c) \/ Fail(c)
  BY <1>1, <1>2 DEF Count, SetExpiry, Register, LookUp, Revoke, Fail, authVars
<1>3. CASE Login(c)
  BY <1>1, <1>3, LoginMakes DEF Login
<1>4. CASE Rotate(c)
  <2>1. calls[c].token \in Stored
    BY <1>4 DEF Rotate, Is, IInv, CallInv, Sound
  <2>2. PICK i \in Fresh : sessions' = [sessions EXCEPT ![calls[c].token].revoked = TRUE,
                                                        ![i] = NewRow(calls[c].token)]
    BY <1>4 DEF Rotate
  <2> QED BY <1>1, <2>1, <2>2, RotateMakes
<1> QED BY <1>1, <1>2, <1>3, <1>4 DEF Serve

\* The new cookie's session is good, so that nothing has replaced it.
LEMMA NewIsGood ==
    ASSUME IInv, NEW c \in Calls, calls[c].new # None
    PROVE  /\ calls[c].new \in Stored
           /\ ~sessions[calls[c].new].revoked /\ ~sessions[calls[c].new].out
           /\ \A i \in Stored : sessions[i].from # calls[c].new
<1>1. calls[c].new \in Stored /\ ~sessions[calls[c].new].revoked
  BY DEF IInv, WayInv, OnItsWay
<1>2. ~Ended(calls[c].new)
  BY <1>1 DEF IInv, RowInv, RotationIsWhole
<1> QED BY <1>1, <1>2 DEF Ended

LEMMA HeirsStep == IInv /\ HeirsInv /\ [Next]_vars => HeirsInv'
<1> SUFFICES ASSUME IInv, HeirsInv, [Next]_vars, cookie' # None,
                    NEW i \in Stored', sessions'[i].from = cookie'
             PROVE  /\ ~sessions'[i].revoked /\ i # cookie'
                    /\ \A c \in Calls : calls'[c].token # i
  BY DEF HeirsInv
<1>1. \A d \in Calls : calls'[d].token \in {None, calls[d].token, cookie}
  BY TokenSteps
<1>2. \A d \in Calls : calls[d].token \in Stored \cup {None}
  BY DEF IInv, CallInv, Sound
<1>3. cookie \in Stored \cup {None} /\ None \notin Stored
  BY NoneAssumption DEF IInv, RowInv, Stored
<1>4. ASSUME UNCHANGED cookie, i \in Stored, sessions[i].from = cookie
      PROVE  /\ ~sessions[i].revoked /\ i # cookie'
             /\ \A c \in Calls : calls[c].token # i /\ calls'[c].token # i
  BY <1>1, <1>3, <1>4 DEF HeirsInv
<1>5. CASE UNCHANGED <<sessions, cookie>>
  BY <1>4, <1>5 DEF Stored
<1>6. ASSUME NEW c \in Calls, Serve(c) \/ Fail(c)
      PROVE  /\ ~sessions'[i].revoked /\ i # cookie'
             /\ \A d \in Calls : calls'[d].token # i
  <2>1. UNCHANGED cookie
    BY <1>6, RowSteps
  <2>2. ASSUME NEW j \in Fresh, NEW f \in Stored \cup {None}, f \in {None, calls[c].token}, Made(j, f)
        PROVE  /\ ~sessions'[i].revoked /\ i # cookie'
               /\ \A d \in Calls : calls'[d].token # i
    <3>1. j \in Tokens \ Stored /\ Stored' = Stored \cup {j} /\ j # None
      BY <2>2, MadeEnds
    <3>2. CASE i = j
      BY <1>1, <1>2, <1>3, <2>1, <2>2, <3>1, <3>2 DEF Made
    <3>3. CASE i \in Stored
      <4>1. sessions[i].from = cookie
        BY <2>1, <2>2, <3>3 DEF Made
      <4>2. /\ ~sessions[i].revoked /\ i # cookie'
            /\ \A d \in Calls : calls[d].token # i /\ calls'[d].token # i
        BY <1>4, <2>1, <3>3, <4>1
      <4>3. i # f
        BY <1>3, <2>2, <3>3, <4>2
      <4> QED BY <2>2, <3>3, <4>2, <4>3 DEF Made
    <3> QED BY <3>1, <3>2, <3>3
  <2>3. CASE Logout(c)
    <3>1. /\ i \in Stored /\ sessions'[i].from = sessions[i].from
          /\ \A k \in Stored \ {calls[c].token} : sessions'[k] = sessions[k]
      BY <2>3, LogoutWrites
    <3>2. /\ ~sessions[i].revoked /\ i # cookie'
          /\ \A d \in Calls : calls[d].token # i /\ calls'[d].token # i
      BY <1>4, <2>1, <3>1
    <3> QED BY <3>1, <3>2
  <2> QED BY <1>5, <1>6, <2>1, <2>2, <2>3, RowSteps
<1>7. ASSUME NEW c \in Calls, Respond(c), cookie' # cookie
      PROVE  FALSE
  <2>1. UNCHANGED sessions
    BY <1>7 DEF Respond, authVars
  <2>2. cookie' = NewCookie(c)
    BY <1>7 DEF Respond
  <2>3. calls[c].new # None /\ cookie' = calls[c].new
    BY <1>7, <2>2 DEF NewCookie
  <2> QED BY <2>1, <2>3, NewIsGood DEF Stored
<1>8. ASSUME NEW c \in Calls, Send(c) \/ Respond(c) \/ Lose(c)
      PROVE  UNCHANGED sessions /\ (~Respond(c) => UNCHANGED cookie)
  BY <1>8 DEF Send, Respond, Lose, authVars
<1>9. CASE Lapse \/ Crash \/ UNCHANGED vars
  BY <1>5, <1>9 DEF Lapse, Crash, vars, authVars
<1> QED BY <1>5, <1>6, <1>7, <1>8, <1>9 DEF Next

LEMMA SignedStep == IInv /\ KeptInv /\ SignedInv /\ [Next]_vars => SignedInv'
<1> SUFFICES ASSUME IInv, KeptInv, SignedInv, [Next]_vars, signedIn'
             PROVE  cookie' # None /\ ~sessions'[cookie'].out
  BY DEF SignedInv
<1>1. cookie \in Stored \cup {None}
  BY DEF IInv, RowInv
<1>2. ASSUME signedIn, UNCHANGED <<sessions, cookie>>
      PROVE  cookie' # None /\ ~sessions'[cookie'].out
  BY <1>2 DEF SignedInv
<1>3. ASSUME NEW c \in Calls, Serve(c) \/ Fail(c)
      PROVE  cookie' # None /\ ~sessions'[cookie'].out
  <2>1. signedIn
    BY <1>3 DEF Serve, Count, SetExpiry, Register, Login, LookUp, Revoke, Rotate, Logout, Fail
  <2>2. cookie' = cookie /\ cookie \in Stored /\ cookie # None /\ ~sessions[cookie].out
    BY <1>1, <1>3, <2>1, RowSteps DEF SignedInv
  <2>3. ~Logout(c)
    <3>1. calls[c].pc # "idle"
      BY <1>3, AnswerKeeps
    <3> QED BY <2>1, <3>1 DEF KeptInv, Logout, Is
  <2>4. CASE UNCHANGED sessions
    BY <1>2, <2>1, <2>2, <2>4
  <2>5. CASE \E i \in Fresh, f \in {None, calls[c].token} : f \in Stored \cup {None} /\ Made(i, f)
    BY <2>2, <2>5 DEF Made
  <2> QED BY <1>3, <2>3, <2>4, <2>5, RowSteps
<1>4. ASSUME NEW c \in Calls, Respond(c)
      PROVE  cookie' # None /\ ~sessions'[cookie'].out
  <2>1. UNCHANGED sessions
    BY <1>4 DEF Respond, authVars
  <2>2. CASE calls[c].new # None
    <3>1. cookie' = calls[c].new /\ calls[c].new # None
      BY <1>4, <2>2, RespondStep
    <3> QED BY <2>1, <2>2, <3>1, NewIsGood
  <2>3. CASE calls[c].new = None
    <3>1. signedIn /\ calls[c].pc = "done"
      BY <1>4, <2>3 DEF Respond
    <3>2. calls[c].op # "logout"
      BY <3>1 DEF KeptInv
    <3>3. cookie' = NewCookie(c)
      BY <1>4 DEF Respond
    <3>4. cookie' = cookie
      BY <2>3, <3>2, <3>3 DEF NewCookie
    <3> QED BY <1>2, <2>1, <3>1, <3>4
  <2> QED BY <2>2, <2>3
<1>5. ASSUME NEW c \in Calls, Send(c) \/ Lose(c)
      PROVE  signedIn /\ UNCHANGED <<sessions, cookie>>
  BY <1>5 DEF Send, Lose, authVars
<1>6. CASE Lapse \/ Crash \/ UNCHANGED vars
  BY <1>2, <1>6 DEF Lapse, Crash, vars, authVars
<1> QED BY <1>2, <1>3, <1>4, <1>5, <1>6 DEF Next

\* A user who logged in and did not log out keeps a good session, in whatever
\* order the requests of the tabs are served and answered, unless the answer of a
\* refresh was lost: then the session that took its place is good, and the cookie
\* is kept.
THEOREM SessionKeptHolds == Spec => []SessionKept
<1>1. Init => KeptInv /\ HeirsInv /\ SignedInv
  BY NoCallFields DEF Init, KeptInv, HeirsInv, SignedInv
<1>2. IInv /\ KeptInv /\ HeirsInv /\ SignedInv => SessionKept
  <2> SUFFICES ASSUME IInv, KeptInv, HeirsInv, SignedInv,
                      signedIn, \A c \in Calls : calls[c].pc = "idle"
               PROVE  /\ cookie # None
                      /\ ~sessions[cookie].out
                      /\ sessions[cookie].revoked =>
                           losses # 0 /\ \E i \in Stored : sessions[i].from = cookie /\ ~sessions[i].revoked
    BY DEF SessionKept
  <2>1. cookie # None /\ cookie \in Stored /\ ~sessions[cookie].out
    BY DEF SignedInv, IInv, RowInv
  <2>2. \A c \in Calls : calls[c].new = None
    BY DEF IInv, CallInv, Sound
  <2>3. sessions[cookie].revoked => losses # 0
    BY <2>2 DEF KeptInv
  <2>4. sessions[cookie].revoked => \E i \in Stored : sessions[i].from = cookie
    BY <2>1 DEF IInv, RowInv, RotationIsWhole, Ended
  <2>5. \A i \in Stored : sessions[i].from = cookie => ~sessions[i].revoked
    BY <2>1 DEF HeirsInv
  <2> QED BY <2>1, <2>3, <2>4, <2>5
<1> QED BY <1>1, <1>2, KeptStep, HeirsStep, SignedStep, Invariance, PTL DEF Spec

=============================================================================

------------------------------- MODULE Sessions -------------------------------
(***************************************************************************)
(* Registration, login, refresh and logout: the browser with its cookie,   *)
(* the gateway between, and the auth service with its sessions and its     *)
(* rate limiter. The tabs of a browser share the cookie and send requests  *)
(* at the same time; the answers come in any order. A refresh reads the    *)
(* session first, and revokes it and creates the next one in a transaction *)
(* after; the other writes are single statements. A request the gateway's  *)
(* own limiter refuses goes no further, and is left out.                   *)
(***************************************************************************)
EXTENDS Naturals, FiniteSets

CONSTANTS Calls,            \* requests of the browser at the same time
          MaxSessions,      \* bound on the rows of sessions
          MaxFaults,        \* bound on crashes and losses
          LoginLimit,       \* rate_limit_login
          None

ASSUME BoundsAssumption ==
    MaxSessions \in Nat \ {0} /\ MaxFaults \in Nat /\ LoginLimit \in Nat \ {0}

VARIABLES registered,       \* the user has a row in users
          sessions,         \* the rows of sessions; a token is the id of its session
          counter,          \* the limiter's counter of logins in Redis
          calls,            \* the requests with the handlers that serve them
          cookie,           \* the refresh token the browser has
          crashes,          \* of the auth service, and EXPIREs that failed
          losses,           \* answers that did not reach the browser
          signedIn          \* history: logged in, and no logout asked for since

authVars == <<registered, sessions>>
vars == <<authVars, counter, calls, cookie, crashes, losses, signedIn>>

Tokens == 1..MaxSessions
\* "from" is the session a refresh replaced by this one, "out" that it was logged
\* out: what the rows came from, which no column says.
Rows == [revoked : BOOLEAN, from : Tokens \cup {None}, out : BOOLEAN]
ASSUME NoneAssumption == None \notin Tokens /\ None \notin Rows

Stored == {i \in Tokens : sessions[i] # None}

\* A refresh or a logout of the token i was answered.
Ended(i) == sessions[i].out \/ \E j \in Stored : sessions[j].from = i

\* A count over the limit makes no more difference. Registrations are counted by
\* keys of their own, which are left out: any registration may be refused.
Counters == [count : 0..LoginLimit + 1, ttl : BOOLEAN]
NoCounter == [count |-> 0, ttl |-> FALSE]

\* "away": nobody waits for the answer any more. "late": when the request was
\* sent, its token was ended.
CallStates ==
    [pc : {"idle", "limit", "expire", "work", "look", "revoke", "create", "done"},
     op : {"register", "login", "refresh", "logout", None}, token : Tokens \cup {None},
     away : BOOLEAN, late : BOOLEAN, status : {200, 201, 204, 401, 429, 500, 502, None},
     new : Tokens \cup {None}]
NoCall == [pc |-> "idle", op |-> None, token |-> None, away |-> FALSE, late |-> FALSE,
           status |-> None, new |-> None]

Init ==
    /\ registered = FALSE
    /\ sessions = [i \in Tokens |-> None]
    /\ counter = NoCounter
    /\ calls = [c \in Calls |-> NoCall]
    /\ cookie = None
    /\ crashes = 0 /\ losses = 0
    /\ signedIn = FALSE

Is(c, op, pc) == calls[c].op = op /\ calls[c].pc = pc
Serving(c) == calls[c].pc \notin {"idle", "done"}
Become(c, state) == calls' = [calls EXCEPT ![c] = state]
Goto(c, pc) == Become(c, [calls[c] EXCEPT !.pc = pc])

\* The answer of the auth service, with the new refresh token. An answer nobody
\* waits for is not kept.
Answer(c, status, new) ==
    Become(c, IF calls[c].away THEN NoCall
              ELSE [calls[c] EXCEPT !.pc = "done", !.status = status, !.new = new])

-----------------------------------------------------------------------------
(* The rate limiter                                                        *)

Least(m, n) == IF m < n THEN m ELSE n
Hits == Least(counter.count + 1, LoginLimit + 1)
Hit == counter' = [counter EXCEPT !.count = Hits]

\* Mutant of Count: the expiry is set by the first login over the limit.
CountLate(c) ==
    /\ Is(c, "login", "limit")
    /\ Hit
    /\ IF Hits > LoginLimit THEN Goto(c, "expire") ELSE Goto(c, "work")
    /\ UNCHANGED <<authVars, cookie, crashes, losses, signedIn>>

\* enforce: INCR, then EXPIRE if it made the counter, are two commands.
Count(c) ==
    /\ Is(c, "login", "limit")
    /\ Hit
    /\ \/ Hits = 1 /\ Goto(c, "expire")
       \/ Hits \in 2..LoginLimit /\ Goto(c, "work")
       \/ Hits > LoginLimit /\ Answer(c, 429, None)
    /\ UNCHANGED <<authVars, cookie, crashes, losses, signedIn>>

\* A key that is gone gets no expiry.
SetExpiry(c) ==
    /\ calls[c].pc = "expire"
    /\ counter' = [counter EXCEPT !.ttl = counter.count > 0]
    /\ Goto(c, "work")
    /\ UNCHANGED <<authVars, cookie, crashes, losses, signedIn>>

\* The window ends, or Redis restarts with nothing.
Lapse ==
    /\ counter # NoCounter
    /\ counter' = NoCounter
    /\ UNCHANGED <<authVars, calls, cookie, crashes, losses, signedIn>>

-----------------------------------------------------------------------------
(* The browser and the gateway                                             *)

\* Without a cookie the gateway answers a refresh or a logout by itself. Nobody
\* registers again once the user is there, but two may at the same time.
New(op, first, token) ==
    [NoCall EXCEPT !.pc = first, !.op = op, !.token = token,
                   !.late = token # None /\ Ended(token)]
ByGateway(op, status) == [NoCall EXCEPT !.pc = "done", !.op = op, !.status = status]
Requests ==
    {New("login", "limit", None)} \cup
    (IF registered THEN {} ELSE {New("register", "work", None)}) \cup
    IF cookie = None THEN {ByGateway("refresh", 401), ByGateway("logout", 204)}
    ELSE {New("refresh", "look", cookie), New("logout", "revoke", cookie)}

Send(c) ==
    /\ calls[c].pc = "idle"
    /\ \E r \in Requests :
         Become(c, r) /\ signedIn' = (signedIn /\ r.op # "logout")
    /\ UNCHANGED <<authVars, counter, cookie, crashes, losses>>

\* Mutant of NewCookie: an invalid refresh token is cleared.
CookieUnlessInvalid(c) ==
    CASE calls[c].new # None -> calls[c].new
      [] calls[c].op = "logout" /\ calls[c].status # 502 -> None
      [] calls[c].op = "refresh" /\ calls[c].status = 401 -> None
      [] OTHER -> cookie
\* The cookie of the gateway's answer: a new token is set; a logout clears it
\* whatever the auth service answered, but not if it did not answer; a refresh
\* that fails leaves it.
NewCookie(c) ==
    CASE calls[c].new # None -> calls[c].new
      [] calls[c].op = "logout" /\ calls[c].status # 502 -> None
      [] OTHER -> cookie

Respond(c) ==
    /\ calls[c].pc = "done"
    /\ cookie' = NewCookie(c)
    /\ Become(c, NoCall)
    /\ signedIn' = (signedIn \/ /\ Is(c, "login", "done") /\ calls[c].new # None
                                /\ \A d \in Calls : calls[d].op # "logout")
    /\ UNCHANGED <<authVars, counter, crashes, losses>>

\* The gateway gives up after its read timeout, while the handler goes on, or
\* the browser is gone when the answer comes. No POST is sent again.
Lose(c) ==
    /\ crashes + losses < MaxFaults
    /\ losses' = losses + 1
    /\ calls[c].pc # "idle" /\ ~calls[c].away
    /\ Become(c, IF calls[c].pc = "done" THEN NoCall ELSE [calls[c] EXCEPT !.away = TRUE])
    /\ UNCHANGED <<authVars, counter, cookie, crashes, signedIn>>

-----------------------------------------------------------------------------
(* The auth service                                                        *)

Fresh == {i \in Tokens \ Stored : \A j \in Stored : j < i}
NewRow(from) == [revoked |-> FALSE, from |-> from, out |-> FALSE]

\* Over the limit, or an INSERT of a user; 200 says there was one.
Register(c) ==
    /\ Is(c, "register", "work")
    /\ \/ Answer(c, 429, None) /\ UNCHANGED registered
       \/ Answer(c, IF registered THEN 200 ELSE 201, None) /\ registered' = TRUE
    /\ UNCHANGED <<sessions, counter, cookie, crashes, losses, signedIn>>

\* The password may be right or wrong.
Login(c) ==
    /\ Is(c, "login", "work")
    /\ \/ /\ Answer(c, 401, None)
          /\ UNCHANGED sessions
       \/ /\ registered
          /\ \E i \in Fresh : /\ sessions' = [sessions EXCEPT ![i] = NewRow(None)]
                              /\ Answer(c, 200, i)
    /\ UNCHANGED <<registered, counter, cookie, crashes, losses, signedIn>>

\* Mutant of LookUp: revoked sessions are found too.
LookUpAny(c) ==
    /\ Is(c, "refresh", "look")
    /\ Answer(c, 401, None) \/ Goto(c, "revoke")
    /\ UNCHANGED <<authVars, counter, cookie, crashes, losses, signedIn>>

\* get_active_by_hash: the session may have expired at any time.
LookUp(c) ==
    /\ Is(c, "refresh", "look")
    /\ \/ Answer(c, 401, None)
       \/ ~sessions[calls[c].token].revoked /\ Goto(c, "revoke")
    /\ UNCHANGED <<authVars, counter, cookie, crashes, losses, signedIn>>

\* A transaction has updated the row and not committed: an UPDATE of it waits.
RowLocked(c) ==
    \E d \in Calls \ {c} : Is(d, "refresh", "create") /\ calls[d].token = calls[c].token
                           /\ ~sessions[calls[d].token].revoked

\* Mutant of Revoke: it is committed at once.
RevokeCommitted(c) ==
    /\ Is(c, "refresh", "revoke")
    /\ sessions' = [sessions EXCEPT ![calls[c].token].revoked = TRUE]
    /\ Goto(c, "create")
    /\ UNCHANGED <<registered, counter, cookie, crashes, losses, signedIn>>

\* The UPDATE of a refresh; a row revoked in the meantime is no error.
Revoke(c) ==
    /\ Is(c, "refresh", "revoke")
    /\ ~RowLocked(c)
    /\ Goto(c, "create")
    /\ UNCHANGED <<authVars, counter, cookie, crashes, losses, signedIn>>

\* The session is inserted, and the transaction commits.
Rotate(c) ==
    /\ Is(c, "refresh", "create")
    /\ \E i \in Fresh :
         /\ sessions' = [sessions EXCEPT ![calls[c].token].revoked = TRUE,
                                         ![i] = NewRow(calls[c].token)]
         /\ Answer(c, 200, i)
    /\ UNCHANGED <<registered, counter, cookie, crashes, losses, signedIn>>

\* One UPDATE, of no row if the token is revoked already.
Logout(c) ==
    /\ Is(c, "logout", "revoke")
    /\ ~RowLocked(c)
    /\ sessions' = [sessions EXCEPT ![calls[c].token].out = @ \/ ~sessions[calls[c].token].revoked,
                                    ![calls[c].token].revoked = TRUE]
    /\ Answer(c, 204, None)
    /\ UNCHANGED <<registered, counter, cookie, crashes, losses, signedIn>>

\* An exception: the open transaction is rolled back. If it is EXPIRE that fails
\* the counter stays as after a crash.
Fail(c) ==
    /\ Serving(c)
    /\ Answer(c, 500, None)
    /\ \/ calls[c].pc # "expire" /\ UNCHANGED crashes
       \/ calls[c].pc = "expire" /\ crashes + losses < MaxFaults /\ crashes' = crashes + 1
    /\ UNCHANGED <<authVars, counter, cookie, losses, signedIn>>

\* The service dies with all it is doing, and starts again. The gateway answers
\* with an error of its own (502 stands for it), and cookies stay as they are.
Crash ==
    /\ crashes + losses < MaxFaults
    /\ crashes' = crashes + 1
    /\ calls' = [c \in Calls |->
                   IF ~Serving(c) THEN calls[c] ELSE IF calls[c].away THEN NoCall
                   ELSE [calls[c] EXCEPT !.pc = "done", !.status = 502]]
    /\ UNCHANGED <<authVars, counter, cookie, losses, signedIn>>

-----------------------------------------------------------------------------
Serve(c) ==
    \/ Count(c) \/ SetExpiry(c) \/ Register(c) \/ Login(c)
    \/ LookUp(c) \/ Revoke(c) \/ Rotate(c) \/ Logout(c)

Next ==
    \/ \E c \in Calls : Send(c) \/ Serve(c) \/ Respond(c) \/ Lose(c) \/ Fail(c)
    \/ Lapse \/ Crash

Spec == Init /\ [][Next]_vars

-----------------------------------------------------------------------------
\* Once a refresh or a logout of a token was answered, no request sent after it
\* gets a session for that token: only requests that overlap may both get one
\* (the session is read before the transaction that revokes it).
DeadAfterAnswer ==
    [][\A i \in Tokens : sessions[i] = None /\ sessions'[i] # None =>
         \E c \in Calls : /\ calls'[c] # calls[c]
                          /\ \/ calls[c].op = "login"
                             \/ Is(c, "refresh", "create") /\ ~calls[c].late]_vars

\* A session is revoked just when it was logged out or replaced by a refresh: no
\* crash or error between the UPDATE and the INSERT takes a session away from the
\* user, or leaves the replaced one good.
RotationIsWhole ==
    \A i \in Stored : sessions[i].revoked <=> Ended(i)

\* A user who logged in and did not log out keeps a cookie whose session is not
\* revoked, however many tabs refresh it at the same time and in whatever order
\* the answers come: some of them get 401, and that must not clear the cookie.
\* Only the lost answer of a refresh the auth service went on with can end that:
\* then the cookie stays, of a session nobody logged out, and the session in its
\* place is good though nobody has the token. No other fault signs the user out.
SessionKept ==
    signedIn /\ (\A c \in Calls : calls[c].pc = "idle") =>
      /\ cookie # None
      /\ ~sessions[cookie].out
      /\ sessions[cookie].revoked =>
           losses # 0 /\ \E i \in Stored : sessions[i].from = cookie /\ ~sessions[i].revoked

\* A counter that never expires would keep the user out for ever. There is one
\* only between INCR and EXPIRE, or if the service died or EXPIRE failed then.
CounterExpires ==
    crashes = 0 /\ counter.count > 0 /\ ~counter.ttl =>
      \E c \in Calls : Is(c, "login", "expire")
=============================================================================

------------------------------- MODULE Sessions -------------------------------
(***************************************************************************)
(* Login and sessions of the console (src/app/auth.go, the users and       *)
(* sessions tables of store.go).  Requests run concurrently; each is a     *)
(* sequence of single SQL statements with no transaction around them, and  *)
(* between two of them any other request may run.  There is one account,   *)
(* the bootstrap administrator: the console has no way to create another.  *)
(*                                                                         *)
(* Instants are stored as what is left until them: expires_at and          *)
(* locked_until of a row become .left and lock, last_seen_at becomes its   *)
(* age .idle, and Tick moves them all, so that time has no end.  A password *)
(* is the number of the change that set it; 0 stands for none.             *)
(*                                                                         *)
(* A definition that begins with "Slip:" is not the code's: it is a mistake *)
(* the code could contain, and a property below fails when it takes the    *)
(* place of the definition that follows it.                                *)
(***************************************************************************)
EXTENDS Integers, FiniteSets, Combinatorics

CONSTANTS
    Requests,       \* bound of the model: HTTP requests served at a time
    TTL,            \* cfg.SessionTTL, in ticks
    Refresh,        \* cfg.SessionRefreshInterval, in ticks
    LockFor,        \* cfg.LoginLockDuration, in ticks
    MaxAttempts,    \* cfg.LoginMaxAttempts
    MaxTokens,      \* bound of the model: sessions ever created
    MaxChanges      \* bound of the model: password changes

ASSUME SessionsAssumption ==
    /\ IsFiniteSet(Requests)
    /\ TTL \in Nat \ {0} /\ Refresh \in Nat \ {0} /\ LockFor \in Nat
    /\ MaxAttempts \in Nat \ {0}
    /\ MaxTokens \in Nat /\ MaxChanges \in Nat

VARIABLES
    password,     \* users.password_hash
    attempts,     \* users.failed_attempts
    lock,         \* users.locked_until, as the ticks left
    rows,         \* sessions
    lastId,       \* the id the last inserted row got
    issued,       \* session tokens drawn so far
    cookie,       \* Max-Age of the browsers' cookies: ticks until each is dropped
    expires,      \* Expires of the browsers' cookies, as the ticks left
    request,      \* where each request stands
    ended,        \* history: tokens whose session was revoked
    cut,          \* history: a change wrote its password and revoked nothing
    uncounted     \* history: failures recorded since attempts was last zeroed

userVars == <<password, attempts, lock>>
rowVars == <<rows, lastId, issued, cookie, expires>>
historyVars == <<ended, cut, uncounted>>
sessionVars == <<userVars, rowVars, request, historyVars>>

Tokens == 1 .. MaxTokens
Ids == 1 .. MaxTokens
Passwords == 0 .. MaxChanges + 1

\* left = -1: expires_at is past.  idle = Refresh: seen that long ago or more.
\* verified is the password its creator had checked; late says that the
\* password had been changed again when the row was inserted.
Row == [token: Tokens, left: -1 .. TTL, idle: 0 .. Refresh, revoked: BOOLEAN,
        verified: Passwords, late: BOOLEAN]

\* hash is the password a login has checked or a change has set, fresh the
\* token of the session a request has inserted, lag how long ago it took the
\* time it is about to write, or has written into that session.
Request == [pc: {"idle", "fail", "succeed", "create", "insert", "answer", "find",
                 "touch", "write", "act", "revoke"},
            kind: {"login", "logout", "change", "use"},
            gate: {"middleware", "handler"},
            hash: Passwords, seen: 0 .. MaxAttempts - 1,
            token: 0 .. MaxTokens, id: 0 .. MaxTokens, fresh: 0 .. MaxTokens,
            lag: 0 .. TTL + 1]

Idle == [pc |-> "idle", kind |-> "use", gate |-> "middleware", hash |-> 0,
         seen |-> 0, token |-> 0, id |-> 0, fresh |-> 0, lag |-> 0]

SessionsTypeOK ==
    /\ password \in Passwords \ {0}
    /\ attempts \in 0 .. MaxAttempts - 1 /\ lock \in 0 .. LockFor
    /\ lastId \in 0 .. MaxTokens /\ issued \in 0 .. MaxTokens
    /\ DOMAIN rows \subseteq 1 .. lastId
    /\ \A i \in DOMAIN rows : rows[i] \in Row
    /\ cookie \in [Tokens -> 0 .. TTL] /\ expires \in [Tokens -> 0 .. TTL]
    /\ request \in [Requests -> Request]
    /\ ended \subseteq Tokens /\ cut \in BOOLEAN /\ uncounted \in Nat

Live(i) == i \in DOMAIN rows /\ ~rows[i].revoked /\ rows[i].left > 0

Least(m, n) == IF m < n THEN m ELSE n
Most(m, n) == IF m > n THEN m ELSE n

Goto(r, pc) == request' = [request EXCEPT ![r].pc = pc]
Done(r) == request' = [request EXCEPT ![r] = Idle]

\* Slip: a session is ended by moving its expiry.
RevokeByExpiry(ids) ==
    /\ rows' = [i \in DOMAIN rows |->
                   IF i \in ids THEN [rows[i] EXCEPT !.left = -1] ELSE rows[i]]
    /\ ended' = ended \cup {rows[i].token : i \in ids \cap DOMAIN rows}

\* UPDATE sessions SET revoked_at, for these rows.
Revoke(ids) ==
    /\ rows' = [i \in DOMAIN rows |->
                   IF i \in ids THEN [rows[i] EXCEPT !.revoked = TRUE] ELSE rows[i]]
    /\ ended' = ended \cup {rows[i].token : i \in ids \cap DOMAIN rows}

----------------------------------------------------------------------------
(* Logging in: handleLogin. *)

\* findUserByUsername.  A locked account ends the request before anything is
\* compared or counted.  The comparison, slow as it is, looks at nothing but
\* the row that was read and the password the client typed.
LoginReadUser(r) ==
    /\ request[r] = Idle
    /\ lock = 0
    /\ \/ request' = [request EXCEPT ![r] =
                 [Idle EXCEPT !.pc = "fail", !.kind = "login", !.seen = attempts]]
       \/ request' = [request EXCEPT ![r] =
                 [Idle EXCEPT !.pc = "succeed", !.kind = "login", !.hash = password]]
    /\ UNCHANGED <<userVars, rowVars, historyVars>>

\* Slip: the counter is written as it was read.
RecordFailedLoginUncounted(r) ==
    LET locks == request[r].seen + 1 >= MaxAttempts
    IN  /\ request[r].pc = "fail"
        /\ attempts' = IF locks THEN 0 ELSE request[r].seen
        /\ lock' \in IF locks THEN 0 .. LockFor ELSE {0}
        /\ uncounted' = IF locks THEN 0 ELSE uncounted + 1
        /\ Done(r)
        /\ UNCHANGED <<password, rowVars, ended, cut>>

\* Slip: one more failure is allowed.
RecordFailedLoginAfterMax(r) ==
    LET next == request[r].seen + 1
        locks == next > MaxAttempts
    IN  /\ request[r].pc = "fail"
        /\ attempts' = IF locks THEN 0 ELSE next
        /\ lock' \in IF locks THEN 0 .. LockFor ELSE {0}
        /\ uncounted' = IF locks THEN 0 ELSE uncounted + 1
        /\ Done(r)
        /\ UNCHANGED <<password, rowVars, ended, cut>>

\* recordFailedLogin counts from the row that was read, and overwrites.  The
\* lock counts from a time taken before the write waited for the connection.
RecordFailedLogin(r) ==
    LET next == request[r].seen + 1
        locks == next >= MaxAttempts
    IN  /\ request[r].pc = "fail"
        /\ attempts' = IF locks THEN 0 ELSE next
        /\ lock' \in IF locks THEN 0 .. LockFor ELSE {0}
        /\ uncounted' = IF locks THEN 0 ELSE uncounted + 1
        /\ Done(r)
        /\ UNCHANGED <<password, rowVars, ended, cut>>

RecordSuccessfulLogin(r) ==
    /\ request[r].pc = "succeed"
    /\ attempts' = 0 /\ lock' = 0 /\ uncounted' = 0
    /\ Goto(r, "create")
    /\ UNCHANGED <<password, rowVars, ended, cut>>

\* Slip: a plain INTEGER PRIMARY KEY, the id after the greatest there is.
NextIdOfRows ==
    CHOOSE n \in Ids : /\ \A i \in DOMAIN rows : i < n
                       /\ n = 1 \/ n - 1 \in DOMAIN rows

\* AUTOINCREMENT: an id is never given twice.
NextId == lastId + 1

\* createSession takes the time its row will count from; the INSERT may have
\* to wait for the one connection.
TakeTime(r) ==
    /\ request[r].pc = "create"
    /\ Goto(r, "insert")
    /\ UNCHANGED <<userVars, rowVars, historyVars>>

CreateSession(r) ==
    LET lag == request[r].lag
    IN  /\ request[r].pc = "insert"
        /\ issued < MaxTokens
        /\ issued' = issued + 1
        /\ lastId' = NextId
        /\ rows' = [i \in DOMAIN rows \cup {NextId} |->
                       IF i = NextId
                       THEN [token |-> issued + 1, left |-> Most(TTL - lag, -1),
                             idle |-> Least(lag, Refresh), revoked |-> FALSE,
                             verified |-> request[r].hash,
                             late |-> request[r].hash # password]
                       ELSE rows[i]]
        /\ request' = [request EXCEPT ![r] = [@ EXCEPT !.pc = "answer",
                                                       !.fresh = issued + 1]]
        /\ UNCHANGED <<userVars, cookie, expires, historyVars>>

\* The answer reaches the browser: its cookie takes the place of the request's
\* own, and lasts the TTL from now.  (Expires, which goes back to the time that
\* createSession took, gives way to Max-Age.)
SetCookie(r) ==
    LET cookies(old, new) ==
            [t \in Tokens |-> IF t = request[r].fresh THEN new
                             ELSE IF t = request[r].token THEN 0 ELSE old[t]]
    IN  /\ request[r].pc = "answer"
        /\ cookie' = cookies(cookie, TTL)
        /\ expires' = cookies(expires, Most(TTL - request[r].lag, 0))
        /\ Done(r)
        /\ UNCHANGED <<userVars, rows, lastId, issued, historyVars>>

\* clearSessionCookie.
ClearCookie(r) ==
    /\ cookie' = [cookie EXCEPT ![request[r].token] = 0]
    /\ expires' = [expires EXCEPT ![request[r].token] = 0]

----------------------------------------------------------------------------
(* Requests that come with a cookie.                                       *)
(* authMiddleware authenticates every one of them; handleLogout and        *)
(* handleChangePassword authenticate once more.                            *)

Send(r, kind, token) ==
    /\ request[r] = Idle
    /\ cookie[token] > 0
    /\ request' = [request EXCEPT ![r] =
                      [Idle EXCEPT !.pc = "find", !.kind = kind, !.token = token]]
    /\ UNCHANGED <<userVars, rowVars, historyVars>>

\* findAuthSession: the live row of the token.  (The user's row comes with it;
\* a change compares the current password with the hash of that reading.)
FindAuthSession(r) ==
    /\ request[r].pc = "find"
    /\ \E i \in DOMAIN rows :
          /\ Live(i) /\ rows[i].token = request[r].token
          /\ request' = [request EXCEPT ![r].pc = "touch", ![r].id = i]
    /\ UNCHANGED <<userVars, rowVars, historyVars>>

\* There is none.  handleLogout clears the cookie all the same, authMiddleware
\* does not.
Unauthenticated(r) ==
    /\ request[r].pc = "find"
    /\ ~ \E i \in DOMAIN rows : Live(i) /\ rows[i].token = request[r].token
    /\ IF request[r].kind = "logout" /\ request[r].gate = "handler"
       THEN ClearCookie(r) ELSE UNCHANGED <<cookie, expires>>
    /\ Done(r)
    /\ UNCHANGED <<userVars, rows, lastId, issued, historyVars>>

\* The request after an authentication: the handler's own is the second one,
\* and what any other handler does is no business of this module (nor is
\* whether authMiddleware lets it run).
Passed(req) ==
    IF req.kind = "use" THEN Idle
    ELSE IF req.gate = "middleware"
    THEN [req EXCEPT !.pc = "find", !.gate = "handler", !.id = 0, !.lag = 0]
    ELSE [req EXCEPT !.pc = "act", !.lag = 0]

\* touchSession reads the row again; if it is there, and was not seen lately,
\* the time is taken that will be written.
TouchRead(r) ==
    LET i == request[r].id
    IN  /\ request[r].pc = "touch"
        /\ request' = [request EXCEPT ![r] =
                          IF i \in DOMAIN rows /\ rows[i].idle >= Refresh
                          THEN [@ EXCEPT !.pc = "write"] ELSE Passed(@)]
        /\ UNCHANGED <<userVars, rowVars, historyVars>>

\* UPDATE ... WHERE id = ? AND revoked_at IS NULL.
TouchWrite(r) ==
    LET i == request[r].id
        lag == request[r].lag
    IN  /\ request[r].pc = "write"
        /\ rows' = IF i \in DOMAIN rows /\ ~rows[i].revoked
                   THEN [rows EXCEPT ![i].left = Most(TTL - lag, -1),
                                     ![i].idle = Least(lag, Refresh)]
                   ELSE rows
        /\ request' = [request EXCEPT ![r] = Passed(@)]
        /\ UNCHANGED <<userVars, lastId, issued, cookie, expires, historyVars>>

\* authSessionFromRequest goes on when touchSession fails.
TouchFails(r) ==
    /\ request[r].pc \in {"touch", "write"}
    /\ request' = [request EXCEPT ![r] = Passed(@)]
    /\ UNCHANGED <<userVars, rowVars, historyVars>>

\* handleLogout: revokeSessionByID, and the answer clears the cookie.
Logout(r) ==
    /\ request[r].pc = "act" /\ request[r].kind = "logout"
    /\ Revoke({request[r].id})
    /\ ClearCookie(r)
    /\ Done(r)
    /\ UNCHANGED <<userVars, lastId, issued, cut, uncounted>>

\* handleLogout ignores the error of revokeSessionByID: the cookie is gone and
\* the session is not.
LogoutFails(r) ==
    /\ request[r].pc = "act" /\ request[r].kind = "logout"
    /\ ClearCookie(r)
    /\ Done(r)
    /\ UNCHANGED <<userVars, rows, lastId, issued, historyVars>>

\* Slip: the change leaves the other sessions alone.
UpdateUserPasswordOnly(r) ==
    /\ request[r].pc = "act" /\ request[r].kind = "change"
    /\ password <= MaxChanges
    /\ password' = password + 1
    /\ attempts' = 0 /\ lock' = 0 /\ uncounted' = 0
    /\ request' = [request EXCEPT ![r] = [@ EXCEPT !.pc = "create", !.id = 0,
                                                   !.hash = password + 1]]
    /\ UNCHANGED <<rowVars, ended, cut>>

\* handleChangePassword, once the current password compared equal to the hash
\* its authentication had read, however old: updateUserPassword overwrites.
\* (A wrong one ends the request: Abort.)
UpdateUserPassword(r) ==
    /\ request[r].pc = "act" /\ request[r].kind = "change"
    /\ password <= MaxChanges
    /\ password' = password + 1
    /\ attempts' = 0 /\ lock' = 0 /\ uncounted' = 0
    /\ request' = [request EXCEPT ![r] = [@ EXCEPT !.pc = "revoke", !.id = 0,
                                                   !.hash = password + 1]]
    /\ UNCHANGED <<rowVars, ended, cut>>

RevokeAllSessionsForUser(r) ==
    /\ request[r].pc = "revoke"
    /\ Revoke({i \in DOMAIN rows : ~rows[i].revoked})
    /\ Goto(r, "create")
    /\ UNCHANGED <<userVars, lastId, issued, cookie, expires, cut, uncounted>>

----------------------------------------------------------------------------
(* What happens to requests and rows from outside. *)

\* The client disconnects, which cancels the context of every later statement
\* of the request, or one of them fails.  A crash does this to every request.
Abort(r) ==
    /\ request[r] # Idle
    /\ cut' = (cut \/ request[r].pc = "revoke")
    /\ Done(r)
    /\ UNCHANGED <<userVars, rowVars, ended, uncounted>>

\* Slip: sessions that were not used lately go with the expired ones.
PruneIdleSessions ==
    /\ rows' = [i \in {j \in DOMAIN rows : ~rows[j].revoked /\ rows[j].idle < Refresh} |->
                   rows[i]]
    /\ rows' # rows
    /\ UNCHANGED <<userVars, lastId, issued, cookie, expires, request, historyVars>>

\* pruneExpiredSessions, at every start and every six hours.
PruneExpiredSessions ==
    /\ rows' = [i \in {j \in DOMAIN rows : ~rows[j].revoked /\ rows[j].left >= 0} |->
                   rows[i]]
    /\ rows' # rows
    /\ UNCHANGED <<userVars, lastId, issued, cookie, expires, request, historyVars>>

Tick ==
    /\ rows' = [i \in DOMAIN rows |->
                   [rows[i] EXCEPT !.left = Most(@ - 1, -1),
                                   !.idle = Least(@ + 1, Refresh)]]
    /\ lock' = Most(lock - 1, 0)
    /\ cookie' = [t \in Tokens |-> Most(cookie[t] - 1, 0)]
    /\ expires' = [t \in Tokens |-> Most(expires[t] - 1, 0)]
    /\ request' = [r \in Requests |->
                      IF request[r].pc \in {"insert", "answer", "write"}
                      THEN [request[r] EXCEPT !.lag = Least(@ + 1, TTL + 1)]
                      ELSE request[r]]
    /\ UNCHANGED <<password, attempts, lastId, issued, historyVars>>

----------------------------------------------------------------------------
\* ensureBootstrapAdmin.
SessionsInit ==
    /\ password = 1 /\ attempts = 0 /\ lock = 0
    /\ rows = <<>> /\ lastId = 0 /\ issued = 0
    /\ cookie = [t \in Tokens |-> 0] /\ expires = cookie
    /\ request = [r \in Requests |-> Idle]
    /\ ended = {} /\ cut = FALSE /\ uncounted = 0

RequestNext(r) ==
    \/ LoginReadUser(r) \/ RecordFailedLogin(r) \/ RecordSuccessfulLogin(r)
    \/ TakeTime(r) \/ CreateSession(r) \/ SetCookie(r)
    \/ \E kind \in {"logout", "change", "use"}, token \in Tokens :
          Send(r, kind, token)
    \/ FindAuthSession(r) \/ Unauthenticated(r) \/ TouchRead(r) \/ TouchWrite(r)
    \/ TouchFails(r) \/ Logout(r) \/ LogoutFails(r)
    \/ UpdateUserPassword(r) \/ RevokeAllSessionsForUser(r)
    \/ Abort(r)

SessionsNext ==
    \/ \E r \in Requests : RequestNext(r)
    \/ PruneExpiredSessions
    \/ Tick

SessionsSpec == SessionsInit /\ [][SessionsNext]_sessionVars

----------------------------------------------------------------------------
(* Properties. *)

\* A session that was ended, by a logout or by a change of the password, is
\* never live again, whatever requests were in flight on it at that moment.
EndedStaysOut ==
    \A i \in DOMAIN rows : Live(i) => rows[i].token \notin ended

\* The row a request found by its token and goes on to touch or revoke by id
\* is still the row of that token, or is gone: pruned ids are not reused.
HeldRowIsOwn ==
    \A r \in Requests : request[r].id \in DOMAIN rows =>
        rows[request[r].id].token = request[r].token

\* A browser that has a cookie whose Expires is to come has a session that the
\* server knows, unless it was ended: the expiry of the row starts as that one
\* and slides.  No expiry written late by a slow request, no insertion that had
\* to wait, and no prune cuts it shorter.  (The cookie itself may last longer:
\* its Max-Age starts when it is received.)
CookieCovered ==
    \A t \in Tokens : expires[t] > 0 =>
        \/ t \in ended
        \/ \E i \in DOMAIN rows : /\ Live(i) /\ rows[i].token = t
                                  /\ rows[i].left >= expires[t]

\* A change of the password ends every session opened under an older one,
\* once it is through with its statements; what is left is a session whose
\* request had checked the older password before the change and inserted its
\* row after it.  (A change that is cut short after its first statement leaves
\* the sessions there were.)
OldSessionsEnd ==
    \A i \in DOMAIN rows : Live(i) =>
        \/ rows[i].verified = password \/ rows[i].late
        \/ cut \/ \E r \in Requests : request[r].pc = "revoke"

\* Failures count although each writes one more than it has read, however old
\* that reading is: an attempt that was overtaken sets the counter back, but
\* each time to a higher value, so that there is a last failure that locks the
\* account.  With one request at a time that is failure MaxAttempts; the bound
\* is what any interleaving can make of it, and some do.
FailuresLock ==
    LET n == Cardinality(Requests) IN uncounted < choose(MaxAttempts + n - 1, n)
=============================================================================

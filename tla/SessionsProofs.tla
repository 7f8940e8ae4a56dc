---------------------------- MODULE SessionsProofs ----------------------------
(***************************************************************************)
(* The session table is safe for any number of requests at a time, of      *)
(* sessions and of password changes, and any configured times.  The        *)
(* conjuncts of SessionsInv are inductive together.  That failed logins    *)
(* lock the account has an invariant of its own, FailuresRanked.           *)
(***************************************************************************)
EXTENDS Sessions, Counting

\* Every insertion draws one token and one id; nobody names one not yet drawn.
Drawn ==
    /\ lastId = issued
    /\ \A i \in DOMAIN rows : rows[i].token <= issued
    /\ \A t \in Tokens : cookie[t] > 0 => t <= issued
    /\ \A r \in Requests : request[r].id <= lastId /\ request[r].token <= issued
    /\ \A t \in ended : t <= issued

\* token_hash is unique.
TokensDiffer ==
    \A i, j \in DOMAIN rows : rows[i].token = rows[j].token => i = j

\* The row of an ended session has revoked_at, whatever its expiry.
EndedIsRevoked ==
    \A i \in DOMAIN rows : rows[i].token \in ended => rows[i].revoked

\* A time that is about to be written covers the cookie it is written for.
WriteCovers ==
    \A r \in Requests :
        LET t == request[r].token
        IN  request[r].pc = "write" /\ t \in Tokens /\ expires[t] > 0 =>
                expires[t] + request[r].lag <= TTL

\* Until the answer is received nobody has the token of the session that was
\* inserted for it,
AnswerOwn ==
    \A r \in Requests : request[r].pc = "answer" =>
        LET t == request[r].fresh
        IN  /\ t \in Tokens /\ t <= issued /\ cookie[t] = 0
            /\ \A q \in Requests :
                  /\ request[q].token # t
                  /\ request[q].pc = "answer" /\ q # r => request[q].fresh # t

\* and its row is as old as the time it was given.
AnswerCovers ==
    \A r \in Requests : request[r].pc = "answer" /\ request[r].lag < TTL =>
        \/ request[r].fresh \in ended
        \/ \E i \in DOMAIN rows : /\ ~rows[i].revoked
                                  /\ rows[i].token = request[r].fresh
                                  /\ rows[i].left >= TTL - request[r].lag

\* OldSessionsEnd of the rows that are not revoked, expired ones included: a
\* touch in flight can make those live again.
OldRowsEnd ==
    \A i \in DOMAIN rows : ~rows[i].revoked =>
        \/ rows[i].verified = password \/ rows[i].late
        \/ cut \/ \E r \in Requests : request[r].pc = "revoke"

\* A request that touches has a cookie's token; a time is as old as the step
\* that took it.
HolderKnown ==
    \A r \in Requests :
        /\ request[r].pc \in {"find", "touch", "write", "act"} => request[r].token \in Tokens
        /\ request[r].pc \notin {"insert", "answer", "write"} => request[r].lag = 0

SessionsInv ==
    /\ SessionsTypeOK
    /\ Drawn
    /\ TokensDiffer
    /\ HeldRowIsOwn
    /\ EndedIsRevoked
    /\ CookieCovered
    /\ HolderKnown
    /\ WriteCovers
    /\ AnswerOwn
    /\ AnswerCovers
    /\ OldRowsEnd

----------------------------------------------------------------------------
\* The account's row and what is remembered of it keep their types.
UserType ==
    /\ password \in Passwords \ {0}
    /\ attempts \in 0 .. MaxAttempts - 1 /\ lock \in 0 .. LockFor
    /\ cut \in BOOLEAN /\ uncounted \in Nat

LEMMA IdleType == Idle \in Request
  BY SessionsAssumption DEF Idle, Request, Passwords

LEMMA SessionsInvInit ==
    ASSUME SessionsInit
    PROVE  SessionsInv
  <1>1. rows = <<>> /\ DOMAIN rows = {}
    BY DEF SessionsInit
  <1>2. SessionsTypeOK
    <2>1. DOMAIN rows \subseteq 1 .. lastId /\ \A i \in DOMAIN rows : rows[i] \in Row
      BY <1>1
    <2>2. password = 1 /\ 1 \in Passwords \ {0}
      BY SessionsAssumption DEF SessionsInit, Passwords
    <2>3. /\ attempts \in 0 .. MaxAttempts - 1 /\ lock \in 0 .. LockFor
          /\ lastId \in 0 .. MaxTokens /\ issued \in 0 .. MaxTokens
          /\ cookie \in [Tokens -> 0 .. TTL] /\ expires \in [Tokens -> 0 .. TTL]
      BY SessionsAssumption DEF SessionsInit, Tokens
    <2>4. request \in [Requests -> Request]
      BY IdleType DEF SessionsInit
    <2> QED BY <2>1, <2>2, <2>3, <2>4 DEF SessionsInit, SessionsTypeOK
  <1> QED
    BY <1>1, <1>2, SessionsAssumption
       DEF SessionsInit, SessionsInv, Drawn, TokensDiffer, HeldRowIsOwn,
           EndedIsRevoked, CookieCovered, HolderKnown, WriteCovers, AnswerOwn,
           AnswerCovers, OldRowsEnd,
           Idle, Tokens

\* A step that leaves the session table and the cookies alone, and of the
\* requests changes one, that is in nobody else's way.
LEMMA RequestStep ==
    ASSUME SessionsInv, UserType',
           UNCHANGED rowVars, UNCHANGED ended, cut => cut',
           NEW r \in Requests, NEW x \in Request,
           request' = [request EXCEPT ![r] = x],
           x.id <= lastId, x.token <= issued,
           x.id \in DOMAIN rows => rows[x.id].token = x.token,
           x.pc \in {"find", "touch", "write", "act"} => x.token \in Tokens,
           x.lag = 0, x.pc # "answer",
           \/ x.token \in {0, request[r].token}
           \/ x.token \in Tokens /\ cookie[x.token] > 0,
           \/ x.pc = "revoke"
           \/ password' = password /\ (request[r].pc = "revoke" => cut')
    PROVE  SessionsInv'
  <1> USE DEF SessionsInv, rowVars
  <1>1. SessionsTypeOK'
    BY DEF SessionsTypeOK, UserType
  <1>2. request' \in [Requests -> Request] /\ request'[r] = x
        /\ \A q \in Requests : q # r => request'[q] = request[q]
    BY DEF SessionsTypeOK
  <1>3. Drawn' /\ TokensDiffer' /\ HeldRowIsOwn' /\ EndedIsRevoked'
    BY <1>2 DEF Drawn, TokensDiffer, HeldRowIsOwn, EndedIsRevoked
  <1>4. CookieCovered'
    BY DEF CookieCovered, Live
  <1>5. HolderKnown'
    BY <1>2 DEF HolderKnown, Tokens
  <1>6. WriteCovers'
    <2>1. ASSUME NEW t \in Tokens PROVE expires[t] \in 0 .. TTL
      BY <2>1 DEF SessionsTypeOK
    <2> QED BY <1>2, <2>1, SessionsAssumption DEF WriteCovers
  <1>7. OldRowsEnd'
    <2>1. CASE x.pc = "revoke"
      BY <1>2, <2>1 DEF OldRowsEnd
    <2>2. CASE password' = password /\ (request[r].pc = "revoke" => cut')
      BY <1>2, <2>2 DEF OldRowsEnd
    <2> QED BY <2>1, <2>2
  <1>8. AnswerOwn'
    <2>1. ASSUME NEW q \in Requests, request'[q].pc = "answer"
          PROVE  /\ q # r /\ request'[q] = request[q]
                 /\ x.token # request[q].fresh
      <3>1. q # r /\ request'[q] = request[q] /\ request[q].pc = "answer"
        BY <1>2, <2>1
      <3>2. /\ request[q].fresh \in Tokens /\ cookie[request[q].fresh] = 0
            /\ request[r].token # request[q].fresh
        BY <3>1 DEF AnswerOwn
      <3>3. 0 \notin Tokens
        BY SessionsAssumption DEF Tokens
      <3> QED BY <3>1, <3>2, <3>3
    <2> QED BY <1>2, <2>1 DEF AnswerOwn
  <1>9. AnswerCovers'
    BY <1>2 DEF AnswerCovers
  <1> QED BY <1>1, <1>3, <1>4, <1>5, <1>6, <1>7, <1>8, <1>9

\* What a request is after an authentication, and that it is well formed.
LEMMA PassedRequest ==
    ASSUME SessionsInv, NEW r \in Requests,
           request[r].pc \in {"touch", "write"}
    PROVE  LET x == Passed(request[r])
           IN  /\ x \in Request
               /\ x.id \in {0, request[r].id} /\ x.token \in {0, request[r].token}
               /\ x.id = 0 \/ x.token = request[r].token
               /\ x.pc \in {"idle", "find", "act"} /\ x.lag = 0
               /\ x.pc # "idle" => x.token = request[r].token
  <1>1. request[r] \in Request
    BY DEF SessionsInv, SessionsTypeOK
  <1>2. 0 \in 0 .. TTL + 1 /\ 0 \in 0 .. MaxTokens
    BY SessionsAssumption
  <1>3. CASE request[r].kind = "use"
    BY <1>3, IdleType DEF Passed, Idle
  <1>4. CASE request[r].kind # "use" /\ request[r].gate = "middleware"
    BY <1>1, <1>2, <1>4 DEF Passed, Request
  <1>5. CASE request[r].kind # "use" /\ request[r].gate # "middleware"
    BY <1>1, <1>2, <1>5 DEF Passed, Request
  <1> QED BY <1>3, <1>4, <1>5

----------------------------------------------------------------------------
(* One lemma per action. *)

LEMMA LoginReadUserInv ==
    ASSUME SessionsInv, NEW r \in Requests, LoginReadUser(r)
    PROVE  SessionsInv'
  <1> USE DEF SessionsInv, SessionsTypeOK
  <1>1. UserType' /\ UNCHANGED <<rowVars, ended>> /\ cut' = cut /\ password' = password
    BY DEF LoginReadUser, userVars, historyVars, UserType
  <1>2. request[r].pc # "revoke"
    BY DEF LoginReadUser, Idle
  <1>3. PICK x \in {[Idle EXCEPT !.pc = "fail", !.kind = "login", !.seen = attempts],
                    [Idle EXCEPT !.pc = "succeed", !.kind = "login", !.hash = password]} :
            request' = [request EXCEPT ![r] = x]
    BY DEF LoginReadUser
  <1>4. x \in Request
    BY <1>3, IdleType DEF Request, Idle
  <1>5. x.id = 0 /\ x.token = 0 /\ x.lag = 0 /\ x.pc \in {"fail", "succeed"}
    BY <1>3 DEF Idle
  <1>6. 0 \notin DOMAIN rows /\ 0 <= lastId /\ 0 <= issued
    BY SessionsAssumption
  <1> QED BY <1>1, <1>2, <1>3, <1>4, <1>5, <1>6, RequestStep

LEMMA DoneInv ==
    ASSUME SessionsInv, NEW r \in Requests, Done(r), UserType',
           UNCHANGED <<rowVars, ended, password>>, cut => cut',
           request[r].pc = "revoke" => cut'
    PROVE  SessionsInv'
  <1>1. Idle.id = 0 /\ Idle.token = 0 /\ Idle.lag = 0 /\ Idle.pc = "idle"
    BY DEF Idle
  <1>2. 0 \notin DOMAIN rows /\ 0 <= lastId /\ 0 <= issued
    BY SessionsAssumption DEF SessionsInv, SessionsTypeOK
  <1> QED BY <1>1, <1>2, IdleType, RequestStep DEF Done

LEMMA RecordFailedLoginInv ==
    ASSUME SessionsInv, NEW r \in Requests, RecordFailedLogin(r)
    PROVE  SessionsInv'
  <1>1. request[r].seen \in 0 .. MaxAttempts - 1
    BY DEF SessionsInv, SessionsTypeOK, Request
  <1>2. UserType'
    BY <1>1, SessionsAssumption
       DEF SessionsInv, SessionsTypeOK, RecordFailedLogin, UserType
  <1> QED BY <1>2, DoneInv DEF RecordFailedLogin

LEMMA AbortInv ==
    ASSUME SessionsInv, NEW r \in Requests, Abort(r)
    PROVE  SessionsInv'
  <1>1. UserType'
    BY DEF SessionsInv, SessionsTypeOK, Abort, UserType, userVars
  <1> QED BY <1>1, DoneInv DEF Abort, userVars

LEMMA RecordSuccessfulLoginInv ==
    ASSUME SessionsInv, NEW r \in Requests, RecordSuccessfulLogin(r)
    PROVE  SessionsInv'
  <1> USE DEF SessionsInv, SessionsTypeOK
  <1> DEFINE x == [request[r] EXCEPT !.pc = "create"]
  <1>1. UserType'
    BY SessionsAssumption DEF RecordSuccessfulLogin, UserType
  <1>2. x \in Request /\ x.id = request[r].id /\ x.token = request[r].token
        /\ x.lag = request[r].lag /\ x.pc = "create"
    BY DEF Request
  <1>3. request' = [request EXCEPT ![r] = x]
    BY DEF RecordSuccessfulLogin, Goto
  <1>4. request[r].pc = "succeed"
    BY DEF RecordSuccessfulLogin
  <1> QED
    BY <1>1, <1>2, <1>3, <1>4, RequestStep
       DEF RecordSuccessfulLogin, Drawn, HeldRowIsOwn, HolderKnown

LEMMA SendInv ==
    ASSUME SessionsInv, NEW r \in Requests, NEW token \in Tokens,
           NEW kind \in {"logout", "change", "use"}, Send(r, kind, token)
    PROVE  SessionsInv'
  <1> USE DEF SessionsInv, SessionsTypeOK
  <1> DEFINE x == [Idle EXCEPT !.pc = "find", !.kind = kind, !.token = token]
  <1>1. UserType' /\ UNCHANGED <<rowVars, ended>> /\ cut' = cut /\ password' = password
    BY DEF Send, UserType, userVars, historyVars
  <1>2. x \in Request /\ x.id = 0 /\ x.token = token /\ x.lag = 0 /\ x.pc = "find"
    <2>1. token \in 0 .. MaxTokens
      BY SessionsAssumption DEF Tokens
    <2>2. Idle.id = 0 /\ Idle.lag = 0
      BY DEF Idle
    <2> QED BY <2>1, <2>2, IdleType DEF Request
  <1>3. request' = [request EXCEPT ![r] = x] /\ request[r].pc # "revoke"
    BY DEF Send, Idle
  <1>4. 0 \notin DOMAIN rows /\ 0 <= lastId /\ token <= issued /\ cookie[token] > 0
    BY SessionsAssumption DEF Send, Drawn
  <1> QED BY <1>1, <1>2, <1>3, <1>4, RequestStep

LEMMA FindAuthSessionInv ==
    ASSUME SessionsInv, NEW r \in Requests, FindAuthSession(r)
    PROVE  SessionsInv'
  <1> USE DEF SessionsInv, SessionsTypeOK
  <1>1. UserType' /\ UNCHANGED <<rowVars, ended>> /\ cut' = cut /\ password' = password
    BY DEF FindAuthSession, UserType, userVars, historyVars
  <1>2. PICK i \in DOMAIN rows :
            /\ rows[i].token = request[r].token
            /\ request' = [request EXCEPT ![r].pc = "touch", ![r].id = i]
    BY DEF FindAuthSession
  <1> DEFINE x == [request[r] EXCEPT !.pc = "touch", !.id = i]
  <1>3. request' = [request EXCEPT ![r] = x]
    BY <1>2
  <1>4. i \in 0 .. MaxTokens /\ i <= lastId
    BY <1>2, SessionsAssumption
  <1>5. x \in Request /\ x.id = i /\ x.token = request[r].token
        /\ x.lag = request[r].lag /\ x.pc = "touch"
    BY <1>4 DEF Request
  <1>6. request[r].pc = "find" /\ x.token \in Tokens /\ x.token <= issued /\ x.lag = 0
    BY <1>5 DEF FindAuthSession, Drawn, HolderKnown
  <1>7. rows[x.id].token = x.token /\ x.id <= lastId
    BY <1>2, <1>4, <1>5
  <1> HIDE DEF x
  <1> QED BY <1>1, <1>3, <1>5, <1>6, <1>7, RequestStep

\* The request goes on past its touch, and the table is as it was.
LEMMA PassedInv ==
    ASSUME SessionsInv, NEW r \in Requests, request[r].pc \in {"touch", "write"},
           request' = [request EXCEPT ![r] = Passed(@)],
           UNCHANGED <<userVars, rowVars, historyVars>>
    PROVE  SessionsInv'
  <1> USE DEF SessionsInv, SessionsTypeOK
  <1> DEFINE x == Passed(request[r])
  <1>1. UserType' /\ UNCHANGED <<rowVars, ended>> /\ cut' = cut /\ password' = password
    BY DEF UserType, userVars, historyVars
  <1>2. request' = [request EXCEPT ![r] = x] /\ request[r].pc # "revoke"
    OBVIOUS
  <1>3. /\ x \in Request
        /\ x.id \in {0, request[r].id} /\ x.token \in {0, request[r].token}
        /\ x.id = 0 \/ x.token = request[r].token
        /\ x.pc \in {"idle", "find", "act"} /\ x.lag = 0
        /\ x.pc # "idle" => x.token = request[r].token
    BY PassedRequest
  <1>4. 0 \notin DOMAIN rows /\ 0 <= lastId /\ 0 <= issued
    BY SessionsAssumption
  <1>5. x.id <= lastId /\ x.token <= issued
    BY <1>3, <1>4 DEF Drawn
  <1>6. x.id \in DOMAIN rows => rows[x.id].token = x.token
    BY <1>3, <1>4 DEF HeldRowIsOwn
  <1>7. x.pc \in {"find", "touch", "write", "act"} => x.token \in Tokens
    BY <1>3 DEF HolderKnown
  <1> HIDE DEF x
  <1> QED BY <1>1, <1>2, <1>3, <1>5, <1>6, <1>7, RequestStep

LEMMA TouchReadInv ==
    ASSUME SessionsInv, NEW r \in Requests, TouchRead(r)
    PROVE  SessionsInv'
  <1> USE DEF SessionsInv, SessionsTypeOK
  <1> DEFINE x == [request[r] EXCEPT !.pc = "write"]
  <1>1. UserType' /\ UNCHANGED <<rowVars, ended>> /\ cut' = cut /\ password' = password
    BY DEF TouchRead, UserType, userVars, historyVars
  <1>2. CASE request' = [request EXCEPT ![r] = Passed(@)]
    BY <1>2, PassedInv DEF TouchRead
  <1>3. CASE request' = [request EXCEPT ![r] = x]
    <2>1. x \in Request /\ x.id = request[r].id /\ x.token = request[r].token
          /\ x.lag = request[r].lag /\ x.pc = "write"
      BY DEF Request
    <2>2. request[r].pc = "touch"
      BY DEF TouchRead
    <2> QED
      BY <1>1, <1>3, <2>1, <2>2, RequestStep
         DEF Drawn, HolderKnown, HeldRowIsOwn
  <1> QED BY <1>2, <1>3 DEF TouchRead

LEMMA TouchFailsInv ==
    ASSUME SessionsInv, NEW r \in Requests, TouchFails(r)
    PROVE  SessionsInv'
  BY PassedInv DEF TouchFails

LEMMA UpdateUserPasswordInv ==
    ASSUME SessionsInv, NEW r \in Requests, UpdateUserPassword(r)
    PROVE  SessionsInv'
  <1> USE DEF SessionsInv, SessionsTypeOK
  <1> DEFINE x == [request[r] EXCEPT !.pc = "revoke", !.id = 0, !.hash = password + 1]
  <1>1. password + 1 \in Passwords \ {0}
    BY SessionsAssumption DEF UpdateUserPassword, Passwords
  <1>2. UserType'
    BY <1>1, SessionsAssumption DEF UpdateUserPassword, UserType
  <1>3. x \in Request /\ x.id = 0 /\ x.token = request[r].token
        /\ x.lag = request[r].lag /\ x.pc = "revoke"
    <2>1. request[r] \in Request /\ 0 \in 0 .. MaxTokens /\ password + 1 \in Passwords
      BY <1>1, SessionsAssumption
    <2> QED BY <2>1 DEF Request
  <1>4. request' = [request EXCEPT ![r] = x] /\ request[r].pc = "act"
    BY DEF UpdateUserPassword
  <1>5. 0 \notin DOMAIN rows /\ 0 <= lastId
    BY SessionsAssumption
  <1>6. x.token <= issued /\ x.lag = 0
    BY <1>3, <1>4 DEF Drawn, HolderKnown
  <1>7. UNCHANGED <<rowVars, ended>> /\ cut' = cut
    BY DEF UpdateUserPassword
  <1> HIDE DEF x
  <1> QED BY <1>2, <1>3, <1>4, <1>5, <1>6, <1>7, RequestStep

\* Cookies may go, and nothing is left of the request.
LEMMA CookieDropped ==
    ASSUME SessionsInv, NEW r \in Requests, Done(r), UserType',
           UNCHANGED <<rows, lastId, issued, ended, password, cut>>,
           request[r].pc # "revoke",
           ClearCookie(r) \/ UNCHANGED <<cookie, expires>>
    PROVE  SessionsInv'
  <1> USE DEF SessionsInv
  <1>1. cookie' \in [Tokens -> 0 .. TTL] /\ expires' \in [Tokens -> 0 .. TTL]
    BY SessionsAssumption DEF SessionsTypeOK, ClearCookie
  <1>2. \A t \in Tokens : /\ cookie'[t] > 0 => cookie'[t] = cookie[t]
                          /\ expires'[t] > 0 => expires'[t] = expires[t]
                          /\ cookie[t] = 0 => cookie'[t] = 0
    BY DEF SessionsTypeOK, ClearCookie
  <1>3. request' \in [Requests -> Request] /\ request'[r] = Idle
        /\ \A q \in Requests : q # r => request'[q] = request[q]
    BY IdleType DEF SessionsTypeOK, Done
  <1>4. Idle.id = 0 /\ Idle.token = 0 /\ Idle.lag = 0 /\ Idle.pc = "idle"
    BY DEF Idle
  <1>5. SessionsTypeOK'
    BY <1>1, <1>3 DEF SessionsTypeOK, UserType
  <1>6. 0 \notin DOMAIN rows /\ 0 <= lastId /\ 0 <= issued
    BY SessionsAssumption DEF SessionsTypeOK
  <1>7. Drawn' /\ TokensDiffer' /\ HeldRowIsOwn' /\ EndedIsRevoked'
    BY <1>2, <1>3, <1>4, <1>6 DEF Drawn, TokensDiffer, HeldRowIsOwn, EndedIsRevoked
  <1>8. CookieCovered'
    BY <1>2 DEF CookieCovered, Live
  <1>9. HolderKnown' /\ WriteCovers'
    BY <1>2, <1>3, <1>4 DEF HolderKnown, WriteCovers
  <1>10. OldRowsEnd'
    BY <1>3 DEF OldRowsEnd
  <1>11. AnswerOwn' /\ AnswerCovers'
    <2>1. 0 \notin Tokens
      BY SessionsAssumption DEF Tokens
    <2>2. AnswerOwn'
      BY <1>2, <1>3, <1>4, <2>1 DEF AnswerOwn
    <2>3. AnswerCovers'
      BY <1>3, <1>4 DEF AnswerCovers
    <2> QED BY <2>2, <2>3
  <1> QED BY <1>5, <1>7, <1>8, <1>9, <1>10, <1>11

LEMMA UnauthenticatedInv ==
    ASSUME SessionsInv, NEW r \in Requests, Unauthenticated(r)
    PROVE  SessionsInv'
  <1>1. UserType'
    BY DEF SessionsInv, SessionsTypeOK, Unauthenticated, UserType, userVars, historyVars
  <1> QED BY <1>1, CookieDropped DEF Unauthenticated, userVars, historyVars

LEMMA LogoutFailsInv ==
    ASSUME SessionsInv, NEW r \in Requests, LogoutFails(r)
    PROVE  SessionsInv'
  <1>1. UserType'
    BY DEF SessionsInv, SessionsTypeOK, LogoutFails, UserType, userVars, historyVars
  <1> QED BY <1>1, CookieDropped DEF LogoutFails, userVars, historyVars

\* The invariant of the table alone, after some rows were revoked.
LEMMA RevokeRows ==
    ASSUME SessionsInv, NEW ids, Revoke(ids)
    PROVE  /\ DOMAIN rows' = DOMAIN rows
           /\ \A i \in DOMAIN rows :
                /\ rows'[i] \in Row /\ rows'[i].token = rows[i].token
                /\ rows'[i].left = rows[i].left
                /\ rows'[i].verified = rows[i].verified /\ rows'[i].late = rows[i].late
                /\ rows'[i].revoked = (rows[i].revoked \/ i \in ids)
           /\ ended' \subseteq Tokens /\ ended \subseteq ended'
           /\ \A t \in ended' : t <= issued
           /\ \A i \in DOMAIN rows : rows[i].token \in ended' => rows'[i].revoked
           /\ \A i \in ids \cap DOMAIN rows : rows[i].token \in ended'
  <1> USE DEF SessionsInv
  <1>1. DOMAIN rows' = DOMAIN rows
        /\ \A i \in DOMAIN rows :
             rows'[i] = IF i \in ids THEN [rows[i] EXCEPT !.revoked = TRUE] ELSE rows[i]
    BY DEF Revoke
  <1>2. \A i \in DOMAIN rows : rows[i] \in Row
    BY DEF SessionsTypeOK
  <1>3. \A i \in DOMAIN rows :
            /\ rows'[i] \in Row /\ rows'[i].token = rows[i].token
            /\ rows'[i].left = rows[i].left
            /\ rows'[i].verified = rows[i].verified /\ rows'[i].late = rows[i].late
            /\ rows'[i].revoked = (rows[i].revoked \/ i \in ids)
    BY <1>1, <1>2 DEF Row
  <1>4. ended' = ended \cup {rows[i].token : i \in ids \cap DOMAIN rows}
    BY DEF Revoke
  <1>5. ended' \subseteq Tokens /\ ended \subseteq ended'
    BY <1>2, <1>4 DEF SessionsTypeOK, Row
  <1>6. \A t \in ended' : t <= issued
    BY <1>4 DEF Drawn
  <1>7. ASSUME NEW i \in DOMAIN rows, rows[i].token \in ended'
        PROVE  rows'[i].revoked
    <2>1. CASE rows[i].token \in ended
      BY <1>3, <2>1 DEF EndedIsRevoked
    <2>2. CASE \E j \in ids \cap DOMAIN rows : rows[i].token = rows[j].token
      BY <1>3, <2>2 DEF TokensDiffer
    <2> QED BY <1>4, <1>7, <2>1, <2>2
  <1>8. \A i \in ids \cap DOMAIN rows : rows[i].token \in ended'
    BY <1>4
  <1> QED BY <1>1, <1>3, <1>5, <1>6, <1>7, <1>8

\* A row that covers a cookie, or an answer, goes on covering it unless its
\* session ends.
LEMMA RevokeCovers ==
    ASSUME SessionsInv, NEW ids, Revoke(ids),
           \A t \in Tokens : expires'[t] > 0 => expires'[t] = expires[t],
           \A q \in Requests : request'[q].pc = "answer" => request'[q] = request[q]
    PROVE  CookieCovered' /\ AnswerCovers'
  <1>1. CookieCovered'
    <2> SUFFICES ASSUME NEW t \in Tokens, expires'[t] > 0, t \notin ended'
                 PROVE  \E i \in DOMAIN rows' :
                            /\ Live(i)' /\ rows'[i].token = t
                            /\ rows'[i].left >= expires'[t]
      BY DEF CookieCovered, Live
    <2>1. PICK i \in DOMAIN rows :
              /\ Live(i) /\ rows[i].token = t /\ rows[i].left >= expires[t]
      BY RevokeRows DEF SessionsInv, CookieCovered, Live
    <2>2. ~rows'[i].revoked
      BY <2>1, RevokeRows DEF Live
    <2> QED BY <2>1, <2>2, RevokeRows DEF Live
  <1>2. AnswerCovers'
    <2> SUFFICES ASSUME NEW q \in Requests, request'[q].pc = "answer",
                        request'[q].lag < TTL, request'[q].fresh \notin ended'
                 PROVE  \E i \in DOMAIN rows' :
                            /\ ~rows'[i].revoked /\ rows'[i].token = request'[q].fresh
                            /\ rows'[i].left >= TTL - request'[q].lag
      BY DEF AnswerCovers
    <2>1. request'[q] = request[q] /\ request[q].fresh \notin ended
      BY RevokeRows
    <2>2. PICK i \in DOMAIN rows :
              /\ ~rows[i].revoked /\ rows[i].token = request[q].fresh
              /\ rows[i].left >= TTL - request[q].lag
      BY <2>1 DEF SessionsInv, AnswerCovers
    <2>3. ~rows'[i].revoked
      <3>1. rows[i].token \notin ended'
        BY <2>1, <2>2
      <3>2. i \notin ids
        BY <2>2, <3>1, RevokeRows
      <3> QED BY <2>2, <3>2, RevokeRows
    <2> QED BY <2>1, <2>2, <2>3, RevokeRows
  <1> QED BY <1>1, <1>2

LEMMA LogoutInv ==
    ASSUME SessionsInv, NEW r \in Requests, Logout(r)
    PROVE  SessionsInv'
  <1> USE DEF SessionsInv
  <1> DEFINE ids == {request[r].id}
  <1>0. Revoke(ids)
    BY DEF Logout
  <1>1. /\ cookie' \in [Tokens -> 0 .. TTL] /\ expires' \in [Tokens -> 0 .. TTL]
        /\ \A t \in Tokens : /\ cookie'[t] > 0 => cookie'[t] = cookie[t]
                             /\ expires'[t] > 0 => expires'[t] = expires[t]
                             /\ cookie[t] = 0 => cookie'[t] = 0
    <2>1. /\ cookie' = [cookie EXCEPT ![request[r].token] = 0]
          /\ expires' = [expires EXCEPT ![request[r].token] = 0]
          /\ cookie \in [Tokens -> 0 .. TTL] /\ expires \in [Tokens -> 0 .. TTL]
      BY DEF SessionsTypeOK, Logout, ClearCookie
    <2>2. 0 \in 0 .. TTL
      BY SessionsAssumption
    <2>3. cookie' \in [Tokens -> 0 .. TTL] /\ expires' \in [Tokens -> 0 .. TTL]
      BY <2>1, <2>2
    <2>4. \A t \in Tokens : /\ cookie'[t] = cookie[t] \/ cookie'[t] = 0
                            /\ expires'[t] = expires[t] \/ expires'[t] = 0
      BY <2>1
    <2> QED BY <2>3, <2>4
  <1>2. request' \in [Requests -> Request] /\ request'[r] = Idle
        /\ \A q \in Requests : q # r => request'[q] = request[q]
    BY IdleType DEF SessionsTypeOK, Done, Logout
  <1>3. Idle.id = 0 /\ Idle.token = 0 /\ Idle.lag = 0 /\ Idle.pc = "idle"
        /\ request[r].pc # "revoke"
    BY DEF Idle, Logout
  <1>4. UNCHANGED <<userVars, lastId, issued, cut, uncounted>>
    BY DEF Logout
  <1> HIDE DEF ids
  <1>5. SessionsTypeOK'
    BY <1>0, <1>1, <1>2, <1>4, RevokeRows DEF SessionsTypeOK, userVars
  <1>6. 0 \notin DOMAIN rows /\ 0 <= lastId /\ 0 <= issued
    BY SessionsAssumption DEF SessionsTypeOK
  <1>7. Drawn' /\ TokensDiffer' /\ HeldRowIsOwn' /\ EndedIsRevoked'
    BY <1>0, <1>1, <1>2, <1>3, <1>4, <1>6, RevokeRows
       DEF Drawn, TokensDiffer, HeldRowIsOwn, EndedIsRevoked
  <1>8. CookieCovered' /\ AnswerCovers'
    BY <1>0, <1>1, <1>2, <1>3, RevokeCovers
  <1>8a. AnswerOwn'
    <2>1. 0 \notin Tokens
      BY SessionsAssumption DEF Tokens
    <2> QED BY <1>1, <1>2, <1>3, <1>4, <2>1 DEF AnswerOwn
  <1>9. HolderKnown' /\ WriteCovers'
    BY <1>1, <1>2, <1>3 DEF HolderKnown, WriteCovers
  <1>10. OldRowsEnd'
    <2>1. ASSUME NEW i \in DOMAIN rows', ~rows'[i].revoked
          PROVE  i \in DOMAIN rows /\ ~rows[i].revoked
                 /\ rows'[i].verified = rows[i].verified /\ rows'[i].late = rows[i].late
      BY <1>0, <2>1, RevokeRows
    <2>2. \A q \in Requests : request[q].pc = "revoke" => request'[q].pc = "revoke"
      BY <1>2, <1>3
    <2> QED BY <1>4, <2>1, <2>2 DEF OldRowsEnd, userVars
  <1> QED BY <1>5, <1>7, <1>8, <1>8a, <1>9, <1>10

LEMMA RevokeAllInv ==
    ASSUME SessionsInv, NEW r \in Requests, RevokeAllSessionsForUser(r)
    PROVE  SessionsInv'
  <1> USE DEF SessionsInv
  <1> DEFINE ids == {i \in DOMAIN rows : ~rows[i].revoked}
             x == [request[r] EXCEPT !.pc = "create"]
  <1>0. Revoke(ids)
    BY DEF RevokeAllSessionsForUser
  <1>1. \A i \in DOMAIN rows' : rows'[i].revoked
    <2>1. ids \in SUBSET DOMAIN rows /\ \A i \in DOMAIN rows : rows[i].revoked \in BOOLEAN
      BY DEF SessionsTypeOK, Row
    <2> QED BY <1>0, <2>1, RevokeRows
  <1>2. x \in Request /\ x.id = request[r].id /\ x.token = request[r].token
        /\ x.lag = request[r].lag /\ x.pc = "create"
    BY DEF Request, SessionsTypeOK
  <1>3. request' \in [Requests -> Request] /\ request'[r] = x
        /\ \A q \in Requests : q # r => request'[q] = request[q]
    BY <1>2 DEF SessionsTypeOK, Goto, RevokeAllSessionsForUser
  <1>4. UNCHANGED <<userVars, lastId, issued, cookie, expires, cut, uncounted>>
        /\ request[r].pc = "revoke"
    BY DEF RevokeAllSessionsForUser
  <1> HIDE DEF ids, x
  <1>5. SessionsTypeOK'
    BY <1>0, <1>3, <1>4, RevokeRows DEF SessionsTypeOK, userVars
  <1>7. Drawn' /\ TokensDiffer' /\ HeldRowIsOwn' /\ EndedIsRevoked'
    BY <1>0, <1>2, <1>3, <1>4, RevokeRows
       DEF Drawn, TokensDiffer, HeldRowIsOwn, EndedIsRevoked
  <1>8. CookieCovered' /\ AnswerCovers'
    BY <1>0, <1>2, <1>3, <1>4, RevokeCovers
  <1>8a. AnswerOwn'
    BY <1>2, <1>3, <1>4 DEF AnswerOwn
  <1>9. HolderKnown' /\ WriteCovers'
    BY <1>2, <1>3, <1>4 DEF HolderKnown, WriteCovers
  <1>10. OldRowsEnd'
    BY <1>1 DEF OldRowsEnd
  <1> QED BY <1>5, <1>7, <1>8, <1>8a, <1>9, <1>10

LEMMA CreateSessionInv ==
    ASSUME SessionsInv, NEW r \in Requests, CreateSession(r)
    PROVE  SessionsInv'
  <1> USE DEF SessionsInv
  <1> DEFINE lag == request[r].lag
             new == [token |-> issued + 1, left |-> Most(TTL - lag, -1),
                     idle |-> Least(lag, Refresh),
                     revoked |-> FALSE, verified |-> request[r].hash,
                     late |-> request[r].hash # password]
             x == [request[r] EXCEPT !.pc = "answer", !.fresh = issued + 1]
  <1>1. /\ lastId' = lastId + 1 /\ issued' = issued + 1 /\ lastId = issued
        /\ issued + 1 \in Tokens /\ lastId + 1 \notin DOMAIN rows
        /\ lastId \in Nat /\ lastId' \in 0 .. MaxTokens
    BY SessionsAssumption DEF CreateSession, NextId, SessionsTypeOK, Drawn, Tokens
  <1>2. DOMAIN rows' = DOMAIN rows \cup {lastId + 1} /\ rows'[lastId + 1] = new
        /\ \A i \in DOMAIN rows : rows'[i] = rows[i]
    BY <1>1 DEF CreateSession, NextId
  <1>3. lag \in 0 .. TTL + 1 /\ Most(TTL - lag, -1) \in -1 .. TTL
        /\ Most(TTL - lag, -1) >= TTL - lag /\ Least(lag, Refresh) \in 0 .. Refresh
    <2>1. lag \in 0 .. TTL + 1
      BY DEF SessionsTypeOK, Request
    <2> QED BY <2>1, SessionsAssumption DEF Most, Least
  <1>3a. new \in Row
    <2>1. request[r].hash \in Passwords /\ (request[r].hash # password) \in BOOLEAN
      BY DEF SessionsTypeOK, Request
    <2> QED BY <1>1, <1>3, <2>1 DEF Row
  <1>4. request[r].pc = "insert"
    BY DEF CreateSession
  <1>5. request' \in [Requests -> Request] /\ request'[r] = x
        /\ \A q \in Requests : q # r => request'[q] = request[q]
    <2>1. request' = [request EXCEPT ![r] = x]
      BY DEF CreateSession
    <2>2. issued + 1 \in 0 .. MaxTokens /\ request \in [Requests -> Request]
      BY <1>1 DEF Tokens, SessionsTypeOK
    <2>3. x \in Request
      BY <2>2 DEF Request
    <2> QED BY <2>1, <2>2, <2>3
  <1>6. x.id = request[r].id /\ x.token = request[r].token /\ x.lag = lag
        /\ x.pc = "answer" /\ x.fresh = issued + 1
    BY DEF SessionsTypeOK, Request
  <1>7. UNCHANGED <<userVars, cookie, expires, historyVars>>
    BY DEF CreateSession
  <1>8. new.token = issued + 1 /\ new.left >= TTL - lag /\ new.revoked = FALSE
        /\ (new.verified = password \/ new.late)
    BY <1>3
  <1> HIDE DEF new, x, lag
  <1>9. SessionsTypeOK'
    <2>1. DOMAIN rows' \subseteq 1 .. lastId' /\ \A i \in DOMAIN rows' : rows'[i] \in Row
      BY <1>1, <1>2, <1>3a DEF SessionsTypeOK
    <2> QED
      BY <1>1, <1>5, <1>7, <2>1 DEF SessionsTypeOK, userVars, historyVars
  <1>10. issued + 1 \notin ended /\ \A i \in DOMAIN rows : rows[i].token # issued + 1
    BY <1>1 DEF Drawn, SessionsTypeOK, Row, Tokens
  <1>11. \A q \in Requests : request[q].id <= lastId /\ request[q].token <= issued
         /\ request[q].id \in Int /\ request[q].token \in Int
    BY DEF Drawn, SessionsTypeOK, Request
  <1>12. Drawn'
    <2>1. \A i \in DOMAIN rows : rows[i].token \in Int /\ rows[i].token <= issued
      BY DEF Drawn, SessionsTypeOK, Row, Tokens
    <2>2. \A t \in Tokens : t \in Int /\ (cookie[t] > 0 => t <= issued)
      BY DEF Drawn, Tokens
    <2>3. \A t \in ended : t \in Int /\ t <= issued
      BY DEF Drawn, Tokens, SessionsTypeOK
    <2> QED
      BY <1>1, <1>2, <1>5, <1>6, <1>7, <1>8, <1>11, <2>1, <2>2, <2>3
         DEF Drawn, historyVars
  <1>13. TokensDiffer'
    BY <1>2, <1>8, <1>10 DEF TokensDiffer
  <1>14. HeldRowIsOwn'
    <2>1. ASSUME NEW q \in Requests, request'[q].id \in DOMAIN rows'
          PROVE  rows'[request'[q].id].token = request'[q].token
      <3>1. request'[q].id = request[q].id /\ request'[q].token = request[q].token
        BY <1>5, <1>6
      <3>2. request[q].id \in DOMAIN rows
        BY <1>1, <1>2, <1>11, <2>1, <3>1
      <3> QED BY <1>2, <3>1, <3>2 DEF HeldRowIsOwn
    <2> QED BY <2>1 DEF HeldRowIsOwn
  <1>15. EndedIsRevoked'
    BY <1>2, <1>7, <1>8, <1>10 DEF EndedIsRevoked, historyVars
  <1>16. CookieCovered'
    BY <1>2, <1>7 DEF CookieCovered, Live, historyVars
  <1>17. HolderKnown' /\ WriteCovers'
    BY <1>4, <1>5, <1>6, <1>7 DEF HolderKnown, WriteCovers
  <1>18. AnswerOwn'
    <2>1. cookie[issued + 1] = 0
      BY <1>1 DEF Drawn, SessionsTypeOK
    <2>2. \A q \in Requests : request[q].token # issued + 1
      BY <1>1, <1>11
    <2>3. ASSUME NEW q \in Requests, request[q].pc = "answer"
          PROVE  request[q].fresh # issued + 1 /\ request[q].fresh <= issued'
      BY <1>1, <2>3 DEF AnswerOwn, Tokens
    <2> QED BY <1>1, <1>4, <1>5, <1>6, <1>7, <2>1, <2>2, <2>3 DEF AnswerOwn
  <1>18a. AnswerCovers'
    <2>1. ASSUME NEW q \in Requests, q # r, request'[q].pc = "answer",
                 request'[q].lag < TTL, request'[q].fresh \notin ended'
          PROVE  \E i \in DOMAIN rows' :
                     /\ ~rows'[i].revoked /\ rows'[i].token = request'[q].fresh
                     /\ rows'[i].left >= TTL - request'[q].lag
      BY <1>2, <1>5, <1>7, <2>1 DEF AnswerCovers, historyVars
    <2>2. /\ lastId + 1 \in DOMAIN rows' /\ ~rows'[lastId + 1].revoked
          /\ rows'[lastId + 1].token = request'[r].fresh
          /\ rows'[lastId + 1].left >= TTL - request'[r].lag
      BY <1>2, <1>5, <1>6, <1>8
    <2> QED BY <2>1, <2>2 DEF AnswerCovers
  <1>19. OldRowsEnd'
    BY <1>2, <1>4, <1>5, <1>6, <1>7, <1>8 DEF OldRowsEnd, userVars, historyVars
  <1> QED BY <1>9, <1>12, <1>13, <1>14, <1>15, <1>16, <1>17, <1>18,
         <1>18a, <1>19

LEMMA TakeTimeInv ==
    ASSUME SessionsInv, NEW r \in Requests, TakeTime(r)
    PROVE  SessionsInv'
  <1> USE DEF SessionsInv, SessionsTypeOK
  <1> DEFINE x == [request[r] EXCEPT !.pc = "insert"]
  <1>1. UserType' /\ UNCHANGED <<rowVars, ended>> /\ cut' = cut /\ password' = password
    BY DEF TakeTime, UserType, userVars, historyVars
  <1>2. x \in Request /\ x.id = request[r].id /\ x.token = request[r].token
        /\ x.lag = request[r].lag /\ x.pc = "insert"
    BY DEF Request
  <1>3. request' = [request EXCEPT ![r] = x] /\ request[r].pc = "create"
    BY DEF TakeTime, Goto
  <1> QED
    BY <1>1, <1>2, <1>3, RequestStep DEF Drawn, HeldRowIsOwn, HolderKnown

\* The cookie's Expires is the expiry of the row, if that is still to come.
LEMMA SetCookieInv ==
    ASSUME SessionsInv, NEW r \in Requests, SetCookie(r)
    PROVE  SessionsInv'
  <1> USE DEF SessionsInv
  <1> DEFINE t == request[r].fresh
             lag == request[r].lag
  <1>1. /\ request[r].pc = "answer" /\ lag \in 0 .. TTL + 1
        /\ Most(TTL - lag, 0) \in 0 .. TTL
        /\ Most(TTL - lag, 0) > 0 => lag < TTL /\ Most(TTL - lag, 0) = TTL - lag
    <2>1. lag \in 0 .. TTL + 1 /\ request[r].pc = "answer"
      BY DEF SessionsTypeOK, Request, SetCookie
    <2> QED BY <2>1, SessionsAssumption DEF Most
  <1>2. /\ t \in Tokens /\ t <= issued
        /\ \A q \in Requests :
              /\ request[q].token # t
              /\ request[q].pc = "answer" /\ q # r => request[q].fresh # t
    BY <1>1 DEF AnswerOwn
  <1>3. /\ cookie' \in [Tokens -> 0 .. TTL] /\ expires' \in [Tokens -> 0 .. TTL]
        /\ expires'[t] = Most(TTL - lag, 0)
        /\ \A u \in Tokens : u # t => /\ cookie'[u] \in {0, cookie[u]}
                                      /\ expires'[u] \in {0, expires[u]}
    <2>1. /\ cookie' = [u \in Tokens |-> IF u = t THEN TTL
                                        ELSE IF u = request[r].token THEN 0
                                        ELSE cookie[u]]
          /\ expires' = [u \in Tokens |-> IF u = t THEN Most(TTL - lag, 0)
                                         ELSE IF u = request[r].token THEN 0
                                         ELSE expires[u]]
      BY DEF SetCookie
    <2>2. \A u \in Tokens : cookie[u] \in 0 .. TTL /\ expires[u] \in 0 .. TTL
      BY DEF SessionsTypeOK
    <2>3. 0 \in 0 .. TTL /\ TTL \in 0 .. TTL
      BY SessionsAssumption
    <2> QED BY <1>1, <1>2, <2>1, <2>2, <2>3
  <1>4. request' \in [Requests -> Request] /\ request'[r] = Idle
        /\ \A q \in Requests : q # r => request'[q] = request[q]
    BY IdleType DEF SessionsTypeOK, Done, SetCookie
  <1>5. Idle.id = 0 /\ Idle.token = 0 /\ Idle.lag = 0 /\ Idle.pc = "idle"
    BY DEF Idle
  <1>6. UNCHANGED <<userVars, rows, lastId, issued, historyVars>>
    BY DEF SetCookie
  <1>7. 0 \notin DOMAIN rows /\ 0 <= lastId /\ 0 <= issued /\ 0 \notin Tokens
    BY SessionsAssumption DEF SessionsTypeOK, Tokens
  <1> HIDE DEF t, lag
  <1>8. SessionsTypeOK'
    BY <1>3, <1>4, <1>6 DEF SessionsTypeOK, userVars, historyVars
  <1>9. Drawn' /\ TokensDiffer' /\ HeldRowIsOwn' /\ EndedIsRevoked'
    <2>1. Drawn'
      BY <1>2, <1>3, <1>4, <1>5, <1>6, <1>7 DEF Drawn, historyVars
    <2> QED
      BY <1>4, <1>5, <1>6, <1>7, <2>1
         DEF TokensDiffer, HeldRowIsOwn, EndedIsRevoked, historyVars
  <1>10. CookieCovered'
    <2>1. ASSUME expires'[t] > 0, t \notin ended
          PROVE  \E i \in DOMAIN rows : /\ Live(i) /\ rows[i].token = t
                                        /\ rows[i].left >= expires'[t]
      <3>1. lag < TTL /\ expires'[t] = TTL - lag
        BY <1>1, <1>3, <2>1
      <3>2. PICK i \in DOMAIN rows : /\ ~rows[i].revoked /\ rows[i].token = t
                                    /\ rows[i].left >= TTL - lag
        BY <1>1, <2>1, <3>1 DEF AnswerCovers, t, lag
      <3>3. rows[i].left \in Int
        BY <3>2, SessionsAssumption DEF SessionsTypeOK, Row
      <3> QED BY <1>1, <3>1, <3>2, <3>3, SessionsAssumption DEF Live
    <2> QED BY <1>3, <1>6, <2>1 DEF CookieCovered, Live, historyVars
  <1>11. HolderKnown' /\ WriteCovers'
    BY <1>2, <1>3, <1>4, <1>5 DEF HolderKnown, WriteCovers
  <1>12. AnswerOwn'
    <2>1. ASSUME NEW q \in Requests, request'[q].pc = "answer"
          PROVE  /\ q # r /\ request'[q] = request[q]
                 /\ request[q].fresh \in Tokens /\ cookie'[request[q].fresh] = 0
      <3>1. q # r /\ request'[q] = request[q] /\ request[q].pc = "answer"
        BY <1>4, <1>5, <2>1
      <3>2. request[q].fresh # t /\ request[q].fresh \in Tokens
            /\ cookie[request[q].fresh] = 0
        BY <1>2, <3>1 DEF AnswerOwn
      <3> QED BY <1>3, <3>1, <3>2
    <2> QED BY <1>4, <1>5, <1>6, <1>7, <2>1 DEF AnswerOwn
  <1>13. AnswerCovers'
    BY <1>4, <1>5, <1>6 DEF AnswerCovers, historyVars
  <1>14. OldRowsEnd'
    BY <1>1, <1>4, <1>6 DEF OldRowsEnd, userVars, historyVars
  <1> QED BY <1>8, <1>9, <1>10, <1>11, <1>12, <1>13, <1>14

\* A write of an old time never takes the expiry below the cookie's.
LEMMA TouchWriteInv ==
    ASSUME SessionsInv, NEW r \in Requests, TouchWrite(r)
    PROVE  SessionsInv'
  <1> USE DEF SessionsInv
  <1> DEFINE k == request[r].id
             lag == request[r].lag
             x == Passed(request[r])
  <1>1. CASE ~(k \in DOMAIN rows /\ ~rows[k].revoked)
    <2>1. rows' = rows /\ UNCHANGED <<userVars, rowVars, historyVars>>
      BY <1>1 DEF TouchWrite, rowVars
    <2> QED BY <2>1, PassedInv DEF TouchWrite
  <1>2. CASE k \in DOMAIN rows /\ ~rows[k].revoked
    <2>1. lag \in Nat /\ rows[k] \in Row /\ request[r] \in Request
      BY <1>2, SessionsAssumption DEF SessionsTypeOK, Request
    <2>2. Most(TTL - lag, -1) \in -1 .. TTL /\ Least(lag, Refresh) \in 0 .. Refresh
          /\ Most(TTL - lag, -1) >= TTL - lag
      BY <2>1, SessionsAssumption DEF Most, Least
    <2>3. /\ DOMAIN rows' = DOMAIN rows
          /\ \A i \in DOMAIN rows : i # k => rows'[i] = rows[i]
          /\ rows'[k] = [rows[k] EXCEPT !.left = Most(TTL - lag, -1),
                                        !.idle = Least(lag, Refresh)]
      BY <1>2 DEF TouchWrite
    <2>4. /\ rows'[k] \in Row /\ rows'[k].left = Most(TTL - lag, -1)
          /\ rows'[k].token = rows[k].token /\ rows'[k].revoked = rows[k].revoked
          /\ rows'[k].verified = rows[k].verified /\ rows'[k].late = rows[k].late
      BY <2>1, <2>2, <2>3 DEF Row
    <2>5. \A i \in DOMAIN rows :
              /\ rows'[i] \in Row /\ rows'[i].token = rows[i].token
              /\ rows'[i].revoked = rows[i].revoked
              /\ rows'[i].verified = rows[i].verified /\ rows'[i].late = rows[i].late
      BY <2>3, <2>4 DEF SessionsTypeOK
    <2>6. /\ x \in Request
          /\ x.id \in {0, request[r].id} /\ x.token \in {0, request[r].token}
          /\ x.id = 0 \/ x.token = request[r].token
          /\ x.pc \in {"idle", "find", "act"} /\ x.lag = 0
          /\ x.pc # "idle" => x.token = request[r].token
      BY PassedRequest DEF TouchWrite
    <2>7. request[r].pc = "write"
          /\ UNCHANGED <<userVars, lastId, issued, cookie, expires, historyVars>>
          /\ request' = [request EXCEPT ![r] = x]
      BY DEF TouchWrite
    <2> HIDE DEF x
    <2>8. request' \in [Requests -> Request] /\ request'[r] = x
          /\ \A q \in Requests : q # r => request'[q] = request[q]
      BY <2>6, <2>7 DEF SessionsTypeOK
    <2>9. SessionsTypeOK'
      <3>1. \A i \in DOMAIN rows' : rows'[i] \in Row
        BY <2>3, <2>5
      <3> QED BY <2>3, <2>7, <2>8, <3>1 DEF SessionsTypeOK, userVars, historyVars
    <2>10. 0 \notin DOMAIN rows /\ 0 <= lastId /\ 0 <= issued
      BY SessionsAssumption DEF SessionsTypeOK
    <2>11. x.id <= lastId /\ x.token <= issued
      BY <2>6, <2>10 DEF Drawn
    <2>12. Drawn'
      BY <2>3, <2>5, <2>7, <2>8, <2>11 DEF Drawn, historyVars
    <2>13. TokensDiffer' /\ EndedIsRevoked'
      BY <2>3, <2>5, <2>7 DEF TokensDiffer, EndedIsRevoked, historyVars
    <2>14. HeldRowIsOwn'
      <3>1. x.id \in DOMAIN rows => rows[x.id].token = x.token
        BY <2>6, <2>10 DEF HeldRowIsOwn
      <3> QED BY <2>3, <2>5, <2>8, <3>1 DEF HeldRowIsOwn
    <2>15. CookieCovered'
      <3>1. ASSUME NEW t \in Tokens, expires'[t] > 0, t \notin ended'
            PROVE  \E i \in DOMAIN rows' :
                       /\ Live(i)' /\ rows'[i].token = t /\ rows'[i].left >= expires'[t]
        <4>1. PICK i \in DOMAIN rows :
                 /\ Live(i) /\ rows[i].token = t /\ rows[i].left >= expires[t]
          BY <2>7, <3>1 DEF CookieCovered, historyVars
        <4>2. CASE i = k
          <5>1. request[r].token = t /\ expires[t] > 0 /\ expires[t] \in Nat
            BY <1>2, <2>7, <3>1, <4>1, <4>2, SessionsAssumption
               DEF HeldRowIsOwn, SessionsTypeOK
          <5>2. expires[t] <= TTL - lag
            BY <2>1, <2>7, <5>1, SessionsAssumption DEF WriteCovers
          <5>3. rows'[k].left >= expires[t] /\ rows'[k].left > 0
            BY <2>1, <2>2, <2>4, <5>1, <5>2, SessionsAssumption
          <5> QED
            BY <1>2, <2>3, <2>4, <2>7, <4>1, <4>2, <5>3 DEF Live
        <4>3. CASE i # k
          BY <2>3, <2>7, <4>1, <4>3 DEF Live
        <4> QED BY <4>2, <4>3
      <3> QED BY <3>1 DEF CookieCovered, Live
    <2>16. HolderKnown'
      BY <2>6, <2>7, <2>8 DEF HolderKnown
    <2>17. WriteCovers'
      BY <2>6, <2>7, <2>8 DEF WriteCovers
    <2>18. OldRowsEnd'
      <3>1. \A q \in Requests : request[q].pc = "revoke" => request'[q].pc = "revoke"
        BY <2>7, <2>8
      <3> QED BY <2>3, <2>5, <2>7, <3>1 DEF OldRowsEnd, userVars, historyVars
    <2>19. AnswerOwn'
      <3>1. 0 \notin Tokens
        BY SessionsAssumption DEF Tokens
      <3> QED BY <2>6, <2>7, <2>8, <3>1 DEF AnswerOwn
    <2>20. AnswerCovers'
      <3>1. ASSUME NEW q \in Requests, request'[q].pc = "answer",
                   request'[q].lag < TTL, request'[q].fresh \notin ended'
            PROVE  \E i \in DOMAIN rows' :
                       /\ ~rows'[i].revoked /\ rows'[i].token = request'[q].fresh
                       /\ rows'[i].left >= TTL - request'[q].lag
        <4>1. q # r /\ request'[q] = request[q] /\ request[q].pc = "answer"
          BY <2>6, <2>8, <3>1
        <4>2. PICK i \in DOMAIN rows :
                 /\ ~rows[i].revoked /\ rows[i].token = request[q].fresh
                 /\ rows[i].left >= TTL - request[q].lag
          BY <2>7, <3>1, <4>1 DEF AnswerCovers, historyVars
        <4>3. i # k
          BY <1>2, <4>1, <4>2 DEF HeldRowIsOwn, AnswerOwn
        <4> QED BY <2>3, <4>1, <4>2, <4>3
      <3> QED BY <3>1 DEF AnswerCovers
    <2> QED BY <2>9, <2>12, <2>13, <2>14, <2>15, <2>16, <2>17, <2>18, <2>19, <2>20
  <1> QED BY <1>1, <1>2

LEMMA PruneExpiredSessionsInv ==
    ASSUME SessionsInv, PruneExpiredSessions
    PROVE  SessionsInv'
  <1> USE DEF SessionsInv
  <1>0. \A i \in DOMAIN rows : rows[i].left \in Int
    BY SessionsAssumption DEF SessionsTypeOK, Row
  <1>1. DOMAIN rows' \subseteq DOMAIN rows
        /\ \A i \in DOMAIN rows' : rows'[i] = rows[i]
    BY DEF PruneExpiredSessions
  <1>1a. ASSUME NEW i \in DOMAIN rows, ~rows[i].revoked, rows[i].left > 0
         PROVE  i \in DOMAIN rows'
    BY <1>0, <1>1a DEF PruneExpiredSessions
  <1>2. UNCHANGED <<userVars, lastId, issued, cookie, expires, request, historyVars>>
    BY DEF PruneExpiredSessions
  <1>3. SessionsTypeOK'
    BY <1>1, <1>2 DEF SessionsTypeOK, userVars, historyVars
  <1>4. Drawn' /\ TokensDiffer' /\ HeldRowIsOwn' /\ EndedIsRevoked'
    BY <1>1, <1>2
       DEF Drawn, TokensDiffer, HeldRowIsOwn, EndedIsRevoked, historyVars
  <1>5. CookieCovered'
    <2>1. ASSUME NEW t \in Tokens, expires'[t] > 0, t \notin ended'
          PROVE  \E i \in DOMAIN rows' :
                     /\ Live(i)' /\ rows'[i].token = t /\ rows'[i].left >= expires'[t]
      <3>1. PICK i \in DOMAIN rows :
               /\ Live(i) /\ rows[i].token = t /\ rows[i].left >= expires[t]
        BY <1>2, <2>1 DEF CookieCovered, historyVars
      <3>2. i \in DOMAIN rows' /\ rows'[i] = rows[i] /\ expires'[t] = expires[t]
        <4>0. i \in DOMAIN rows /\ ~rows[i].revoked /\ rows[i].left > 0
          BY <3>1 DEF Live
        <4>1. i \in DOMAIN rows'
          BY <1>1a, <4>0
        <4>2. rows'[i] = rows[i]
          BY <1>1, <4>1
        <4>3. expires'[t] = expires[t]
          BY <1>2
        <4> QED BY <4>1, <4>2, <4>3
      <3> QED BY <3>1, <3>2 DEF Live
    <2> QED BY <2>1 DEF CookieCovered, Live
  <1>6. HolderKnown' /\ WriteCovers'
    BY <1>2 DEF HolderKnown, WriteCovers
  <1>7. OldRowsEnd'
    BY <1>1, <1>2 DEF OldRowsEnd, userVars, historyVars
  <1>8. AnswerOwn'
    BY <1>2 DEF AnswerOwn
  <1>9. AnswerCovers'
    <2>1. ASSUME NEW q \in Requests, request[q].pc = "answer",
                 request[q].lag < TTL, request[q].fresh \notin ended
          PROVE  \E i \in DOMAIN rows' :
                     /\ ~rows'[i].revoked /\ rows'[i].token = request[q].fresh
                     /\ rows'[i].left >= TTL - request[q].lag
      <3>1. PICK i \in DOMAIN rows :
               /\ ~rows[i].revoked /\ rows[i].token = request[q].fresh
               /\ rows[i].left >= TTL - request[q].lag
        BY <2>1 DEF AnswerCovers
      <3>2. request[q].lag \in Int /\ rows[i].left \in Int
        BY <1>0, SessionsAssumption DEF SessionsTypeOK, Request
      <3>3. rows[i].left > 0
        BY <2>1, <3>1, <3>2, SessionsAssumption
      <3>4. i \in DOMAIN rows'
        BY <1>1a, <3>1, <3>3
      <3> QED BY <1>1, <3>1, <3>4
    <2> QED BY <1>2, <2>1 DEF AnswerCovers, historyVars
  <1> QED BY <1>3, <1>4, <1>5, <1>6, <1>7, <1>8, <1>9

\* Time takes as much from a cookie as from the row that covers it.
LEMMA TickInv ==
    ASSUME SessionsInv, Tick
    PROVE  SessionsInv'
  <1> USE DEF SessionsInv
  <1>1. \A i \in DOMAIN rows :
            rows[i] \in Row /\ rows[i].left \in -1 .. TTL /\ rows[i].idle \in 0 .. Refresh
    BY DEF SessionsTypeOK, Row
  <1>2. \A n \in -1 .. TTL : /\ Most(n - 1, -1) \in -1 .. TTL
                             /\ n > 0 => Most(n - 1, -1) = n - 1
    BY SessionsAssumption DEF Most
  <1>3. \A n \in 0 .. Refresh : Least(n + 1, Refresh) \in 0 .. Refresh
    BY SessionsAssumption DEF Least
  <1>4. /\ DOMAIN rows' = DOMAIN rows
        /\ \A i \in DOMAIN rows :
             rows'[i] = [rows[i] EXCEPT !.left = Most(rows[i].left - 1, -1),
                                        !.idle = Least(rows[i].idle + 1, Refresh)]
    BY DEF Tick
  <1>5. \A i \in DOMAIN rows :
            /\ rows'[i] \in Row /\ rows'[i].token = rows[i].token
            /\ rows'[i].revoked = rows[i].revoked
            /\ rows'[i].verified = rows[i].verified /\ rows'[i].late = rows[i].late
            /\ rows'[i].left = Most(rows[i].left - 1, -1)
    <2> TAKE i \in DOMAIN rows
    <2> DEFINE left == Most(rows[i].left - 1, -1)
               idle == Least(rows[i].idle + 1, Refresh)
    <2>1. rows[i] \in Row /\ left \in -1 .. TTL /\ idle \in 0 .. Refresh
      BY <1>1, <1>2, <1>3
    <2>2. rows'[i] = [rows[i] EXCEPT !.left = left, !.idle = idle]
      BY <1>4
    <2> HIDE DEF left, idle
    <2>3. /\ rows'[i] \in Row /\ rows'[i].token = rows[i].token
          /\ rows'[i].revoked = rows[i].revoked
          /\ rows'[i].verified = rows[i].verified /\ rows'[i].late = rows[i].late
          /\ rows'[i].left = left
      BY <2>1, <2>2 DEF Row
    <2> QED BY <2>3 DEF left
  <1>6. /\ cookie' \in [Tokens -> 0 .. TTL] /\ expires' \in [Tokens -> 0 .. TTL]
        /\ \A t \in Tokens : /\ cookie'[t] > 0 => cookie[t] > 0
                             /\ cookie[t] = 0 => cookie'[t] = 0
                             /\ expires[t] \in 0 .. TTL
                             /\ expires'[t] > 0 => expires'[t] = expires[t] - 1
    <2>1. \A n \in 0 .. TTL : /\ Most(n - 1, 0) \in 0 .. TTL
                              /\ Most(n - 1, 0) > 0 => n > 0
                              /\ n = 0 => Most(n - 1, 0) = 0
                              /\ Most(n - 1, 0) > 0 => Most(n - 1, 0) = n - 1
      BY SessionsAssumption DEF Most
    <2>2. \A t \in Tokens : cookie[t] \in 0 .. TTL /\ expires[t] \in 0 .. TTL
      BY DEF SessionsTypeOK
    <2>3. /\ cookie' = [t \in Tokens |-> Most(cookie[t] - 1, 0)]
          /\ expires' = [t \in Tokens |-> Most(expires[t] - 1, 0)]
      BY DEF Tick
    <2> QED BY <2>1, <2>2, <2>3
  <1>7. \A q \in Requests : request[q] \in Request /\ request[q].lag \in 0 .. TTL + 1
    BY DEF SessionsTypeOK, Request
  <1>8. \A n \in 0 .. TTL + 1 : /\ Least(n + 1, TTL + 1) \in 0 .. TTL + 1
                                /\ Least(n + 1, TTL + 1) <= n + 1
                                /\ Least(n + 1, TTL + 1) < TTL =>
                                       Least(n + 1, TTL + 1) = n + 1
    BY SessionsAssumption DEF Least
  <1>9. \A q \in Requests :
            request'[q] = IF request[q].pc \in {"insert", "answer", "write"}
                          THEN [request[q] EXCEPT !.lag = Least(request[q].lag + 1, TTL + 1)]
                          ELSE request[q]
    BY DEF Tick
  <1>10. \A q \in Requests :
            /\ request'[q] \in Request
            /\ request'[q].pc = request[q].pc /\ request'[q].id = request[q].id
            /\ request'[q].token = request[q].token
            /\ request'[q].fresh = request[q].fresh
            /\ request'[q].lag <= request[q].lag + 1
            /\ request[q].pc = "answer" /\ request'[q].lag < TTL =>
                   request'[q].lag = request[q].lag + 1
            /\ request[q].pc \notin {"insert", "answer", "write"} =>
                   request'[q].lag = request[q].lag
    <2> TAKE q \in Requests
    <2> DEFINE lag == Least(request[q].lag + 1, TTL + 1)
    <2>1. request[q] \in Request /\ lag \in 0 .. TTL + 1 /\ lag <= request[q].lag + 1
          /\ request[q].lag <= request[q].lag + 1 /\ (lag < TTL => lag = request[q].lag + 1)
      BY <1>7, <1>8, SessionsAssumption
    <2>2. request'[q] = IF request[q].pc \in {"insert", "answer", "write"}
                        THEN [request[q] EXCEPT !.lag = lag] ELSE request[q]
      BY <1>9
    <2> HIDE DEF lag
    <2> QED BY <2>1, <2>2 DEF Request
  <1>11. request' \in [Requests -> Request]
    BY <1>10 DEF Tick
  <1>12. UNCHANGED <<password, attempts, lastId, issued, historyVars>>
         /\ lock' \in 0 .. LockFor
    <2>1. \A n \in 0 .. LockFor : Most(n - 1, 0) \in 0 .. LockFor
      BY SessionsAssumption DEF Most
    <2>2. lock \in 0 .. LockFor /\ lock' = Most(lock - 1, 0)
      BY DEF SessionsTypeOK, Tick
    <2>3. UNCHANGED <<password, attempts, lastId, issued, historyVars>>
      BY DEF Tick
    <2> QED BY <2>1, <2>2, <2>3
  <1>13. SessionsTypeOK'
    <2>1. DOMAIN rows' \subseteq 1 .. lastId' /\ \A i \in DOMAIN rows' : rows'[i] \in Row
      BY <1>4, <1>5, <1>12 DEF SessionsTypeOK
    <2> QED BY <1>6, <1>11, <1>12, <2>1 DEF SessionsTypeOK, historyVars
  <1>14. Drawn' /\ TokensDiffer' /\ HeldRowIsOwn' /\ EndedIsRevoked'
    <2>2. Drawn'
      BY <1>4, <1>5, <1>6, <1>10, <1>12 DEF Drawn, historyVars
    <2>3. TokensDiffer' /\ EndedIsRevoked'
      BY <1>4, <1>5, <1>12 DEF TokensDiffer, EndedIsRevoked, historyVars
    <2>4. HeldRowIsOwn'
      <3>1. ASSUME NEW q \in Requests, request'[q].id \in DOMAIN rows'
            PROVE  rows'[request'[q].id].token = request'[q].token
        <4>1. request'[q].id = request[q].id /\ request'[q].token = request[q].token
          BY <1>10
        <4>2. request[q].id \in DOMAIN rows
          BY <1>4, <3>1, <4>1
        <4> QED BY <1>5, <4>1, <4>2 DEF HeldRowIsOwn
      <3> QED BY <3>1 DEF HeldRowIsOwn
    <2> QED BY <2>2, <2>3, <2>4
  <1>15. CookieCovered'
    <2>1. ASSUME NEW t \in Tokens, expires'[t] > 0, t \notin ended'
          PROVE  \E i \in DOMAIN rows' :
                     /\ Live(i)' /\ rows'[i].token = t /\ rows'[i].left >= expires'[t]
      <3>1. expires'[t] = expires[t] - 1 /\ expires[t] \in Nat /\ expires[t] > 0
        BY <1>6, <2>1, SessionsAssumption
      <3>2. PICK i \in DOMAIN rows :
               /\ Live(i) /\ rows[i].token = t /\ rows[i].left >= expires[t]
        BY <1>12, <2>1, <3>1 DEF CookieCovered, historyVars
      <3>3. rows'[i].left = rows[i].left - 1 /\ rows[i].left \in Int
        BY <1>1, <1>2, <1>5, <3>2, SessionsAssumption DEF Live
      <3>4. rows'[i].left >= expires'[t] /\ rows'[i].left > 0
        BY <2>1, <3>1, <3>2, <3>3
      <3>5. i \in DOMAIN rows' /\ ~rows'[i].revoked /\ rows'[i].token = t
        BY <1>4, <1>5, <3>2 DEF Live
      <3> QED BY <3>4, <3>5 DEF Live
    <2> QED BY <2>1 DEF CookieCovered, Live
  <1>16. HolderKnown'
    BY <1>10 DEF HolderKnown
  <1>17. WriteCovers'
    <2>1. ASSUME NEW q \in Requests, request'[q].pc = "write",
                 request'[q].token \in Tokens, expires'[request'[q].token] > 0
          PROVE  expires'[request'[q].token] + request'[q].lag <= TTL
      <3> DEFINE t == request[q].token
      <3>1. t \in Tokens /\ request'[q].token = t /\ request[q].pc = "write"
            /\ expires'[t] = expires[t] - 1 /\ expires[t] > 0
        BY <1>6, <1>10, <2>1, SessionsAssumption
      <3>2. expires[t] + request[q].lag <= TTL
        BY <3>1 DEF WriteCovers
      <3>3. request'[q].lag <= request[q].lag + 1 /\ request'[q].lag \in Int
            /\ request[q].lag \in Int /\ expires[t] \in Int
        BY <1>6, <1>7, <1>10, <3>1, SessionsAssumption DEF Request
      <3> QED BY <3>1, <3>2, <3>3, SessionsAssumption
    <2> QED BY <2>1 DEF WriteCovers
  <1>18. OldRowsEnd'
    BY <1>4, <1>5, <1>10, <1>12 DEF OldRowsEnd, historyVars
  <1>19. AnswerOwn'
    BY <1>6, <1>10, <1>12 DEF AnswerOwn
  <1>20. AnswerCovers'
    <2>1. ASSUME NEW q \in Requests, request'[q].pc = "answer",
                 request'[q].lag < TTL, request'[q].fresh \notin ended'
          PROVE  \E i \in DOMAIN rows' :
                     /\ ~rows'[i].revoked /\ rows'[i].token = request'[q].fresh
                     /\ rows'[i].left >= TTL - request'[q].lag
      <3>1. /\ request[q].pc = "answer" /\ request'[q].fresh = request[q].fresh
            /\ request'[q].lag = request[q].lag + 1 /\ request[q].lag \in Int
            /\ request'[q].lag < TTL /\ request[q].fresh \notin ended
        BY <1>7, <1>10, <1>12, <2>1, SessionsAssumption DEF historyVars
      <3>2. request[q].lag < TTL
        BY <3>1, SessionsAssumption
      <3>3. PICK i \in DOMAIN rows :
               /\ ~rows[i].revoked /\ rows[i].token = request[q].fresh
               /\ rows[i].left >= TTL - request[q].lag
        BY <3>1, <3>2 DEF AnswerCovers
      <3>4. rows[i].left \in -1 .. TTL /\ rows[i].left > 0
        BY <1>1, <3>1, <3>2, <3>3, SessionsAssumption
      <3>5. rows'[i].left = rows[i].left - 1
        BY <1>2, <1>5, <3>4
      <3>6. rows'[i].left >= TTL - request'[q].lag
        BY <3>1, <3>3, <3>4, <3>5, SessionsAssumption
      <3> QED BY <1>4, <1>5, <3>1, <3>3, <3>6
    <2> QED BY <2>1 DEF AnswerCovers
  <1> QED BY <1>13, <1>14, <1>15, <1>16, <1>17, <1>18, <1>19, <1>20

LEMMA SessionsInvStep ==
    ASSUME SessionsInv, [SessionsNext]_sessionVars
    PROVE  SessionsInv'
  <1>1. ASSUME NEW r \in Requests, RequestNext(r)
        PROVE  SessionsInv'
    BY <1>1, LoginReadUserInv, RecordFailedLoginInv, RecordSuccessfulLoginInv,
       TakeTimeInv, CreateSessionInv, SetCookieInv, SendInv, FindAuthSessionInv, UnauthenticatedInv,
       TouchReadInv, TouchWriteInv, TouchFailsInv, LogoutInv, LogoutFailsInv,
       UpdateUserPasswordInv, RevokeAllInv, AbortInv
       DEF RequestNext
  <1>2. CASE PruneExpiredSessions
    BY <1>2, PruneExpiredSessionsInv
  <1>3. CASE Tick
    BY <1>3, TickInv
  <1>4. CASE UNCHANGED sessionVars
    BY <1>4
       DEF sessionVars, userVars, rowVars, historyVars, SessionsInv,
           SessionsTypeOK, Drawn, TokensDiffer, HeldRowIsOwn, EndedIsRevoked,
           CookieCovered, HolderKnown, WriteCovers, AnswerOwn, AnswerCovers,
           OldRowsEnd, Live
  <1> QED BY <1>1, <1>2, <1>3, <1>4 DEF SessionsNext

LEMMA SessionsAlways == SessionsSpec => []SessionsInv
  BY SessionsInvInit, SessionsInvStep, PTL DEF SessionsSpec

----------------------------------------------------------------------------
(* What the runs check, for every value of the constants. *)

\* The account's row, the session table, the cookies and the requests keep
\* their types under every statement of every request.
THEOREM SessionsTypeCorrect == SessionsSpec => []SessionsTypeOK
  <1>1. SessionsInv => SessionsTypeOK
    BY DEF SessionsInv
  <1> QED BY <1>1, SessionsAlways, PTL

\* handleLogout and handleChangePassword end a session for good: no touch that
\* was in flight makes it live again.
THEOREM SessionsEndedStayOut == SessionsSpec => []EndedStaysOut
  <1>1. SessionsInv => EndedStaysOut
    BY DEF SessionsInv, EndedIsRevoked, EndedStaysOut, Live
  <1> QED BY <1>1, SessionsAlways, PTL

\* touchSession and revokeSessionByID never meet the row of another session,
\* whatever pruneExpiredSessions removed since the request was authenticated.
THEOREM SessionsHeldRowIsOwn == SessionsSpec => []HeldRowIsOwn
  <1>1. SessionsInv => HeldRowIsOwn
    BY DEF SessionsInv
  <1> QED BY <1>1, SessionsAlways, PTL

\* Until the Expires of the cookie that createSession led to, however long the
\* insertion, the answer or a touch waited, the session is known, unless it was
\* ended.
THEOREM SessionsCookieCovered == SessionsSpec => []CookieCovered
  <1>1. SessionsInv => CookieCovered
    BY DEF SessionsInv
  <1> QED BY <1>1, SessionsAlways, PTL

\* handleChangePassword leaves no session of an older password behind, except
\* one whose login overlapped the change.
THEOREM SessionsOldEnd == SessionsSpec => []OldSessionsEnd
  <1>1. SessionsInv => OldSessionsEnd
    BY DEF SessionsInv, OldRowsEnd, OldSessionsEnd, Live
  <1> QED BY <1>1, SessionsAlways, PTL

----------------------------------------------------------------------------
(* The bound on the failures that lock the account.  With every request     *)
(* goes a level: what it would write attempts over, which is never taken to *)
(* be more than attempts is.  A failure that is recorded below MaxAttempts  *)
(* raises the level of its own request and lowers none that was as low, so  *)
(* the profile of the levels rises each time, and there are only so many.   *)

Level(r) ==
    IF request[r].pc = "fail" THEN Least(request[r].seen, attempts) ELSE attempts

Above(v) == {r \in Requests : Level(r) > v}

Levels == [v \in 0 .. MaxAttempts - 1 |-> Cardinality(Above(v))]

FailuresRanked == uncounted \in Nat /\ uncounted <= ProfileRank(Levels, MaxAttempts, 0)

LEMMA LevelTyped ==
    ASSUME SessionsTypeOK, NEW r \in Requests
    PROVE  Level(r) \in 0 .. MaxAttempts - 1 /\ Level(r) <= attempts
  <1>1. request[r] \in Request /\ attempts \in 0 .. MaxAttempts - 1
    BY DEF SessionsTypeOK
  <1>2. request[r].seen \in 0 .. MaxAttempts - 1
    BY <1>1 DEF Request
  <1> QED BY <1>1, <1>2, SessionsAssumption DEF Level, Least

LEMMA LevelTypedNext ==
    (SessionsTypeOK => \A r \in Requests : Level(r) \in 0 .. MaxAttempts - 1)'
  <1>1. SessionsTypeOK => \A r \in Requests : Level(r) \in 0 .. MaxAttempts - 1
    BY LevelTyped
  <1> QED BY <1>1, PTL

LEMMA LevelsProfile ==
    ASSUME SessionsTypeOK
    PROVE  /\ Profile(Levels, MaxAttempts)
           /\ \A v \in 0 .. MaxAttempts - 1 : Levels[v] <= Cardinality(Requests)
           /\ ProfileRank(Levels, MaxAttempts, 0) \in Nat
  <1>1. ASSUME NEW v PROVE IsFiniteSet(Above(v)) /\ Cardinality(Above(v)) \in Nat
                           /\ Cardinality(Above(v)) <= Cardinality(Requests)
    <2>1. Above(v) \in SUBSET Requests
      BY DEF Above
    <2>2. IsFiniteSet(Above(v)) /\ Cardinality(Above(v)) <= Cardinality(Requests)
      BY <2>1, SessionsAssumption, FS_Subset
    <2> QED BY <2>2, FS_CardinalityType
  <1>2. \A v \in 0 .. MaxAttempts - 1 : Levels[v] = Cardinality(Above(v))
    BY DEF Levels
  <1>3. ASSUME NEW v \in 1 .. MaxAttempts - 1 PROVE Levels[v] <= Levels[v - 1]
    <2>1. v \in 0 .. MaxAttempts - 1 /\ v - 1 \in 0 .. MaxAttempts - 1
      BY SessionsAssumption
    <2>2. \A r \in Requests : Level(r) > v => Level(r) > v - 1
      BY LevelTyped, SessionsAssumption
    <2>3. Above(v) \in SUBSET Above(v - 1)
      BY <2>2 DEF Above
    <2>4. Cardinality(Above(v)) <= Cardinality(Above(v - 1))
      BY <1>1, <2>3, FS_Subset
    <2> QED BY <1>2, <2>1, <2>4
  <1>4. Levels[MaxAttempts - 1] = 0
    <2>1. \A r \in Requests : ~ Level(r) > MaxAttempts - 1
      BY LevelTyped, SessionsAssumption
    <2>2. Above(MaxAttempts - 1) = {}
      BY <2>1 DEF Above
    <2>3. MaxAttempts - 1 \in 0 .. MaxAttempts - 1
      BY SessionsAssumption
    <2> QED BY <1>2, <2>2, <2>3, FS_EmptySet
  <1>5. Profile(Levels, MaxAttempts)
    BY <1>1, <1>2, <1>3, <1>4 DEF Profile
  <1>6. MaxAttempts \in Nat \ {0} /\ 0 \in 0 .. MaxAttempts - 1
    BY SessionsAssumption
  <1>7. ProfileRank(Levels, MaxAttempts, 0) \in Nat
    BY <1>5, <1>6, RankUnfolds
  <1> QED BY <1>1, <1>2, <1>5, <1>7

LEMMA LevelsProfileNext ==
    (SessionsTypeOK => /\ Profile(Levels, MaxAttempts)
                       /\ ProfileRank(Levels, MaxAttempts, 0) \in Nat)'
  <1>1. SessionsTypeOK => /\ Profile(Levels, MaxAttempts)
                          /\ ProfileRank(Levels, MaxAttempts, 0) \in Nat
    BY LevelsProfile
  <1> QED BY <1>1, PTL

\* What raises the levels: below v the same requests are above, and at v more.
LEMMA LevelsRise ==
    ASSUME SessionsTypeOK, SessionsTypeOK', NEW v \in 0 .. MaxAttempts - 1,
           \A w \in 0 .. v - 1 : Above(w)' = Above(w),
           Above(v) \subseteq Above(v)', Above(v)' # Above(v)
    PROVE  ProfileRank(Levels, MaxAttempts, 0) < ProfileRank(Levels', MaxAttempts, 0)
  <1> DEFINE g == Levels
             h == Levels'
             A == Above(v)
             B == Above(v)'
  <1>1. Profile(g, MaxAttempts)
    BY LevelsProfile
  <1>2. Profile(h, MaxAttempts)
    BY LevelsProfileNext
  <1>3. \A w \in 0 .. v - 1 : g[w] = h[w]
    BY SessionsAssumption DEF Levels
  <1>4. g[v] < h[v]
    <2>1. g[v] = Cardinality(A) /\ h[v] = Cardinality(B)
      BY DEF Levels
    <2>2. B \in SUBSET Requests
      BY DEF Above
    <2>3. IsFiniteSet(B)
      BY <2>2, SessionsAssumption, FS_Subset
    <2>4. A \in SUBSET B /\ A # B
      OBVIOUS
    <2> HIDE DEF A, B
    <2>5. IsFiniteSet(A) /\ Cardinality(A) <= Cardinality(B) /\ Cardinality(A) # Cardinality(B)
      BY <2>3, <2>4, FS_Subset
    <2>6. Cardinality(A) \in Nat /\ Cardinality(B) \in Nat
      BY <2>3, <2>5, FS_CardinalityType
    <2> QED BY <2>1, <2>5, <2>6
  <1> HIDE DEF g, h
  <1>5. ProfileRank(g, MaxAttempts, 0) < ProfileRank(h, MaxAttempts, 0)
    BY <1>1, <1>2, <1>3, <1>4, SessionsAssumption, RankRises
  <1> QED BY <1>5 DEF g, h

\* One request moves to another level, no lower, and no failure is counted.
LEMMA LevelMoves ==
    ASSUME SessionsTypeOK, SessionsTypeOK', FailuresRanked, NEW r \in Requests,
           Level(r) <= Level(r)', uncounted' = uncounted,
           \A q \in Requests : q # r => Level(q)' = Level(q)
    PROVE  FailuresRanked'
  <1>1. ProfileRank(Levels, MaxAttempts, 0) \in Nat /\ ProfileRank(Levels', MaxAttempts, 0) \in Nat
    BY LevelsProfile, LevelsProfileNext
  <1>2. ProfileRank(Levels, MaxAttempts, 0) <= ProfileRank(Levels', MaxAttempts, 0)
    <2>1. CASE Level(r)' = Level(r)
      <3>1. \A v : Above(v)' = Above(v)
        BY <2>1 DEF Above
      <3>2. Levels' = Levels
        BY <3>1 DEF Levels
      <3> QED BY <1>1, <3>2
    <2>2. CASE Level(r)' # Level(r)
      <3>1. PICK v \in 0 .. MaxAttempts - 1 : v = Level(r)
        BY LevelTyped
      <3>2. Level(r)' \in Int
        BY LevelTypedNext
      <3>3. v < Level(r)'
        BY <2>2, <3>1, <3>2
      <3>4. \A w \in 0 .. v - 1 : Above(w)' = Above(w)
        BY <3>1, <3>2, <3>3 DEF Above
      <3>5. r \in Above(v)' /\ r \notin Above(v)
        BY <3>1, <3>3 DEF Above
      <3>6. Above(v) \subseteq Above(v)'
        BY <3>5 DEF Above
      <3>7. ProfileRank(Levels, MaxAttempts, 0) < ProfileRank(Levels', MaxAttempts, 0)
        BY <3>1, <3>4, <3>5, <3>6, LevelsRise
      <3> QED BY <1>1, <3>7
    <2> QED BY <2>1, <2>2
  <1> QED BY <1>1, <1>2 DEF FailuresRanked

\* A statement of a request that neither counts a failure nor writes attempts.
LEMMA LevelOfOne ==
    ASSUME SessionsTypeOK, SessionsTypeOK', FailuresRanked, NEW r \in Requests, NEW x,
           request' = [request EXCEPT ![r] = x], x.pc = "fail" => x.seen = attempts,
           attempts' = attempts, uncounted' = uncounted
    PROVE  FailuresRanked'
  <1>1. request \in [Requests -> Request] /\ attempts \in 0 .. MaxAttempts - 1
    BY DEF SessionsTypeOK
  <1>2. request'[r] = x /\ \A q \in Requests : q # r => request'[q] = request[q]
    BY <1>1
  <1>3. Level(r)' = attempts
    BY <1>1, <1>2 DEF Level, Least
  <1>4. \A q \in Requests : q # r => Level(q)' = Level(q)
    BY <1>2 DEF Level
  <1>5. Level(r) <= attempts
    BY LevelTyped
  <1> QED BY <1>3, <1>4, <1>5, LevelMoves

LEMMA NothingCounted ==
    ASSUME SessionsTypeOK', uncounted' = 0
    PROVE  FailuresRanked'
  <1>1. ProfileRank(Levels', MaxAttempts, 0) \in Nat
    BY LevelsProfileNext
  <1> QED BY <1>1 DEF FailuresRanked

LEMMA FailureCounted ==
    ASSUME SessionsTypeOK, SessionsTypeOK', FailuresRanked, NEW r \in Requests,
           RecordFailedLogin(r)
    PROVE  FailuresRanked'
  <1> DEFINE s == request[r].seen
  <1>1. request \in [Requests -> Request] /\ attempts \in 0 .. MaxAttempts - 1
    BY DEF SessionsTypeOK
  <1>2. \A q \in Requests : request[q].seen \in 0 .. MaxAttempts - 1
    BY <1>1 DEF Request
  <1>3. CASE s + 1 >= MaxAttempts
    <2>1. uncounted' = 0
      BY <1>3 DEF RecordFailedLogin
    <2> QED BY <2>1, NothingCounted
  <1>4. CASE ~ s + 1 >= MaxAttempts
    <2>1. attempts' = s + 1 /\ uncounted' = uncounted + 1 /\ request[r].pc = "fail"
      BY <1>4 DEF RecordFailedLogin
    <2>2. request' = [request EXCEPT ![r] = Idle] /\ Idle.pc = "idle"
      BY DEF RecordFailedLogin, Done, Idle
    <2>3. Level(r)' = s + 1
      BY <1>1, <2>1, <2>2 DEF Level
    <2>4. PICK v \in 0 .. MaxAttempts - 1 :
              v <= s /\ v <= attempts /\ v = Least(s, attempts)
      BY <1>1, <1>2, SessionsAssumption DEF Least
    <2>5. ASSUME NEW q \in Requests, q # r
          PROVE  /\ \A w \in 0 .. v - 1 : Level(q)' > w <=> Level(q) > w
                 /\ Level(q) > v => Level(q)' > v
      <3>1. request'[q] = request[q]
        BY <1>1, <2>2, <2>5
      <3>2. CASE request[q].pc = "fail"
        <4>1. Level(q) = Least(request[q].seen, attempts)
              /\ Level(q)' = Least(request[q].seen, s + 1)
          BY <2>1, <3>1, <3>2 DEF Level
        <4> QED BY <1>1, <1>2, <2>4, <4>1, SessionsAssumption DEF Least
      <3>3. CASE request[q].pc # "fail"
        <4>1. Level(q) = attempts /\ Level(q)' = s + 1
          BY <2>1, <3>1, <3>3 DEF Level
        <4> QED BY <1>1, <1>2, <2>4, <4>1, SessionsAssumption
      <3> QED BY <3>2, <3>3
    <2>6. Level(r) = v
      BY <2>1, <2>4 DEF Level
    <2>7. s \in Int
      BY <1>2, SessionsAssumption
    <2>8. \A w \in 0 .. v - 1 : Level(r)' > w /\ Level(r) > w
      BY <2>3, <2>4, <2>6, <2>7
    <2>9. \A w \in 0 .. v - 1 : Above(w)' = Above(w)
      BY <2>5, <2>8 DEF Above
    <2>10. r \in Above(v)' /\ r \notin Above(v)
      BY <2>3, <2>4, <2>6, <2>7 DEF Above
    <2>11. Above(v) \subseteq Above(v)'
      BY <2>5, <2>10 DEF Above
    <2>12. ProfileRank(Levels, MaxAttempts, 0) < ProfileRank(Levels', MaxAttempts, 0)
      BY <2>4, <2>9, <2>10, <2>11, LevelsRise
    <2>13. ProfileRank(Levels, MaxAttempts, 0) \in Nat /\ ProfileRank(Levels', MaxAttempts, 0) \in Nat
      BY LevelsProfile, LevelsProfileNext
    <2> QED BY <2>1, <2>12, <2>13 DEF FailuresRanked
  <1> QED BY <1>3, <1>4

LEMMA FailuresStep ==
    ASSUME SessionsInv, SessionsTypeOK', FailuresRanked, [SessionsNext]_sessionVars
    PROVE  FailuresRanked'
  <1>1. SessionsTypeOK /\ request \in [Requests -> Request]
    BY DEF SessionsInv, SessionsTypeOK
  <1>2. ASSUME NEW r \in Requests, RequestNext(r)
        PROVE  FailuresRanked'
    <2>1. Idle.pc # "fail"
      BY DEF Idle
    <2>2. CASE LoginReadUser(r)
      <3>1. PICK x \in {[Idle EXCEPT !.pc = "fail", !.kind = "login", !.seen = attempts],
                        [Idle EXCEPT !.pc = "succeed", !.kind = "login", !.hash = password]} :
                request' = [request EXCEPT ![r] = x]
        BY <2>2 DEF LoginReadUser
      <3>2. x.pc = "fail" => x.seen = attempts
        BY <3>1 DEF Idle
      <3> QED
        BY <1>1, <2>2, <3>1, <3>2, LevelOfOne DEF LoginReadUser, userVars, historyVars
    <2>3. CASE RecordFailedLogin(r)
      BY <1>1, <2>3, FailureCounted
    <2>4. CASE RecordSuccessfulLogin(r) \/ UpdateUserPassword(r)
      BY <2>4, NothingCounted DEF RecordSuccessfulLogin, UpdateUserPassword
    <2>5. CASE SetCookie(r) \/ Unauthenticated(r) \/ Logout(r) \/ LogoutFails(r) \/ Abort(r)
      <3>1. Done(r) /\ attempts' = attempts /\ uncounted' = uncounted
        BY <2>5 DEF SetCookie, Unauthenticated, Logout, LogoutFails, Abort,
                    userVars, historyVars
      <3> QED BY <1>1, <2>1, <3>1, LevelOfOne DEF Done
    <2>6. ASSUME NEW kind \in {"logout", "change", "use"}, NEW token \in Tokens,
                 Send(r, kind, token)
          PROVE  FailuresRanked'
      <3> DEFINE x == [Idle EXCEPT !.pc = "find", !.kind = kind, !.token = token]
      <3>1. x.pc = "find"
        BY DEF Idle
      <3>2. request' = [request EXCEPT ![r] = x] /\ attempts' = attempts
            /\ uncounted' = uncounted
        BY <2>6 DEF Send, userVars, historyVars
      <3> HIDE DEF x
      <3> QED BY <1>1, <3>1, <3>2, LevelOfOne
    <2>7. CASE FindAuthSession(r)
      <3>1. PICK i \in DOMAIN rows :
                request' = [request EXCEPT ![r].pc = "touch", ![r].id = i]
        BY <2>7 DEF FindAuthSession
      <3> DEFINE x == [request[r] EXCEPT !.pc = "touch", !.id = i]
      <3>2. request' = [request EXCEPT ![r] = x]
        BY <1>1, <3>1
      <3>3. x.pc = "touch"
        <4>1. request[r] \in Request
          BY <1>1
        <4> QED BY <4>1 DEF Request
      <3> HIDE DEF x
      <3> QED
        BY <1>1, <2>7, <3>2, <3>3, LevelOfOne DEF FindAuthSession, userVars, historyVars
    <2>8. CASE TouchRead(r) \/ TouchWrite(r) \/ TouchFails(r)
      <3>1. request[r].pc \in {"touch", "write"} /\ attempts' = attempts
            /\ uncounted' = uncounted
        BY <2>8 DEF TouchRead, TouchWrite, TouchFails, userVars, historyVars
      <3>2. Passed(request[r]).pc \in {"idle", "find", "act"}
        BY <3>1, PassedRequest
      <3>3. PICK x \in {[request[r] EXCEPT !.pc = "write"], Passed(request[r])} :
                request' = [request EXCEPT ![r] = x]
        BY <2>8 DEF TouchRead, TouchWrite, TouchFails
      <3>4. x.pc # "fail"
        <4>1. request[r] \in Request
          BY <1>1
        <4>2. [request[r] EXCEPT !.pc = "write"].pc = "write"
          BY <4>1 DEF Request
        <4> QED BY <3>2, <3>3, <4>2
      <3> QED BY <1>1, <3>1, <3>3, <3>4, LevelOfOne
    <2>9. CASE RevokeAllSessionsForUser(r)
      <3> DEFINE x == [request[r] EXCEPT !.pc = "create"]
      <3>1. request' = [request EXCEPT ![r] = x] /\ attempts' = attempts
            /\ uncounted' = uncounted
        BY <2>9 DEF RevokeAllSessionsForUser, Goto, userVars
      <3>2. x.pc = "create"
        <4>1. request[r] \in Request
          BY <1>1
        <4> QED BY <4>1 DEF Request
      <3> HIDE DEF x
      <3> QED BY <1>1, <3>1, <3>2, LevelOfOne
    <2>10. CASE TakeTime(r) \/ CreateSession(r)
      <3> DEFINE y == [request[r] EXCEPT !.pc = "insert"]
                 z == [request[r] EXCEPT !.pc = "answer", !.fresh = issued + 1]
      <3>1. attempts' = attempts /\ uncounted' = uncounted
        BY <2>10 DEF TakeTime, CreateSession, userVars, historyVars
      <3>2. request' = [request EXCEPT ![r] = y] \/ request' = [request EXCEPT ![r] = z]
        BY <2>10 DEF TakeTime, CreateSession, Goto
      <3>3. y.pc = "insert" /\ z.pc = "answer"
        <4>1. request[r] \in Request
          BY <1>1
        <4> QED BY <4>1 DEF Request
      <3> HIDE DEF y, z
      <3>4. PICK x \in {y, z} : request' = [request EXCEPT ![r] = x]
        BY <3>2
      <3>5. x.pc # "fail"
        BY <3>3, <3>4
      <3> QED BY <1>1, <3>1, <3>4, <3>5, LevelOfOne
    <2> QED
      BY <1>2, <2>2, <2>3, <2>4, <2>5, <2>6, <2>7, <2>8, <2>9, <2>10 DEF RequestNext
  <1>3. ASSUME attempts' = attempts, uncounted' = uncounted,
               \A r \in Requests : Level(r)' = Level(r)
        PROVE  FailuresRanked'
    <2>1. \A v : Above(v)' = Above(v)
      BY <1>3 DEF Above
    <2>2. Levels' = Levels
      BY <2>1 DEF Levels
    <2> QED BY <1>3, <2>2 DEF FailuresRanked
  <1>4. CASE PruneExpiredSessions \/ UNCHANGED sessionVars
    <2>1. attempts' = attempts /\ uncounted' = uncounted /\ request' = request
      BY <1>4 DEF PruneExpiredSessions, sessionVars, userVars, historyVars
    <2> QED BY <1>3, <2>1 DEF Level
  <1>5. CASE Tick
    <2>1. attempts' = attempts /\ uncounted' = uncounted
      BY <1>5 DEF Tick, historyVars
    <2>2. ASSUME NEW r \in Requests
          PROVE  request'[r].pc = request[r].pc /\ request'[r].seen = request[r].seen
      <3>1. request[r] \in Request
        BY <1>1
      <3>2. request'[r] \in {request[r], [request[r] EXCEPT !.lag = Least(@ + 1, TTL + 1)]}
        BY <1>5 DEF Tick
      <3> QED BY <3>1, <3>2 DEF Request
    <2>3. \A r \in Requests : Level(r)' = Level(r)
      BY <2>1, <2>2 DEF Level
    <2> QED BY <1>3, <2>1, <2>3
  <1> QED BY <1>2, <1>4, <1>5 DEF SessionsNext

\* recordFailedLogin locks the account in the end: however the attempts
\* overlap, and however old the count is that each of them writes over, there
\* are fewer failures without a lock than ways for that many requests to stand
\* at that many counts.
THEOREM SessionsFailuresLock == SessionsSpec => []FailuresLock
  <1>1. SessionsInit => FailuresRanked
    <2> SUFFICES ASSUME SessionsInit PROVE FailuresRanked
      OBVIOUS
    <2>1. SessionsTypeOK
      BY SessionsInvInit DEF SessionsInv
    <2>2. ProfileRank(Levels, MaxAttempts, 0) \in Nat
      BY <2>1, LevelsProfile
    <2> QED BY <2>2 DEF SessionsInit, FailuresRanked
  <1>2. SessionsInv /\ SessionsInv' /\ FailuresRanked /\ [SessionsNext]_sessionVars
        => FailuresRanked'
    <2>1. SessionsInv' => SessionsTypeOK'
      BY DEF SessionsInv
    <2> QED BY <2>1, FailuresStep
  <1>3. SessionsInv /\ FailuresRanked => FailuresLock
    <2> SUFFICES ASSUME SessionsInv, FailuresRanked PROVE FailuresLock
      OBVIOUS
    <2> DEFINE n == Cardinality(Requests)
    <2>1. SessionsTypeOK
      BY DEF SessionsInv
    <2>2. n \in Nat /\ MaxAttempts \in Nat \ {0} /\ 0 \in 0 .. MaxAttempts - 1
          /\ MaxAttempts - 0 = MaxAttempts
      BY SessionsAssumption, FS_CardinalityType
    <2>3. Profile(Levels, MaxAttempts) /\ Levels[0] <= n
          /\ ProfileRank(Levels, MaxAttempts, 0) \in Nat
      BY <2>1, <2>2, LevelsProfile
    <2> HIDE DEF n
    <2>4. ProfileRank(Levels, MaxAttempts, 0) < Ways(MaxAttempts, n) /\ Ways(MaxAttempts, n) \in Nat
      BY <2>2, <2>3, RankBounded, WaysNat
    <2>5. uncounted < Ways(MaxAttempts, n)
      BY <2>3, <2>4 DEF FailuresRanked
    <2> QED BY <2>5 DEF FailuresLock, Ways, n
  <1> QED BY <1>1, <1>2, <1>3, SessionsAlways, PTL DEF SessionsSpec
=============================================================================

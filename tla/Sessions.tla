------------------------------ MODULE Sessions ------------------------------
(***************************************************************************)
(* Accounts, sessions and password recovery (auth/).  Each request is one  *)
(* handler; a step is one statement, or one transaction from its last wait *)
(* to its commit.  The token a request draws is named by the request.      *)
(*                                                                         *)
(* The users' rows are locked by FOR UPDATE; the insert of a session, whose*)
(* foreign key shares the user's row, waits for that lock.  Time passes by *)
(* Expire: a week for a session, half an hour for a reset token.           *)
(*                                                                         *)
(* An operator whose name has an underscore is a faulty variant of the     *)
(* operator that follows it; no specification uses it.                     *)
(***************************************************************************)
EXTENDS Naturals

CONSTANTS Users, Requests, Passwords, None

SessionsAssumption == None \notin Users \cup Requests \cup Passwords

VARIABLES
    password,   \* users.password_hash, None when there is no such account
    session,    \* sessions, by the request that created the row
    token,      \* password_reset_tokens, by the request that issued it
    lock,       \* who holds a user's row
    request,    \* the requests
    newest,     \* the token issued last to a user
    uses        \* how many password changes a token has paid for

vars == <<password, session, token, lock, request, newest, uses>>

NoSession == [row |-> FALSE, user |-> None, expired |-> FALSE, ended |-> FALSE]
NoToken == [row |-> FALSE, user |-> None, expired |-> FALSE, used |-> FALSE]
Idle == [at |-> "idle", user |-> None, with |-> None, late |-> FALSE, doomed |-> {}]

TypeOK ==
    /\ password \in [Users -> Passwords \cup {None}]
    /\ session \in [Requests -> [row : BOOLEAN, user : Users \cup {None},
                                 expired : BOOLEAN,
                                 ended : BOOLEAN]]   \* signed out, reset or expired
    /\ token \in [Requests -> [row : BOOLEAN, user : Users \cup {None},
                               expired : BOOLEAN, used : BOOLEAN]]
    /\ lock \in [Users -> Requests \cup {None}]
    /\ request \in [Requests ->
          [at : {"idle", "verified", "leaving", "reading", "known", "locked", "cleared",
                 "found", "holding", "in", "done"},
           user : Users \cup {None},
           with : Requests \cup {None},   \* whose cookie or token it presents
           late : BOOLEAN,                \* the session had ended when it began
           doomed : SUBSET Requests]]     \* tokens its transaction has deleted
    /\ newest \in [Users -> Requests \cup {None}]
    /\ uses \in [Requests -> Nat]
    \* A row is locked by the request that is about to use it.
    /\ \A u \in Users : lock[u] # None =>
          /\ request[lock[u]].at \in {"locked", "cleared", "holding"}
          /\ request[lock[u]].user = u

Init ==
    /\ password \in [Users -> Passwords \cup {None}]
    /\ session = [r \in Requests |-> NoSession]
    /\ token = [r \in Requests |-> NoToken]
    /\ lock = [u \in Users |-> None]
    /\ request = [r \in Requests |-> Idle]
    /\ newest = [u \in Users |-> None]
    /\ uses = [r \in Requests |-> 0]

Goto(r, at) == request' = [request EXCEPT ![r].at = at]

-----------------------------------------------------------------------------
(* Register, Login, Logout and Authenticate.                               *)

\* CreateUser; a taken address ends the request.
Register(r, u, p) ==
    /\ request[r].at = "idle" /\ password[u] = None
    /\ password' = [password EXCEPT ![u] = p]
    /\ request' = [request EXCEPT ![r].at = "verified", ![r].user = u]
    /\ UNCHANGED <<session, token, lock, newest, uses>>

\* The password is compared with the row as it was read.
Login(r, u) ==
    /\ request[r].at = "idle" /\ password[u] # None
    /\ request' = [request EXCEPT ![r].at = "verified", ![r].user = u]
    /\ UNCHANGED <<password, session, token, lock, newest, uses>>

CreateSession(r) ==
    /\ request[r].at = "verified" /\ lock[request[r].user] = None
    /\ session' = [session EXCEPT ![r] = [NoSession EXCEPT !.row = TRUE,
                                                           !.user = request[r].user]]
    /\ Goto(r, "done")
    /\ UNCHANGED <<password, token, lock, newest, uses>>

\* FindSessionByTokenHash, for Logout ("leaving") and for Authenticate.
FindSession(r, s, at) ==
    /\ request[r].at = "idle" /\ session[s].user # None
    /\ request' = [request EXCEPT ![r].at = IF session[s].row THEN at ELSE "done",
                                  ![r].with = s,
                                  ![r].late = session[s].ended]
    /\ UNCHANGED <<password, session, token, lock, newest, uses>>

Logout(r) ==
    /\ request[r].at = "leaving"
    /\ session' = [session EXCEPT ![request[r].with].row = FALSE,
                                  ![request[r].with].ended = TRUE]
    /\ Goto(r, "done")
    /\ UNCHANGED <<password, token, lock, newest, uses>>

\* An expired row is deleted on sight.
Authenticate(r) ==
    /\ request[r].at = "reading"
    /\ IF session[request[r].with].expired
       THEN session' = [session EXCEPT ![request[r].with].row = FALSE] /\ Goto(r, "done")
       ELSE UNCHANGED session /\ Goto(r, "in")
    /\ UNCHANGED <<password, token, lock, newest, uses>>

-----------------------------------------------------------------------------
(* ForgotPassword: a transaction that holds the user's row.                *)

\* FindUserByEmail, outside the transaction.
ForgotPassword(r, u) ==
    /\ request[r].at = "idle" /\ password[u] # None
    /\ request' = [request EXCEPT ![r].at = "known", ![r].user = u]
    /\ UNCHANGED <<password, session, token, lock, newest, uses>>

LockUser_Unlocked(r) ==
    /\ request[r].at = "known"
    /\ Goto(r, "locked")
    /\ UNCHANGED <<password, session, token, lock, newest, uses>>

LockUser(r) ==
    /\ request[r].at = "known" /\ lock[request[r].user] = None
    /\ lock' = [lock EXCEPT ![request[r].user] = r]
    /\ Goto(r, "locked")
    /\ UNCHANGED <<password, session, token, newest, uses>>

DeleteTokens(r) ==
    /\ request[r].at = "locked"
    /\ request' = [request EXCEPT
          ![r].at = "cleared",
          ![r].doomed = {t \in Requests : token[t].row /\ token[t].user = request[r].user}]
    /\ UNCHANGED <<password, session, token, lock, newest, uses>>

Release(r) == lock' = [u \in Users |-> IF lock[u] = r THEN None ELSE lock[u]]

\* The insert, the mail that carries the token, and the commit.
IssueToken(r) ==
    /\ request[r].at = "cleared"
    /\ token' = [t \in Requests |->
          IF t = r THEN [NoToken EXCEPT !.row = TRUE, !.user = request[r].user]
          ELSE IF t \in request[r].doomed THEN [token[t] EXCEPT !.row = FALSE] ELSE token[t]]
    /\ newest' = [newest EXCEPT ![request[r].user] = r]
    /\ Release(r)
    /\ Goto(r, "done")
    /\ UNCHANGED <<password, session, uses>>

-----------------------------------------------------------------------------
(* ResetPassword: the token is judged when the statement starts, and again *)
(* when the user's row is held.  NOW() is the transaction's start: an      *)
(* expiry in between does not matter, the clean-up of the row does.        *)

FindToken(r, t) ==
    /\ request[r].at = "idle" /\ token[t].user # None
    /\ request' = [request EXCEPT
          ![r].at = IF token[t].row /\ ~token[t].used /\ ~token[t].expired THEN "found"
                    ELSE "done",
          ![r].user = token[t].user,
          ![r].with = t]
    /\ UNCHANGED <<password, session, token, lock, newest, uses>>

HoldUser(r) ==
    /\ request[r].at = "found" /\ lock[request[r].user] = None
    /\ lock' = [lock EXCEPT ![request[r].user] = r]
    /\ Goto(r, "holding")
    /\ UNCHANGED <<password, session, token, newest, uses>>

StillUsable_Remembered(t) == TRUE

StillUsable(t) == token[t].row /\ ~token[t].used

SetPassword_KeepSessions(r, p) ==
    LET t == request[r].with  u == request[r].user IN
    /\ request[r].at = "holding" /\ StillUsable(t)
    /\ token' = [token EXCEPT ![t].used = TRUE]
    /\ uses' = [uses EXCEPT ![t] = @ + 1]
    /\ password' = [password EXCEPT ![u] = p]
    /\ session' = [s \in Requests |->
          IF session[s].user = u THEN [session[s] EXCEPT !.ended = TRUE] ELSE session[s]]
    /\ Release(r) /\ Goto(r, "done")
    /\ UNCHANGED newest

SetPassword(r, p) ==
    LET t == request[r].with  u == request[r].user IN
    /\ request[r].at = "holding" /\ StillUsable(t)
    /\ token' = [token EXCEPT ![t].used = TRUE]
    /\ uses' = [uses EXCEPT ![t] = @ + 1]
    /\ password' = [password EXCEPT ![u] = p]
    /\ session' = [s \in Requests |->
          IF session[s].user = u THEN [session[s] EXCEPT !.row = FALSE, !.ended = TRUE]
          ELSE session[s]]
    /\ Release(r) /\ Goto(r, "done")
    /\ UNCHANGED newest

Rollback_KeepLock(r) ==
    /\ request[r].at = "holding" /\ ~StillUsable(request[r].with)
    /\ Goto(r, "done")
    /\ UNCHANGED <<password, session, token, lock, newest, uses>>

\* RowsAffected() != 1.
Rollback(r) ==
    /\ request[r].at = "holding" /\ ~StillUsable(request[r].with)
    /\ Release(r) /\ Goto(r, "done")
    /\ UNCHANGED <<password, session, token, newest, uses>>

-----------------------------------------------------------------------------
(* Failures, time, and the clean-up of every minute.                       *)

\* Any statement fails: what was committed stays, the transaction rolls back.
Fail(r) ==
    /\ request[r].at \notin {"idle", "in", "done"}
    /\ Release(r) /\ Goto(r, "done")
    /\ UNCHANGED <<password, session, token, newest, uses>>

Expire ==
    /\ \/ \E s \in Requests :
             /\ session[s].row /\ ~session[s].expired
             /\ session' = [session EXCEPT ![s].expired = TRUE, ![s].ended = TRUE]
             /\ UNCHANGED token
       \/ \E t \in Requests :
             /\ token[t].row /\ ~token[t].expired
             /\ token' = [token EXCEPT ![t].expired = TRUE]
             /\ UNCHANGED session
    /\ UNCHANGED <<password, lock, request, newest, uses>>

Spent_Expired(t) == token[t].row /\ token[t].expired /\ token[t].used

Spent(t) == token[t].row /\ (token[t].expired \/ token[t].used)

\* Two statements; the first one failing leaves out the second.
CleanupExpired ==
    /\ session' = [s \in Requests |->
          IF session[s].expired THEN [session[s] EXCEPT !.row = FALSE] ELSE session[s]]
    /\ \/ token' = [t \in Requests |->
             IF Spent(t) THEN [token[t] EXCEPT !.row = FALSE] ELSE token[t]]
       \/ UNCHANGED token
    /\ UNCHANGED <<password, lock, request, newest, uses>>

Serve(r) ==
    \/ CreateSession(r) \/ Logout(r) \/ Authenticate(r)
    \/ LockUser(r) \/ DeleteTokens(r) \/ IssueToken(r)
    \/ HoldUser(r) \/ (\E p \in Passwords : SetPassword(r, p)) \/ Rollback(r)

Next ==
    \/ \E r \in Requests, u \in Users :
          \/ \E p \in Passwords : Register(r, u, p)
          \/ Login(r, u) \/ ForgotPassword(r, u)
    \/ \E r, s \in Requests :
          \/ FindSession(r, s, "leaving") \/ FindSession(r, s, "reading") \/ FindToken(r, s)
    \/ \E r \in Requests : Serve(r) \/ Fail(r)
    \/ Expire \/ CleanupExpired

\* Time passes, the requests run, and now and then a whole clean-up does.
Fairness ==
    /\ WF_vars(Expire)
    /\ WF_vars(CleanupExpired /\ \A t \in Requests : ~Spent(t)')
    /\ \A r \in Requests : WF_vars(Serve(r))

Spec == Init /\ [][Next]_vars /\ Fairness

-----------------------------------------------------------------------------
(* Properties.                                                             *)

\* A request that begins when a session has been signed out, reset or has
\* expired is not served as that session's user (Logout, ResetPassword,
\* CleanupExpired and the clock of Authenticate).
EndedSessionsStayEnded == \A r \in Requests : request[r].at = "in" => ~request[r].late

\* A mailed link changes a password once, however often it is followed at the
\* same time (the second look at used_at in ResetPassword).
TokensWorkOnce == \A t \in Requests : uses[t] <= 1

\* A password changes only by the link mailed last to that address: an account
\* is never registered over, and a later ForgotPassword ends earlier links,
\* the ones a ResetPassword has already found included.
OnlyTheLastLink ==
    [][\A u \in Users : password'[u] # password[u] =>
          \/ password[u] = None
          \/ newest[u] # None /\ uses'[newest[u]] = uses[newest[u]] + 1]_vars

\* No request waits for ever for a user's row: each is made once, so that all of them
\* end when again and again none is on its way.
EveryRequestEnds == []<>(\A r \in Requests : request[r].at \in {"idle", "in", "done"})

\* Used and expired links do not pile up.
TokensAreCleared == []<>(\A t \in Requests : ~token[t].row)

\* Ended sessions and spent or replaced links stay without effect.
SessionsSafety ==
    /\ []TypeOK
    /\ []EndedSessionsStayEnded
    /\ []TokensWorkOnce
    /\ OnlyTheLastLink
=============================================================================

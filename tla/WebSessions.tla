------------------------------ MODULE WebSessions ------------------------------
(***************************************************************************)
(* Signing in and out of one account from several browsers (auth/oauth.ts,  *)
(* auth/session.ts and the routes /oauth/..., /api/session and              *)
(* /api/auth/logout).  Each login gives its browser a web session of its    *)
(* own; all of them act through the one OAuth session of the account, which *)
(* the OAuth client library reads and writes in oauth_session.              *)
(***************************************************************************)
EXTENDS FiniteSets, ServiceConstants

VARIABLES jar,        \* jar[b]: the session and the CSRF cookie of a browser
          row,        \* row[t]: the row of web_session for token t
          grant,      \* the account's row of oauth_session exists
          state,      \* state[b]: b's row of oauth_state
          job,        \* job[b]: the login or logout b's request is in
          tokensIssued,     \* the newest token
          ended,      \* tokens whose logout was answered
          bereft,     \* tokens that lost the grant to another one's logout or
                      \* to the authorization server
          actor       \* actor[b]: an API request of b between its awaits

sessionVars == <<jar, row, grant, state, job, tokensIssued, ended, bereft, actor>>

Tokens == 1..MaxTokens
Jars == [session : Tokens \cup {NoToken}, csrf : Tokens \cup {NoToken}]
NoJob == [pc |-> "idle", token |-> NoToken]
Rows == {"none", "live", "outdated", "expired"}   \* outdated: older grant

SessionTypeOK ==
    /\ jar \in [Browsers -> Jars]
    /\ row \in [Tokens -> Rows]
    /\ grant \in BOOLEAN
    /\ state \in [Browsers -> BOOLEAN]
    /\ job \in [Browsers -> [pc : {"idle", "issue", "revoke", "ungrant", "delete"},
                             token : Tokens \cup {NoToken}]]
    /\ tokensIssued \in 0..MaxTokens
    /\ ended \in SUBSET Tokens /\ bereft \in SUBSET Tokens
    /\ actor \in [Browsers -> [pc : {"idle", "restore", "call"},
                               token : Tokens \cup {NoToken}, late : BOOLEAN]]

NoActor == [pc |-> "idle", token |-> NoToken, late |-> FALSE]

SessionInit ==
    /\ jar = [b \in Browsers |-> [session |-> NoToken, csrf |-> NoToken]]
    /\ row = [t \in Tokens |-> "none"]
    /\ grant = FALSE
    /\ state = [b \in Browsers |-> FALSE]
    /\ job = [b \in Browsers |-> NoJob]
    /\ tokensIssued = 0
    /\ ended = {} /\ bereft = {}
    /\ actor = [b \in Browsers |-> NoActor]

InUse == {t \in Tokens : row[t] \in {"live", "outdated"}}
Do(b, pc, t) == job' = [job EXCEPT ![b] = [pc |-> pc, token |-> t]]

-------------------------------------------------------------------------------
(* GET /oauth/login: authorize stores the state for 15 minutes.            *)
Login(b) ==
    /\ job[b].pc = "idle"
    /\ state' = [state EXCEPT ![b] = TRUE]
    /\ UNCHANGED <<jar, row, grant, job, tokensIssued, ended, bereft, actor>>

StateExpires(b) ==
    /\ state[b]
    /\ state' = [state EXCEPT ![b] = FALSE]
    /\ UNCHANGED <<jar, row, grant, job, tokensIssued, ended, bereft, actor>>

(* GET /oauth/callback: the library takes the state, exchanges the code    *)
(* and stores the session of the account.                                  *)
Callback(b) ==
    /\ job[b].pc = "idle" /\ state[b]
    /\ state' = [state EXCEPT ![b] = FALSE]
    /\ grant' = TRUE
    /\ Do(b, "issue", NoToken)
    /\ UNCHANGED <<jar, row, tokensIssued, ended, bereft, actor>>

(* issueWebSession; the tokens are random.  Logging out that has read the  *)
(* account by now takes the grant away from the new session as well.       *)
Issue(b) ==
    /\ job[b].pc = "issue"
    /\ tokensIssued < MaxTokens
    /\ LET t == tokensIssued + 1
       IN /\ tokensIssued' = t
          /\ row' = [row EXCEPT ![t] = "live"]
          /\ jar' = [jar EXCEPT ![b] = [session |-> t, csrf |-> t]]
          /\ bereft' = IF grant THEN bereft ELSE bereft \cup {t}
    /\ Do(b, "idle", NoToken)
    /\ UNCHANGED <<grant, state, ended, actor>>

(* The callback fails, or the isolate stops, before or in between.         *)
CallbackFails(b) ==
    /\ job[b].pc = "issue"
    /\ Do(b, "idle", NoToken)
    /\ UNCHANGED <<jar, row, grant, state, tokensIssued, ended, bereft, actor>>

-------------------------------------------------------------------------------
(* POST /api/auth/logout: the account is read from the session's row, the  *)
(* grant revoked (failures ignored) and deleted, then the row.  Expired    *)
(* rows count.                                                             *)
Logout(b) ==
    /\ job[b].pc = "idle" /\ jar[b].session # NoToken
    /\ Do(b, IF row[jar[b].session] = "none" THEN "delete" ELSE "ungrant", jar[b].session)
    /\ UNCHANGED <<jar, row, grant, state, tokensIssued, ended, bereft, actor>>

Ungrant(b) ==
    /\ job[b].pc = "ungrant"
    /\ grant' = FALSE
    /\ bereft' = bereft \cup InUse
    /\ Do(b, "delete", job[b].token)
    /\ UNCHANGED <<jar, row, state, tokensIssued, ended, actor>>

\* Mutant: the session's own row is left behind.
DeleteNothing(b) ==
    /\ job[b].pc = "delete"
    /\ ended' = ended \cup {job[b].token}
    /\ jar' = [jar EXCEPT ![b].csrf = NoToken]
    /\ Do(b, "idle", NoToken)
    /\ UNCHANGED <<row, grant, state, tokensIssued, bereft, actor>>

(* The row goes.  The response copies its headers through                  *)
(* Object.fromEntries, which keeps one of the two Set-Cookie headers: the  *)
(* CSRF cookie is cleared, the session cookie stays in the browser.        *)
DeleteSession(b) ==
    /\ job[b].pc = "delete"
    /\ row' = [row EXCEPT ![job[b].token] = "none"]
    /\ ended' = ended \cup {job[b].token}
    /\ jar' = [jar EXCEPT ![b].csrf = NoToken]
    /\ Do(b, "idle", NoToken)
    /\ UNCHANGED <<grant, state, tokensIssued, bereft, actor>>

LogoutFails(b) ==
    /\ job[b].pc \in {"ungrant", "delete"}
    /\ Do(b, "idle", NoToken)
    /\ UNCHANGED <<jar, row, grant, state, tokensIssued, ended, bereft, actor>>

(* Seven days pass, or a deployment asks for more scopes.                  *)
Age(t) ==
    /\ row[t] \in {"live", "outdated"}
    /\ \E r \in {"outdated", "expired"} \ {row[t]} : row' = [row EXCEPT ![t] = r]
    /\ UNCHANGED <<jar, grant, state, job, tokensIssued, ended, bereft, actor>>

(* The authorization server refuses a refresh: the library deletes the     *)
(* session.                                                                *)
Revoked ==
    /\ grant
    /\ grant' = FALSE
    /\ bereft' = bereft \cup InUse
    /\ UNCHANGED <<jar, row, state, job, tokensIssued, ended, actor>>

-------------------------------------------------------------------------------
(* The checks of authenticateRequest in their order.                       *)
Authenticate(b, mutation, header) ==
    LET c == jar[b]
    IN CASE c.session = NoToken -> "AUTH_REQUIRED"
         [] c.session # NoToken /\ mutation /\ c.csrf = NoToken -> "FORBIDDEN"
         [] row[c.session] \in {"none", "expired"} -> "AUTH_REQUIRED"
         [] row[c.session] = "outdated" -> "REAUTHORIZE_REQUIRED"
         [] mutation /\ (header # c.csrf \/ header # c.session) -> "FORBIDDEN"
         [] OTHER -> "OK"

(* An API request: authenticated on the row, then restored on the grant.   *)
Request(b) ==
    /\ actor[b].pc = "idle"
    /\ \E mutation \in BOOLEAN : Authenticate(b, mutation, jar[b].csrf) = "OK"
    /\ actor' = [actor EXCEPT ![b] = [pc |-> "restore", token |-> jar[b].session,
                                      late |-> jar[b].session \in ended]]
    /\ UNCHANGED <<jar, row, grant, state, job, tokensIssued, ended, bereft>>

(* restore: AUTH_REQUIRED without a grant.                                 *)
Restore(b) ==
    /\ actor[b].pc = "restore"
    /\ actor' = [actor EXCEPT ![b] = IF grant THEN [@ EXCEPT !.pc = "call"] ELSE NoActor]
    /\ UNCHANGED <<jar, row, grant, state, job, tokensIssued, ended, bereft>>

Call(b) ==
    /\ actor[b].pc = "call"
    /\ actor' = [actor EXCEPT ![b] = NoActor]
    /\ UNCHANGED <<jar, row, grant, state, job, tokensIssued, ended, bereft>>

SessionNext ==
    \/ \E b \in Browsers :
         \/ Login(b) \/ StateExpires(b) \/ Callback(b) \/ Issue(b) \/ CallbackFails(b)
         \/ Logout(b) \/ Ungrant(b) \/ DeleteSession(b) \/ LogoutFails(b)
         \/ Request(b) \/ Restore(b) \/ Call(b)
    \/ \E t \in Tokens : Age(t)
    \/ Revoked

SessionSpec == SessionInit /\ [][SessionNext]_sessionVars

(***************************************************************************)
(* A session in use has the account's grant behind it, unless that was     *)
(* withdrawn by a logout in another browser (also one that began before    *)
(* the session was issued) or by the authorization server; and a session   *)
(* whose logout was answered starts no call any more, although the browser *)
(* keeps its cookie.                                                       *)
(***************************************************************************)
SessionsBacked ==
    /\ \A t \in InUse : grant \/ t \in bereft
    /\ \A b \in Browsers : ~actor[b].late
===============================================================================

--------------------------- MODULE AccountProofs ---------------------------
(***************************************************************************)
(* Proofs about what belongs to one account: WebSessions, AccountRecords   *)
(* and MediaDrafts, one after the other.  The three share no state; each   *)
(* part begins with its argument.                                          *)
(***************************************************************************)
EXTENDS WebSessions, AccountRecords, MediaDrafts, TLAPS

-----------------------------------------------------------------------------
(***************************************************************************)
(* Proofs about WebSessions for any number of browsers and tokens.          *)
(* That an ended session starts no call rests on its row staying away: the   *)
(* invariant adds that ended tokens have no row and are not drawn again, and *)
(* that browsers and logouts only name tokens that were drawn.               *)
(***************************************************************************)

Jobs == [pc : {"idle", "issue", "revoke", "ungrant", "delete"}, token : Tokens \cup {NoToken}]
Actors == [pc : {"idle", "restore", "call"}, token : Tokens \cup {NoToken}, late : BOOLEAN]
Drawn == {t \in Tokens : t <= tokensIssued}

\* An answered logout leaves no row, and its token is not drawn again.
EndedGone == \A t \in ended : t \in Drawn /\ row[t] = "none"

\* Cookies and logouts name drawn tokens.
OnlyDrawn ==
    /\ \A b \in Browsers : jar[b].session # NoToken => jar[b].session \in Drawn
    /\ \A b \in Browsers : job[b].pc \in {"ungrant", "delete"} => job[b].token \in Drawn

SessionInv == SessionTypeOK /\ SessionsBacked /\ EndedGone /\ OnlyDrawn

\* A request passes authenticateRequest only on a live row.
LEMMA OnLiveRow ==
    ASSUME SessionTypeOK, NEW b \in Browsers, NEW m \in BOOLEAN, NEW h,
           Authenticate(b, m, h) = "OK"
    PROVE  jar[b].session \in Tokens /\ row[jar[b].session] = "live"
<1>1. jar[b].session \in Tokens \cup {NoToken}
  BY DEF SessionTypeOK, Jars
<1>2. jar[b].session # NoToken
  BY DEF Authenticate
<1>3. row[jar[b].session] \in Rows
  BY <1>1, <1>2 DEF SessionTypeOK
<1> QED
  BY <1>1, <1>2, <1>3 DEF Authenticate, Rows

\* Nobody is signed in at first.
LEMMA SessionStarts == SessionInit => SessionInv
<1> SUFFICES ASSUME SessionInit PROVE SessionInv
  OBVIOUS
<1> USE TokensAssumption DEF SessionInit
<1>1. SessionTypeOK
  <2>1. NoJob \in Jobs /\ NoActor \in Actors /\ [session |-> NoToken, csrf |-> NoToken] \in Jars
    BY DEF NoJob, NoActor, Jobs, Actors, Jars
  <2>2. "none" \in Rows /\ 0 \in 0..MaxTokens
    BY DEF Rows
  <2> QED
    BY <2>1, <2>2 DEF SessionTypeOK, Jobs, Actors
<1>2. InUse = {}
  BY DEF InUse
<1>3. SessionsBacked
  BY <1>2 DEF SessionsBacked, NoActor
<1>4. EndedGone /\ OnlyDrawn
  BY DEF EndedGone, OnlyDrawn, NoJob
<1> QED
  BY <1>1, <1>3, <1>4 DEF SessionInv

\* Entering or leaving a login or logout keeps the invariant.
LEMMA JobStep ==
    ASSUME SessionInv, NEW b \in Browsers, NEW j \in Jobs, job' = [job EXCEPT ![b] = j],
           j.pc \in {"ungrant", "delete"} => j.token \in Drawn,
           state' \in [Browsers -> BOOLEAN], grant' \in BOOLEAN, bereft' \in SUBSET Tokens,
           bereft \subseteq bereft', (grant /\ ~grant') => InUse \subseteq bereft',
           UNCHANGED <<jar, row, tokensIssued, ended, actor>>
    PROVE  SessionInv'
<1> USE DEF SessionInv
<1>1. /\ job' \in [Browsers -> Jobs] /\ job'[b] = j
      /\ \A o \in Browsers : o # b => job'[o] = job[o]
  BY DEF SessionTypeOK, Jobs
<1>2. SessionTypeOK'
  BY <1>1 DEF SessionTypeOK, Jobs, Jars
<1>3. InUse' = InUse /\ Drawn' = Drawn
  BY DEF InUse, Drawn
<1>4. SessionsBacked'
  BY <1>3 DEF SessionsBacked, SessionTypeOK
<1>5. EndedGone'
  BY <1>3 DEF EndedGone
<1>6. OnlyDrawn'
  BY <1>1, <1>3 DEF OnlyDrawn
<1> QED
  BY <1>2, <1>4, <1>5, <1>6

\* A new session draws a token nobody has had, and is backed by the grant
\* unless a logout that overtook it has withdrawn that.
LEMMA IssueKeeps == ASSUME SessionInv, NEW b \in Browsers, Issue(b) PROVE SessionInv'
<1> USE TokensAssumption DEF SessionInv
<1> DEFINE t == tokensIssued + 1
<1>1. /\ t \in Tokens /\ tokensIssued \in Nat /\ tokensIssued' = t /\ UNCHANGED <<grant, state, ended, actor>>
      /\ row' = [row EXCEPT ![t] = "live"]
      /\ jar' = [jar EXCEPT ![b] = [session |-> t, csrf |-> t]]
      /\ bereft' = IF grant THEN bereft ELSE bereft \cup {t}
      /\ job' = [job EXCEPT ![b] = [pc |-> "idle", token |-> NoToken]]
  BY DEF Issue, Do, SessionTypeOK, Tokens
<1>2. /\ row' \in [Tokens -> Rows] /\ row'[t] = "live"
      /\ \A u \in Tokens : u # t => row'[u] = row[u]
  BY <1>1 DEF SessionTypeOK, Rows
<1>3. /\ jar' \in [Browsers -> Jars] /\ jar'[b].session = t
      /\ \A o \in Browsers : o # b => jar'[o] = jar[o]
  BY <1>1 DEF SessionTypeOK, Jars
<1>4. /\ job' \in [Browsers -> Jobs] /\ job'[b].pc = "idle"
      /\ \A o \in Browsers : o # b => job'[o] = job[o]
  BY <1>1 DEF SessionTypeOK, Jobs
<1>5. tokensIssued' \in 0..MaxTokens /\ bereft' \in SUBSET Tokens
  BY <1>1 DEF SessionTypeOK, Tokens
<1>6. SessionTypeOK'
  BY <1>1, <1>2, <1>3, <1>4, <1>5 DEF SessionTypeOK, Jobs
<1>7. t \in Drawn' /\ t \notin Drawn /\ \A u \in Drawn : u \in Drawn'
  BY <1>1 DEF Drawn, Tokens
<1>8. SessionsBacked'
  <2>1. \A u \in InUse' : u = t \/ u \in InUse
    BY <1>2 DEF InUse
  <2>2. grant' \/ t \in bereft'
    BY <1>1
  <2> HIDE DEF t
  <2> QED
    BY <1>1, <2>1, <2>2 DEF SessionsBacked
<1>9. EndedGone'
  BY <1>1, <1>2, <1>7 DEF EndedGone, Drawn
<1>10. OnlyDrawn'
  <2> HIDE DEF t
  <2> QED
    BY <1>3, <1>4, <1>7 DEF OnlyDrawn
<1> QED
  BY <1>6, <1>8, <1>9, <1>10

\* Deleting the row of a logout ends its token.
LEMMA DeleteKeeps == ASSUME SessionInv, NEW b \in Browsers, DeleteSession(b) PROVE SessionInv'
<1> USE TokensAssumption DEF SessionInv
<1> DEFINE t == job[b].token
<1>1. /\ t \in Drawn /\ t \in Tokens
      /\ row' = [row EXCEPT ![t] = "none"] /\ ended' = ended \cup {t}
      /\ jar' = [jar EXCEPT ![b].csrf = NoToken]
      /\ job' = [job EXCEPT ![b] = [pc |-> "idle", token |-> NoToken]]
      /\ UNCHANGED <<grant, state, tokensIssued, bereft, actor>>
  BY DEF DeleteSession, Do, OnlyDrawn, Drawn
<1> HIDE DEF t
<1>2. /\ row' \in [Tokens -> Rows] /\ row'[t] = "none"
      /\ \A u \in Tokens : u # t => row'[u] = row[u]
  BY <1>1 DEF SessionTypeOK, Rows
<1>3. /\ jar' \in [Browsers -> Jars]
      /\ \A o \in Browsers : jar'[o].session = jar[o].session
  BY <1>1 DEF SessionTypeOK, Jars
<1>4. /\ job' \in [Browsers -> Jobs] /\ job'[b].pc = "idle"
      /\ \A o \in Browsers : o # b => job'[o] = job[o]
  BY <1>1 DEF SessionTypeOK, Jobs
<1>5. SessionTypeOK'
  BY <1>1, <1>2, <1>3, <1>4 DEF SessionTypeOK, Jobs
<1>6. Drawn' = Drawn
  BY <1>1 DEF Drawn
<1>7. SessionsBacked'
  <2>1. \A u \in InUse' : u \in InUse
    BY <1>2 DEF InUse
  <2> QED
    BY <1>1, <2>1 DEF SessionsBacked
<1>8. EndedGone'
  BY <1>1, <1>2, <1>6 DEF EndedGone, Drawn
<1>9. OnlyDrawn'
  BY <1>3, <1>4, <1>6 DEF OnlyDrawn
<1> QED
  BY <1>5, <1>7, <1>8, <1>9

\* An aged row stays in use or leaves it; a row that is gone stays gone.
LEMMA AgeKeeps == ASSUME SessionInv, NEW t \in Tokens, Age(t) PROVE SessionInv'
<1> USE DEF SessionInv
<1>1. PICK r \in {"outdated", "expired"} : row' = [row EXCEPT ![t] = r]
  BY DEF Age
<1>2. /\ row' \in [Tokens -> Rows] /\ row[t] \in {"live", "outdated"}
      /\ \A u \in Tokens : u # t => row'[u] = row[u]
      /\ UNCHANGED <<jar, grant, state, job, tokensIssued, ended, bereft, actor>>
  BY <1>1 DEF Age, SessionTypeOK, Rows
<1>3. SessionTypeOK'
  BY <1>2 DEF SessionTypeOK, Jars
<1>4. Drawn' = Drawn /\ \A u \in InUse' : u \in InUse
  BY <1>2 DEF Drawn, InUse
<1>5. SessionsBacked'
  BY <1>2, <1>4 DEF SessionsBacked
<1>6. EndedGone' /\ OnlyDrawn'
  BY <1>2, <1>4 DEF EndedGone, OnlyDrawn, Drawn
<1> QED
  BY <1>3, <1>5, <1>6

\* An API request keeps the invariant if it is not of an ended session.
LEMMA ActorStep ==
    ASSUME SessionInv, NEW b \in Browsers, NEW a \in Actors, actor' = [actor EXCEPT ![b] = a],
           ~a.late, UNCHANGED <<jar, row, grant, state, job, tokensIssued, ended, bereft>>
    PROVE  SessionInv'
<1> USE DEF SessionInv
<1>1. /\ actor' \in [Browsers -> Actors] /\ actor'[b] = a
      /\ \A o \in Browsers : o # b => actor'[o] = actor[o]
  BY DEF SessionTypeOK, Actors
<1>2. SessionTypeOK'
  BY <1>1 DEF SessionTypeOK, Actors, Jars
<1>3. SessionsBacked'
  BY <1>1 DEF SessionsBacked, InUse
<1>4. EndedGone' /\ OnlyDrawn'
  BY DEF EndedGone, OnlyDrawn, Drawn
<1> QED
  BY <1>2, <1>3, <1>4

\* Every step keeps the invariant.
LEMMA SessionStep == SessionInv /\ [SessionNext]_sessionVars => SessionInv'
<1> SUFFICES ASSUME SessionInv, [SessionNext]_sessionVars PROVE SessionInv'
  OBVIOUS
<1> USE DEF SessionInv
<1>1. ASSUME NEW b \in Browsers, Login(b) \/ StateExpires(b) PROVE SessionInv'
  <2>1. /\ state' \in [Browsers -> BOOLEAN]
        /\ UNCHANGED <<jar, row, grant, job, tokensIssued, ended, bereft, actor>>
    BY <1>1 DEF Login, StateExpires, SessionTypeOK
  <2>2. SessionTypeOK'
    BY <2>1 DEF SessionTypeOK, Jars
  <2> QED
    BY <2>1, <2>2 DEF SessionsBacked, EndedGone, OnlyDrawn, InUse, Drawn
<1>2. ASSUME NEW b \in Browsers, Callback(b) PROVE SessionInv'
  <2> DEFINE j == [pc |-> "issue", token |-> NoToken]
  <2>1. j \in Jobs /\ j.pc = "issue"
    BY DEF Jobs
  <2>2. job' = [job EXCEPT ![b] = j] /\ state' \in [Browsers -> BOOLEAN] /\ grant'
    BY <1>2 DEF Callback, Do, SessionTypeOK
  <2> QED
    BY <1>2, <2>1, <2>2, JobStep DEF Callback, SessionTypeOK
<1>3. ASSUME NEW b \in Browsers, Issue(b) PROVE SessionInv'
  BY <1>3, IssueKeeps
<1>4. ASSUME NEW b \in Browsers, CallbackFails(b) \/ LogoutFails(b) PROVE SessionInv'
  <2> DEFINE j == [pc |-> "idle", token |-> NoToken]
  <2>1. j \in Jobs /\ j.pc = "idle"
    BY DEF Jobs
  <2>2. job' = [job EXCEPT ![b] = j] /\ UNCHANGED <<jar, row, grant, state, tokensIssued, ended, bereft, actor>>
    BY <1>4 DEF CallbackFails, LogoutFails, Do
  <2> QED
    BY <2>1, <2>2, JobStep DEF SessionTypeOK
<1>5. ASSUME NEW b \in Browsers, Logout(b) PROVE SessionInv'
  <2>1. PICK p \in {"delete", "ungrant"} : job' = [job EXCEPT ![b] = [pc |-> p, token |-> jar[b].session]]
    BY <1>5 DEF Logout, Do
  <2>2. jar[b].session \in Drawn /\ jar[b].session \in Tokens
    BY <1>5 DEF Logout, OnlyDrawn, Drawn
  <2>3. [pc |-> p, token |-> jar[b].session] \in Jobs
    BY <2>2 DEF Jobs
  <2> QED
    BY <1>5, <2>1, <2>2, <2>3, JobStep DEF Logout, SessionTypeOK
<1>6. ASSUME NEW b \in Browsers, Ungrant(b) PROVE SessionInv'
  <2> DEFINE j == [pc |-> "delete", token |-> job[b].token]
  <2>1. j \in Jobs /\ j.token \in Drawn
    BY <1>6 DEF Ungrant, OnlyDrawn, Drawn, Jobs
  <2>2. bereft' \in SUBSET Tokens /\ InUse \subseteq bereft' /\ bereft \subseteq bereft' /\ grant' = FALSE
    BY <1>6 DEF Ungrant, SessionTypeOK, InUse
  <2> QED
    BY <1>6, <2>1, <2>2, JobStep DEF Ungrant, Do, SessionTypeOK
<1>7. ASSUME NEW b \in Browsers, DeleteSession(b) PROVE SessionInv'
  BY <1>7, DeleteKeeps
<1>8. ASSUME NEW b \in Browsers, Request(b) PROVE SessionInv'
  <2>1. jar[b].session \in Tokens /\ row[jar[b].session] = "live"
    BY <1>8, OnLiveRow DEF Request
  <2>2. (jar[b].session \in ended) = FALSE
    BY <2>1 DEF EndedGone
  <2> DEFINE a == [pc |-> "restore", token |-> jar[b].session, late |-> FALSE]
  <2>3. a \in Actors /\ ~a.late
    BY <2>1 DEF Actors
  <2>4. actor' = [actor EXCEPT ![b] = a]
    BY <1>8, <2>2 DEF Request
  <2> QED
    BY <1>8, <2>3, <2>4, ActorStep DEF Request
<1>9. ASSUME NEW b \in Browsers, Restore(b) \/ Call(b) PROVE SessionInv'
  <2>1. actor[b] \in Actors /\ ~actor[b].late
    BY DEF SessionTypeOK, Actors, SessionsBacked
  <2>2. NoActor \in Actors /\ ~NoActor.late
    BY DEF NoActor, Actors
  <2>3. [actor[b] EXCEPT !.pc = "call"] \in Actors /\ ~[actor[b] EXCEPT !.pc = "call"].late
    BY <2>1 DEF Actors
  <2>4. PICK a \in {NoActor, [actor[b] EXCEPT !.pc = "call"]} : actor' = [actor EXCEPT ![b] = a]
    BY <1>9 DEF Restore, Call
  <2> QED
    BY <1>9, <2>2, <2>3, <2>4, ActorStep DEF Restore, Call
<1>10. ASSUME NEW t \in Tokens, Age(t) PROVE SessionInv'
  BY <1>10, AgeKeeps
<1>11. CASE Revoked
  <2>1. bereft' \in SUBSET Tokens /\ InUse \subseteq bereft' /\ InUse' = InUse /\ Drawn' = Drawn
    BY <1>11 DEF Revoked, SessionTypeOK, InUse, Drawn
  <2>2. SessionTypeOK'
    BY <1>11, <2>1 DEF Revoked, SessionTypeOK, Jars
  <2> QED
    BY <1>11, <2>1, <2>2 DEF Revoked, SessionsBacked, EndedGone, OnlyDrawn
<1>12. CASE UNCHANGED sessionVars
  BY <1>12 DEF sessionVars, SessionTypeOK, Jars, SessionsBacked, EndedGone, OnlyDrawn, InUse,
       Drawn
<1> QED
  BY <1>1, <1>2, <1>3, <1>4, <1>5, <1>6, <1>7, <1>8, <1>9, <1>10, <1>11, <1>12 DEF SessionNext

\* The invariant of web sessions over one grant.
THEOREM SessionSound == SessionSpec => []SessionInv
BY SessionStarts, SessionStep, PTL DEF SessionSpec

\* authenticateRequest and logout: a session in use has the account's grant
\* behind it unless another logout or the authorization server withdrew it,
\* and a session whose logout was answered starts no call.
THEOREM SessionsAreBacked == SessionSpec => []SessionsBacked
<1>1. SessionInv => SessionsBacked
  BY DEF SessionInv
<1> QED
  BY SessionSound, <1>1, PTL

-----------------------------------------------------------------------------
(***************************************************************************)
(* Proofs about AccountRecords for any number of edits and versions.        *)
(* EditsKept alone is not inductive: a write replaces what is held by what  *)
(* its request read some awaits ago.  AccountInv adds that an edit waiting  *)
(* for its answer is held like an accepted one, and that a request whose    *)
(* CID is still the record's has read exactly what is held.                 *)
(***************************************************************************)

\* What a request's record may hold.
EditLocals == [pc : {"new", "read", "write", "answer", "done"}, seen : SUBSET Edits, cid : 0..MaxVersion]

\* Written edits are kept, accepted or not, until a blind write.
WrittenKept ==
    blind \/ (EditsKept /\ \A r \in Editors : accountRequest[r].pc = "answer" => r \in held)

\* A request's CID is not ahead of the record's; where it is the record's,
\* what was read is what is held.
ReadsCurrent ==
    \A r \in Editors :
        /\ accountRequest[r].cid <= cid
        /\ accountRequest[r].pc = "write" /\ accountRequest[r].cid # 0 /\ accountRequest[r].cid = cid =>
             accountRequest[r].seen = held

AccountInv == AccountTypeOK /\ WrittenKept /\ ReadsCurrent

\* A fresh request is a request, whatever its position.
LEMMA NewTyped ==
    /\ New \in EditLocals
    /\ \A p \in {"write", "done"} :
         /\ [New EXCEPT !.pc = p] \in EditLocals
         /\ [New EXCEPT !.pc = p].pc = p
         /\ [New EXCEPT !.pc = p].cid = 0
BY AccountAssumption DEF New, EditLocals

\* Changing the position of a request changes nothing else of it.
LEMMA AtTyped ==
    ASSUME NEW q \in EditLocals, NEW p \in {"new", "read", "write", "answer", "done"}
    PROVE  /\ [q EXCEPT !.pc = p] \in EditLocals
           /\ [q EXCEPT !.pc = p].pc = p
           /\ [q EXCEPT !.pc = p].cid = q.cid
           /\ [q EXCEPT !.pc = p].seen = q.seen
BY DEF EditLocals

\* Before any edit, what is held has been accepted.
LEMMA AccountStarts == AccountInit => AccountInv
<1> SUFFICES ASSUME AccountInit PROVE AccountInv
  OBVIOUS
<1> USE AccountAssumption DEF AccountInit
<1>1. cid \in 0..MaxVersion /\ cid >= 0
  OBVIOUS
<1>2. accountRequest \in [Editors -> EditLocals] /\ held \in SUBSET Edits
  BY NewTyped DEF Edits
<1>3. AccountTypeOK
  BY <1>1, <1>2 DEF AccountTypeOK, EditLocals
<1>4. \A r \in Editors : accountRequest[r].pc = "new" /\ accountRequest[r].cid = 0
  BY DEF New
<1> QED
  BY <1>1, <1>3, <1>4 DEF AccountInv, WrittenKept, EditsKept, ReadsCurrent

\* A step of one request that leaves the record alone keeps the invariant if
\* the request does not move to the answer and has read what is there.
LEMMA EditStep ==
    ASSUME AccountInv, NEW r \in Editors, NEW q \in EditLocals, To(r, q),
           UNCHANGED <<accountKind, held, cid, mode, blind>>, accepted' \in SUBSET Edits,
           accepted' \subseteq held \/ blind,
           q.pc = "answer" => r \in held, q.cid <= cid,
           q.pc = "write" /\ q.cid # 0 => q.seen = held
    PROVE  AccountInv'
<1> USE DEF AccountInv
<1>1. accountRequest \in [Editors -> EditLocals] /\ cid \in Nat
  BY AccountAssumption DEF AccountTypeOK, EditLocals
<1>2. /\ accountRequest' \in [Editors -> EditLocals]
      /\ accountRequest'[r] = q
      /\ \A o \in Editors : o # r => accountRequest'[o] = accountRequest[o]
  BY <1>1 DEF To
<1>3. AccountTypeOK'
  BY <1>2 DEF AccountTypeOK, EditLocals
<1>4. WrittenKept'
  BY <1>2 DEF WrittenKept, EditsKept
<1>5. ReadsCurrent'
  BY <1>2 DEF ReadsCurrent
<1> QED
  BY <1>3, <1>4, <1>5

\* A write: the condition on the CID, or the account of blindness, makes the
\* new content contain the old one.
LEMMA WriteKeeps == ASSUME AccountInv, NEW r \in Editors, Write(r) PROVE AccountInv'
<1> DEFINE q == accountRequest[r]
<1> USE DEF AccountInv
<1>1. accountRequest \in [Editors -> EditLocals] /\ cid \in 0..MaxVersion /\ MaxVersion \in Nat
  BY AccountAssumption DEF AccountTypeOK, EditLocals
<1>2. q \in EditLocals /\ q.pc = "write" /\ q.cid <= cid /\ q.seen \in SUBSET Edits
  BY <1>1 DEF Write, ReadsCurrent, EditLocals
<1>3. CASE ~Swap(r)
  <2>1. To(r, [q EXCEPT !.pc = "done"]) /\ UNCHANGED <<accountKind, held, cid, mode, accepted, blind>>
    BY <1>3 DEF Write
  <2>2. accepted \in SUBSET Edits /\ (accepted \subseteq held \/ blind)
    BY DEF AccountTypeOK, WrittenKept, EditsKept
  <2> QED
    BY <1>2, <2>1, <2>2, AtTyped, EditStep
<1>4. CASE Swap(r)
  <2> DEFINE w == [q EXCEPT !.pc = "answer"]
  <2>1. /\ held' = q.seen \cup {r} /\ cid' = cid + 1 /\ cid < MaxVersion
        /\ To(r, w) /\ UNCHANGED <<accountKind, mode, accepted>>
        /\ blind' = (blind \/ (~(held \subseteq q.seen) /\ (accountKind = "profile" => q.cid = 0)))
    BY <1>4 DEF Write
  <2>2. w \in EditLocals /\ w.pc = "answer" /\ w.cid = q.cid
    BY <1>2, AtTyped
  <2> HIDE DEF w
  <2>3. /\ accountRequest' \in [Editors -> EditLocals]
        /\ accountRequest'[r] = w
        /\ \A o \in Editors : o # r => accountRequest'[o] = accountRequest[o]
    BY <1>1, <2>1, <2>2 DEF To
  <2>4. ~blind' => held \subseteq held'
    <3>1. CASE accountKind = "profile" /\ q.cid # 0
      BY <1>2, <1>4, <2>1, <3>1 DEF Swap, ReadsCurrent
    <3>2. CASE ~(accountKind = "profile" /\ q.cid # 0)
      BY <2>1, <3>2
    <3> QED
      BY <3>1, <3>2
  <2>5. AccountTypeOK'
    <3>1. held' \in SUBSET Edits /\ cid' \in 0..MaxVersion
      BY <1>1, <1>2, <2>1 DEF Edits
    <3>2. blind' \in BOOLEAN
      BY <2>1 DEF AccountTypeOK
    <3> QED
      BY <2>1, <2>3, <3>1, <3>2 DEF AccountTypeOK, EditLocals
  <2>6. WrittenKept'
    <3> SUFFICES ASSUME ~blind' PROVE EditsKept' /\ \A o \in Editors : accountRequest'[o].pc = "answer" => o \in held'
      BY DEF WrittenKept
    <3>1. ~blind /\ held \subseteq held' /\ r \in held'
      BY <2>1, <2>4
    <3> QED
      BY <2>1, <2>3, <3>1 DEF WrittenKept, EditsKept
  <2>7. ReadsCurrent'
    <3>1. \A o \in Editors : accountRequest'[o].cid <= cid /\ accountRequest'[o].cid \in Nat /\ cid \in Nat
      BY <1>1, <1>2, <2>2, <2>3 DEF ReadsCurrent, EditLocals
    <3> QED
      BY <2>1, <3>1 DEF ReadsCurrent
  <2> QED
    BY <2>5, <2>6, <2>7
<1> QED
  BY <1>3, <1>4

\* Every step keeps the invariant.
LEMMA AccountStep == AccountInv /\ [AccountNext]_accountVars => AccountInv'
<1> SUFFICES ASSUME AccountInv, [AccountNext]_accountVars PROVE AccountInv'
  OBVIOUS
<1> USE DEF AccountInv
<1>1. /\ accountRequest \in [Editors -> EditLocals] /\ cid \in 0..MaxVersion /\ held \in SUBSET Edits
      /\ accepted \in SUBSET Edits /\ (accepted \subseteq held \/ blind)
  BY DEF AccountTypeOK, EditLocals, WrittenKept, EditsKept
<1>2. ASSUME NEW r \in Editors, BeginEdit(r) PROVE AccountInv'
  <2>1. [accountRequest[r] EXCEPT !.pc = "read"] \in EditLocals
        /\ [accountRequest[r] EXCEPT !.pc = "read"].pc = "read"
        /\ [accountRequest[r] EXCEPT !.pc = "read"].cid <= cid
    BY <1>1, AtTyped DEF ReadsCurrent
  <2> QED
    BY <1>1, <1>2, <2>1, EditStep DEF BeginEdit
<1>3. ASSUME NEW r \in Editors, Read(r) PROVE AccountInv'
  <2>1. CASE To(r, [pc |-> "write", seen |-> held, cid |-> cid])
    <3>1. [pc |-> "write", seen |-> held, cid |-> cid] \in EditLocals
      BY <1>1 DEF EditLocals
    <3>2. cid <= cid
      BY <1>1, AccountAssumption
    <3> QED
      BY <1>1, <1>3, <2>1, <3>1, <3>2, EditStep DEF Read
  <2>2. ASSUME NEW p \in {"write", "done"}, To(r, [New EXCEPT !.pc = p]) PROVE AccountInv'
    <3>1. [New EXCEPT !.pc = p] \in EditLocals /\ [New EXCEPT !.pc = p].pc = p
          /\ [New EXCEPT !.pc = p].cid = 0 /\ 0 <= cid
      BY <1>1, NewTyped, AccountAssumption
    <3> QED
      BY <1>1, <1>3, <2>2, <3>1, EditStep DEF Read
  <2> QED
    BY <1>3, <2>1, <2>2 DEF Read
<1>4. ASSUME NEW r \in Editors, Write(r) PROVE AccountInv'
  BY <1>4, WriteKeeps
<1>5. ASSUME NEW r \in Editors, AnswerEdit(r) PROVE AccountInv'
  <2>1. [accountRequest[r] EXCEPT !.pc = "done"] \in EditLocals
        /\ [accountRequest[r] EXCEPT !.pc = "done"].pc = "done"
        /\ [accountRequest[r] EXCEPT !.pc = "done"].cid <= cid
    BY <1>1, AtTyped DEF ReadsCurrent
  <2>2. accepted' \in SUBSET Edits /\ (accepted' \subseteq held \/ blind)
    BY <1>1, <1>5 DEF AnswerEdit, WrittenKept, EditsKept, Edits
  <2> QED
    BY <1>5, <2>1, <2>2, EditStep DEF AnswerEdit
<1>6. ASSUME NEW r \in Editors, Fail(r) PROVE AccountInv'
  <2>1. [accountRequest[r] EXCEPT !.pc = "done"] \in EditLocals
        /\ [accountRequest[r] EXCEPT !.pc = "done"].pc = "done"
        /\ [accountRequest[r] EXCEPT !.pc = "done"].cid <= cid
    BY <1>1, AtTyped DEF ReadsCurrent
  <2> QED
    BY <1>1, <1>6, <2>1, EditStep DEF Fail
<1>7. ASSUME NEW m \in {"standard", "authored"}, SetMode(m) PROVE AccountInv'
  BY <1>7 DEF SetMode, AccountTypeOK, WrittenKept, EditsKept, ReadsCurrent
<1>8. CASE UNCHANGED accountVars
  BY <1>8 DEF accountVars, AccountTypeOK, WrittenKept, EditsKept, ReadsCurrent
<1> QED
  BY <1>2, <1>3, <1>4, <1>5, <1>6, <1>7, <1>8 DEF AccountNext

\* The invariant of records that are read, changed and written back.
THEOREM AccountSound == AccountSpec => []AccountInv
BY AccountStarts, AccountStep, PTL DEF AccountSpec

\* updateOwnProfile, setSavedFeed and the layout tools: an accepted edit, and
\* fields the code does not know, stay until a write made without knowledge
\* of what it replaces.
THEOREM AcceptedEditsKept == AccountSpec => []EditsKept
<1>1. AccountInv => EditsKept
  BY DEF AccountInv, WrittenKept, EditsKept
<1> QED
  BY AccountSound, <1>1, PTL

-----------------------------------------------------------------------------
(***************************************************************************)
(* Proofs about MediaDrafts for any number of requests and jobs.  Whether  *)
(* the stored blob is the prepared file rests on what is on its way to it: *)
(* MediaInv says that every blob a request carries, and every blob that a  *)
(* job noted or polled will give, is there and is the whole file unless    *)
(* the client misused the interface.  Jobs keep their blob once started    *)
(* and misuse is never forgotten, so this survives whatever else happens.  *)
(***************************************************************************)

UploadLocals == [pc : {"idle", "image", "video", "store", "note", "poll"},
                 blob : Blobs, job : JobIds]

\* A blob that may become the draft's.
Carried(b) == b # "none" /\ (b = "whole" \/ misused)

\* A job that was started and whose blob may become the draft's.
GoodJob(j) == j # 0 /\ jobs[j].state # "none" /\ Carried(jobs[j].blob)

UploadSound(q) ==
    /\ q.pc \in {"image", "video", "store"} => Carried(q.blob)
    /\ q.pc \in {"note", "poll"} => GoodJob(q.job)

MediaInv ==
    /\ MediaTypeOK
    /\ ready => mediaDraft.blob # "none"
    /\ mediaDraft.blob # "none" => Carried(mediaDraft.blob)
    /\ mediaDraft.job # 0 => GoodJob(mediaDraft.job)
    /\ \A j \in JobIds \ {0} : jobs[j].state # "none" => jobs[j].blob # "none"
    /\ \A r \in Requests : UploadSound(mediaRequest[r])

\* Misuse is never forgotten, and a job that was started keeps its blob.
Remembers ==
    /\ misused => misused'
    /\ \A j \in JobIds \ {0} :
         jobs[j].state # "none" => jobs'[j].state # "none" /\ jobs'[j].blob = jobs[j].blob

LEMMA MediaStarts == MediaInit => MediaInv
<1> SUFFICES ASSUME MediaInit PROVE MediaInv
  OBVIOUS
<1>1. IdleUpload \in UploadLocals /\ UploadSound(IdleUpload)
  BY JobsAssumption DEF IdleUpload, UploadLocals, Blobs, JobIds, UploadSound
<1>2. PICK old \in {"none", "completed"} :
        jobs = [j \in JobIds \ {0} |->
                  IF j = 1 /\ old # "none" THEN [state |-> old, blob |-> "foreign"]
                  ELSE [state |-> "none", blob |-> "none"]]
  BY DEF MediaInit
<1>3. jobs \in [JobIds \ {0} -> [state : {"none", "running", "completed", "failed"}, blob : Blobs]]
      /\ \A j \in JobIds \ {0} : jobs[j].state # "none" => jobs[j].blob # "none"
  BY <1>2 DEF Blobs
<1>4. mediaDraft \in [state : {"none", "live", "expired"}, kind : {"image", "video"},
                      blob : Blobs, job : JobIds]
      /\ mediaDraft.blob = "none" /\ mediaDraft.job = 0
  BY JobsAssumption DEF MediaInit, Blobs, JobIds
<1>5. mediaRequest \in [Requests -> UploadLocals]
      /\ \A r \in Requests : UploadSound(mediaRequest[r])
  BY <1>1 DEF MediaInit
<1> QED
  BY <1>3, <1>4, <1>5 DEF MediaInit, MediaInv, MediaTypeOK, UploadLocals

\* What was sound of a request at rest, a job or a blob stays so.
LEMMA SoundStays ==
    ASSUME MediaInv, Remembers
    PROVE  /\ \A b : Carried(b) => Carried(b)'
           /\ \A j \in JobIds : GoodJob(j) => GoodJob(j)'
           /\ \A q \in UploadLocals : UploadSound(q) => UploadSound(q)'
<1>1. \A b : Carried(b) => Carried(b)'
  BY DEF Carried, Remembers
<1>2. \A j \in JobIds : GoodJob(j) => GoodJob(j)'
  BY DEF GoodJob, Carried, Remembers
<1> QED
  BY <1>1, <1>2 DEF UploadSound, UploadLocals

\* A step of one request.
LEMMA UploadStep ==
    ASSUME MediaInv, Remembers, NEW r \in Requests,
           NEW pc \in {"idle", "image", "video", "store", "note", "poll"},
           NEW b \in Blobs, NEW j \in JobIds, Step(r, pc, b, j),
           pc \in {"image", "video", "store"} => Carried(b)',
           pc \in {"note", "poll"} => GoodJob(j)'
    PROVE  /\ mediaRequest' \in [Requests -> UploadLocals]
           /\ \A q \in Requests : UploadSound(mediaRequest[q])'
<1> DEFINE s == [pc |-> pc, blob |-> b, job |-> j]
<1>1. s \in UploadLocals /\ UploadSound(s)'
  BY DEF UploadLocals, UploadSound
<1>2. mediaRequest \in [Requests -> UploadLocals]
  BY DEF MediaInv, MediaTypeOK, UploadLocals
<1>3. \A q \in Requests : mediaRequest'[q] = IF q = r THEN s ELSE mediaRequest[q]
  BY <1>2 DEF Step
<1>4. mediaRequest' \in [Requests -> UploadLocals]
  BY <1>1, <1>2 DEF Step
<1>5. ASSUME NEW q \in Requests PROVE UploadSound(mediaRequest[q])'
  <2>1. CASE q = r
    BY <1>1, <1>3, <2>1 DEF UploadSound
  <2>2. CASE q # r
    <3>1. mediaRequest[q] \in UploadLocals /\ UploadSound(mediaRequest[q])
      BY <1>2 DEF MediaInv
    <3> QED
      BY <1>3, <2>2, <3>1, SoundStays DEF UploadSound
  <2> QED
    BY <2>1, <2>2
<1> QED
  BY <1>4, <1>5

\* Where no request moves, none loses what was sound of it.
LEMMA UploadsRest ==
    ASSUME MediaInv, Remembers, UNCHANGED mediaRequest
    PROVE  /\ mediaRequest' \in [Requests -> UploadLocals]
           /\ \A q \in Requests : UploadSound(mediaRequest[q])'
<1>1. mediaRequest \in [Requests -> UploadLocals] /\ \A q \in Requests : UploadSound(mediaRequest[q])
  BY DEF MediaInv, MediaTypeOK, UploadLocals
<1> QED
  BY <1>1, SoundStays DEF UploadSound

\* The draft itself stays as it is.
LEMMA DraftRests ==
    ASSUME MediaInv, Remembers, UNCHANGED mediaDraft, UNCHANGED ready,
           misused' \in BOOLEAN,
           jobs' \in [JobIds \ {0} -> [state : {"none", "running", "completed", "failed"},
                                       blob : Blobs]],
           \A j \in JobIds \ {0} : jobs'[j].state # "none" => jobs'[j].blob # "none",
           mediaRequest' \in [Requests -> UploadLocals],
           \A q \in Requests : UploadSound(mediaRequest[q])'
    PROVE  MediaInv'
<1>1. MediaTypeOK'
  BY DEF MediaInv, MediaTypeOK, UploadLocals
<1>2. (mediaDraft.blob # "none" => Carried(mediaDraft.blob))'
  BY SoundStays DEF MediaInv, Carried
<1>3. (mediaDraft.job # 0 => GoodJob(mediaDraft.job))'
  <2>1. mediaDraft.job \in JobIds
    BY DEF MediaInv, MediaTypeOK
  <2> QED
    BY <2>1, SoundStays DEF MediaInv, GoodJob, Carried
<1> QED
  BY <1>1, <1>2, <1>3 DEF MediaInv

LEMMA MediaStep == MediaInv /\ [MediaNext]_mediaVars => MediaInv'
<1> SUFFICES ASSUME MediaInv, [MediaNext]_mediaVars PROVE MediaInv'
  OBVIOUS
<1> DEFINE JobStates == {"none", "running", "completed", "failed"}
           JobTable == [JobIds \ {0} -> [state : JobStates, blob : Blobs]]
<1>0. /\ mediaDraft.blob \in Blobs /\ mediaDraft.job \in JobIds /\ jobs \in JobTable
      /\ misused \in BOOLEAN
      /\ \A r \in Requests : mediaRequest[r] \in UploadLocals /\ UploadSound(mediaRequest[r])
      /\ \A j \in JobIds \ {0} : jobs[j].state # "none" => jobs[j].blob # "none"
      /\ "none" \in Blobs /\ "whole" \in Blobs /\ "part" \in Blobs /\ 0 \in JobIds
  BY JobsAssumption DEF MediaInv, MediaTypeOK, UploadLocals, Blobs, JobIds
<1>stop. ASSUME NEW r \in Requests, Stop(r), UNCHANGED jobs, misused => misused'
         PROVE  /\ mediaRequest' \in [Requests -> UploadLocals]
                /\ \A q \in Requests : UploadSound(mediaRequest[q])'
  <2>1. Remembers
    BY <1>stop DEF Remembers
  <2> QED
    BY <1>0, <1>stop, <2>1, UploadStep DEF Stop
<1>1. ASSUME NEW kind \in {"image", "video"}, PrepareMedia(kind) PROVE MediaInv'
  <2>1. Remembers /\ UNCHANGED <<jobs, misused, ready, mediaRequest>>
    BY <1>1 DEF PrepareMedia, Remembers
  <2>2. mediaDraft' = [mediaDraft EXCEPT !.state = "live", !.kind = kind]
    BY <1>1 DEF PrepareMedia
  <2>3. MediaTypeOK' /\ mediaDraft'.blob = mediaDraft.blob /\ mediaDraft'.job = mediaDraft.job
    BY <2>1, <2>2 DEF MediaInv, MediaTypeOK
  <2> QED
    BY <1>0, <2>1, <2>3, UploadsRest, SoundStays DEF MediaInv, Carried, GoodJob
<1>2. CASE ExpireMedia
  <2>1. Remembers /\ UNCHANGED <<jobs, misused, ready, mediaRequest>>
    BY <1>2 DEF ExpireMedia, Remembers
  <2>2. mediaDraft' = [mediaDraft EXCEPT !.state = "expired"]
    BY <1>2 DEF ExpireMedia
  <2>3. MediaTypeOK' /\ mediaDraft'.blob = mediaDraft.blob /\ mediaDraft'.job = mediaDraft.job
    BY <2>1, <2>2 DEF MediaInv, MediaTypeOK
  <2> QED
    BY <1>0, <2>1, <2>3, UploadsRest, SoundStays DEF MediaInv, Carried, GoodJob
<1>3. ASSUME NEW r \in Requests, UploadImage(r) PROVE MediaInv'
  <2>1. Remembers /\ Step(r, "image", "whole", 0) /\ UNCHANGED <<mediaDraft, jobs, ready, misused>>
    BY <1>3 DEF UploadImage, Remembers
  <2>2. Carried("whole")'
    BY DEF Carried
  <2> QED
    BY <1>0, <2>1, <2>2, UploadStep, DraftRests
<1>4. ASSUME NEW r \in Requests, PutImage(r) PROVE MediaInv'
  <2>1. Remembers /\ UNCHANGED <<mediaDraft, jobs, ready, misused>>
    BY <1>4 DEF PutImage, Remembers
  <2>2. PICK b \in Blobs : b = mediaRequest[r].blob
    BY <1>0 DEF UploadLocals
  <2>3. Carried(b)'
    BY <1>0, <1>4, <2>1, <2>2 DEF PutImage, UploadSound, Carried
  <2>4. CASE Step(r, "store", b, 0)
    BY <1>0, <2>1, <2>3, <2>4, UploadStep, DraftRests
  <2>5. CASE Stop(r)
    BY <1>0, <1>stop, <2>1, <2>5, DraftRests
  <2> QED
    BY <1>4, <2>2, <2>4, <2>5 DEF PutImage
<1>5. ASSUME NEW r \in Requests, UploadVideo(r) PROVE MediaInv'
  <2>0. UNCHANGED <<mediaDraft, jobs, ready>> /\ (UNCHANGED misused \/ misused' = TRUE)
    BY <1>5 DEF UploadVideo
  <2>1. Remembers /\ misused' \in BOOLEAN
    BY <1>0, <2>0 DEF Remembers
  <2>2. CASE Step(r, "video", "whole", 0) /\ UNCHANGED misused
    <3>1. Carried("whole")'
      BY DEF Carried
    <3> QED
      BY <1>0, <2>0, <2>1, <2>2, <3>1, UploadStep, DraftRests
  <2>3. CASE Step(r, "video", "part", 0) /\ misused' = TRUE
    <3>1. Carried("part")'
      BY <2>3 DEF Carried
    <3> QED
      BY <1>0, <2>0, <2>1, <2>3, <3>1, UploadStep, DraftRests
  <2> QED
    BY <1>5, <2>2, <2>3 DEF UploadVideo
<1>6. ASSUME NEW r \in Requests, DropChunk(r) PROVE MediaInv'
  <2>1. /\ Remembers /\ UNCHANGED <<mediaDraft, jobs, ready>> /\ misused' \in BOOLEAN
        /\ UNCHANGED mediaRequest
    BY <1>6 DEF DropChunk, Remembers
  <2> QED
    BY <1>0, <2>1, UploadsRest, DraftRests
<1>7. ASSUME NEW r \in Requests, PutVideo(r) PROVE MediaInv'
  <2>1. UNCHANGED <<mediaDraft, ready, misused>>
    BY <1>7 DEF PutVideo
  <2>2. PICK b \in Blobs : b = mediaRequest[r].blob
    BY <1>0 DEF UploadLocals
  <2>3. Carried(b) /\ Carried(b)'
    BY <1>0, <1>7, <2>1, <2>2 DEF PutVideo, UploadSound, Carried
  <2>4. ASSUME NEW j \in JobIds \ {0}, jobs[j].state = "none",
               jobs' = [jobs EXCEPT ![j] = [state |-> "running", blob |-> b]],
               Step(r, "note", "none", j) \/ Step(r, "store", b, 0)
        PROVE  MediaInv'
    <3>1. jobs' \in JobTable /\ jobs'[j] = [state |-> "running", blob |-> b]
          /\ \A i \in JobIds \ {0} : i # j => jobs'[i] = jobs[i]
      BY <1>0, <2>4
    <3>2. Remembers
      BY <2>1, <2>4, <3>1 DEF Remembers
    <3>3. \A i \in JobIds \ {0} : jobs'[i].state # "none" => jobs'[i].blob # "none"
      BY <1>0, <2>3, <3>1 DEF Carried
    <3>4. GoodJob(j)'
      BY <2>3, <3>1 DEF GoodJob, Carried
    <3>5. /\ mediaRequest' \in [Requests -> UploadLocals]
          /\ \A q \in Requests : UploadSound(mediaRequest[q])'
      BY <1>0, <2>3, <2>4, <3>2, <3>4, UploadStep
    <3> QED
      BY <1>0, <2>1, <3>1, <3>2, <3>3, <3>5, DraftRests
  <2>5. CASE (Step(r, "store", b, 0) \/ Stop(r)) /\ UNCHANGED jobs
    <3>1. Remembers
      BY <2>1, <2>5 DEF Remembers
    <3>2. CASE Step(r, "store", b, 0)
      BY <1>0, <2>1, <2>3, <2>5, <3>1, <3>2, UploadStep, DraftRests
    <3>3. CASE Stop(r)
      BY <1>0, <1>stop, <2>1, <2>5, <3>1, <3>3, DraftRests
    <3> QED
      BY <2>5, <3>2, <3>3
  <2> QED
    BY <1>7, <2>2, <2>4, <2>5 DEF PutVideo
<1>8. ASSUME NEW r \in Requests, NoteJob(r) PROVE MediaInv'
  <2>1. Remembers /\ UNCHANGED <<jobs, ready, misused>> /\ Stop(r)
    BY <1>8 DEF NoteJob, Remembers
  <2>2. /\ mediaRequest' \in [Requests -> UploadLocals]
        /\ \A q \in Requests : UploadSound(mediaRequest[q])'
    BY <1>stop, <2>1
  <2>3. PICK j \in JobIds : j = mediaRequest[r].job
    BY <1>0 DEF UploadLocals
  <2>4. GoodJob(j)'
    BY <1>0, <1>8, <2>1, <2>3 DEF NoteJob, UploadSound, GoodJob, Carried
  <2>5. mediaDraft' = [mediaDraft EXCEPT !.job = j]
    BY <1>8, <2>3 DEF NoteJob
  <2>6. MediaTypeOK' /\ mediaDraft'.blob = mediaDraft.blob /\ mediaDraft'.job = j
    BY <2>1, <2>2, <2>5 DEF MediaInv, MediaTypeOK, UploadLocals
  <2> QED
    BY <1>0, <2>1, <2>2, <2>4, <2>6 DEF MediaInv, Carried, GoodJob
<1>9. ASSUME NEW r \in Requests, StoreBlob(r) PROVE MediaInv'
  <2>1. Remembers /\ UNCHANGED <<jobs, misused>> /\ Stop(r) /\ ready' = TRUE
    BY <1>9 DEF StoreBlob, Remembers
  <2>2. /\ mediaRequest' \in [Requests -> UploadLocals]
        /\ \A q \in Requests : UploadSound(mediaRequest[q])'
    BY <1>stop, <2>1
  <2>3. PICK b \in Blobs : b = mediaRequest[r].blob
    BY <1>0 DEF UploadLocals
  <2>4. Carried(b)'
    BY <1>0, <1>9, <2>1, <2>3 DEF StoreBlob, UploadSound, Carried
  <2>5. mediaDraft' = [mediaDraft EXCEPT !.blob = b]
    BY <1>9, <2>3 DEF StoreBlob
  <2>6. MediaTypeOK' /\ mediaDraft'.blob = b /\ mediaDraft'.job = mediaDraft.job
    BY <2>1, <2>2, <2>5 DEF MediaInv, MediaTypeOK, UploadLocals
  <2> QED
    BY <1>0, <2>1, <2>2, <2>4, <2>6 DEF MediaInv, Carried, GoodJob
<1>10. ASSUME NEW r \in Requests, GetJobStatus(r) PROVE MediaInv'
  <2>1. Remembers /\ UNCHANGED <<mediaDraft, jobs, ready, misused>> /\ mediaRequest[r].pc = "poll"
    BY <1>10 DEF GetJobStatus, Remembers
  <2>2. GoodJob(mediaRequest[r].job) /\ mediaRequest[r].job \in JobIds \ {0}
    BY <1>0, <2>1 DEF UploadSound, UploadLocals, GoodJob
  <2>3. PICK b \in Blobs : b = jobs[mediaRequest[r].job].blob
    BY <1>0, <2>2
  <2>4. Carried(b)'
    BY <2>1, <2>2, <2>3 DEF GoodJob, Carried
  <2>5. CASE Step(r, "store", b, 0)
    BY <1>0, <2>1, <2>4, <2>5, UploadStep, DraftRests
  <2>6. CASE Stop(r)
    BY <1>0, <1>stop, <2>1, <2>6, DraftRests
  <2> QED
    BY <1>10, <2>3, <2>5, <2>6 DEF GetJobStatus
<1>11. ASSUME NEW r \in Requests, Die(r) PROVE MediaInv'
  <2>1. Remembers /\ UNCHANGED <<mediaDraft, jobs, ready, misused>> /\ Stop(r)
    BY <1>11 DEF Die, Remembers
  <2> QED
    BY <1>0, <1>stop, <2>1, DraftRests
<1>12. ASSUME NEW r \in Requests, NEW named \in JobIds, CompleteVideo(r, named) PROVE MediaInv'
  <2>1. UNCHANGED <<mediaDraft, jobs>>
    BY <1>12 DEF CompleteVideo
  <2>2. CASE mediaDraft.blob # "none"
    <3>1. ready' = TRUE /\ UNCHANGED <<mediaRequest, misused>>
      BY <1>12, <2>2 DEF CompleteVideo
    <3>2. Remembers
      BY <2>1, <3>1 DEF Remembers
    <3>3. /\ mediaRequest' \in [Requests -> UploadLocals]
          /\ \A q \in Requests : UploadSound(mediaRequest[q])'
      BY <3>1, <3>2, UploadsRest
    <3>4. MediaTypeOK'
      BY <2>1, <3>1 DEF MediaInv, MediaTypeOK
    <3> QED
      BY <2>1, <2>2, <3>1, <3>3, <3>4 DEF MediaInv, Carried, GoodJob
  <2>3. CASE mediaDraft.blob = "none"
    <3>1. PICK j \in JobIds : j = IF named # 0 THEN named ELSE mediaDraft.job
      BY <1>0
    <3>2. /\ j # 0 /\ jobs[j].state # "none" /\ Step(r, "poll", "none", j) /\ UNCHANGED ready
          /\ misused' = (misused \/ (named # 0 /\ jobs[j].blob # "whole"))
      BY <1>12, <2>3, <3>1 DEF CompleteVideo
    <3>3. Remembers /\ misused' \in BOOLEAN
      BY <2>1, <3>2 DEF Remembers
    <3>4. GoodJob(j)'
      <4>1. jobs[j].blob # "none"
        BY <1>0, <3>2
      <4>2. jobs[j].blob = "whole" \/ misused'
        BY <3>1, <3>2 DEF MediaInv, GoodJob, Carried
      <4> QED
        BY <2>1, <3>2, <4>1, <4>2 DEF GoodJob, Carried
    <3>5. /\ mediaRequest' \in [Requests -> UploadLocals]
          /\ \A q \in Requests : UploadSound(mediaRequest[q])'
      BY <1>0, <3>2, <3>3, <3>4, UploadStep
    <3> QED
      BY <1>0, <2>1, <3>2, <3>3, <3>5, DraftRests
  <2> QED
    BY <2>2, <2>3
<1>13. ASSUME NEW j \in JobIds \ {0}, NEW end \in {"completed", "failed"}, JobEnds(j, end)
       PROVE  MediaInv'
  <2>1. /\ UNCHANGED <<mediaDraft, mediaRequest, ready, misused>>
        /\ jobs' = [jobs EXCEPT ![j].state = end] /\ jobs[j].state = "running"
    BY <1>13 DEF JobEnds
  <2>2. jobs' \in JobTable /\ jobs'[j].state = end /\ jobs'[j].blob = jobs[j].blob
        /\ \A i \in JobIds \ {0} : i # j => jobs'[i] = jobs[i]
    BY <1>0, <2>1
  <2>3. Remembers
    BY <2>1, <2>2 DEF Remembers
  <2>4. \A i \in JobIds \ {0} : jobs'[i].state # "none" => jobs'[i].blob # "none"
    BY <1>0, <2>1, <2>2
  <2>5. /\ mediaRequest' \in [Requests -> UploadLocals]
        /\ \A q \in Requests : UploadSound(mediaRequest[q])'
    BY <2>1, <2>3, UploadsRest
  <2> QED
    BY <1>0, <2>1, <2>2, <2>3, <2>4, <2>5, DraftRests
<1>14. CASE UNCHANGED mediaVars
  <2>1. UNCHANGED <<mediaDraft, jobs, mediaRequest, ready, misused>>
    BY <1>14 DEF mediaVars
  <2>2. Remembers
    BY <2>1 DEF Remembers
  <2>3. /\ mediaRequest' \in [Requests -> UploadLocals]
        /\ \A q \in Requests : UploadSound(mediaRequest[q])'
    BY <2>1, <2>2, UploadsRest
  <2> QED
    BY <1>0, <2>1, <2>2, <2>3, DraftRests
<1> QED
  BY <1>1, <1>2, <1>3, <1>4, <1>5, <1>6, <1>7, <1>8, <1>9, <1>10, <1>11, <1>12, <1>13, <1>14
     DEF MediaNext

(***************************************************************************)
(* Every blob under way to the draft is the whole file unless the client   *)
(* cut it into parts or named a job of another upload.                     *)
(***************************************************************************)
THEOREM MediaSound == MediaSpec => []MediaInv
<1>1. MediaInv /\ [MediaNext]_mediaVars => MediaInv'
  BY MediaStep
<1> QED
  BY <1>1, MediaStarts, PTL DEF MediaSpec

(* MediaService.completeVideo and mediaBlobRef: a draft reported "ready"   *)
(* has its blob while it lives, and it is the whole file prepared, unless  *)
(* the client misused the upload.                                          *)
THEOREM ReadyMediaIsWhole == MediaSpec => []ReadyIsWhole
<1>1. MediaInv => ReadyIsWhole
  BY DEF MediaInv, ReadyIsWhole, Attachable, Carried
<1> QED
  BY <1>1, MediaSound, PTL
=============================================================================

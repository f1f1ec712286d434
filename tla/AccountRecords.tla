---------------------------- MODULE AccountRecords ----------------------------
(***************************************************************************)
(* Three things of an account that are read, changed and written back:     *)
(*   "profile"  the PDS record (AtprotoService.updateOwnProfile, also of    *)
(*              the avatar route), written under the CID that was read;     *)
(*   "feeds"    the saved feeds among the AppView preferences               *)
(*              (setSavedFeed, unsetSavedFeed), written unconditionally;    *)
(*   "layout"   the home layout: one upsert on the server                   *)
(*              (HomeSettingsService), but read and written back by         *)
(*              separate calls of the browser's layout tools.               *)
(* They share no state, so a behaviour is about one of them.  An edit is    *)
(* identified with the request that makes it; what an edit sets is held     *)
(* until it is overwritten.                                                 *)
(***************************************************************************)
EXTENDS ServiceConstants

VARIABLES accountKind,       \* what the behaviour is about
          held,       \* the edits that what is stored still shows
          cid,        \* the profile record's CID, 0: no record
          mode,       \* home_settings.mode
          accountRequest,    \* request[r]: edit r
          accepted,   \* edits that were answered with success
          blind       \* a write was made without knowledge of what it replaced

accountVars == <<accountKind, held, cid, mode, accountRequest, accepted, blind>>

AccountKinds == {"profile", "feeds", "layout"}
Edits == Editors \cup {Other}
New == [pc |-> "new", seen |-> {}, cid |-> 0]

AccountTypeOK ==
    /\ accountKind \in AccountKinds
    /\ held \in SUBSET Edits
    /\ cid \in 0..MaxVersion
    /\ mode \in {"standard", "authored"}
    /\ accountRequest \in [Editors -> [pc : {"new", "read", "write", "answer", "done"},
                                 seen : SUBSET Edits, cid : 0..MaxVersion]]
    /\ accepted \in SUBSET Edits
    /\ blind \in BOOLEAN

AccountInit ==
    /\ accountKind \in AccountKinds
    /\ held \in {{}, {Other}}
    /\ cid = IF held = {} THEN 0 ELSE 1
    /\ mode = "standard"
    /\ accountRequest = [r \in Editors |-> New]
    /\ accepted = held
    /\ blind = FALSE

To(r, s) == accountRequest' = [accountRequest EXCEPT ![r] = s]

(* The avatar route first uploads the blob, which changes no record.       *)
BeginEdit(r) ==
    /\ accountRequest[r].pc = "new"
    /\ To(r, [accountRequest[r] EXCEPT !.pc = "read"])
    /\ UNCHANGED <<accountKind, held, cid, mode, accepted, blind>>

(* A profile that cannot be read counts as empty; preferences and layout   *)
(* that cannot be read end the request.                                    *)
Read(r) ==
    /\ accountRequest[r].pc = "read"
    /\ \/ To(r, [pc |-> "write", seen |-> held, cid |-> cid])
       \/ To(r, [New EXCEPT !.pc = IF accountKind = "profile" THEN "write" ELSE "done"])
    /\ UNCHANGED <<accountKind, held, cid, mode, accepted, blind>>

\* Mutant: the CID that was read does not condition the write.
SwapAlways(r) == accountKind = "profile" => TRUE

(* swapRecord is given when a record was read.                             *)
Swap(r) == accountKind = "profile" /\ accountRequest[r].cid # 0 => accountRequest[r].cid = cid

(* blind: a write that, other than a conditional one, may undo edits it    *)
(* did not read.                                                           *)
Write(r) ==
    /\ accountRequest[r].pc = "write"
    /\ cid < MaxVersion
    /\ IF Swap(r)
       THEN /\ held' = accountRequest[r].seen \cup {r}
            /\ cid' = cid + 1
            /\ blind' = (blind \/ (~(held \subseteq accountRequest[r].seen)
                                    /\ (accountKind = "profile" => accountRequest[r].cid = 0)))
            /\ To(r, [accountRequest[r] EXCEPT !.pc = "answer"])
       ELSE /\ To(r, [accountRequest[r] EXCEPT !.pc = "done"])   \* RECORD_CONFLICT
            /\ UNCHANGED <<held, cid, blind>>
    /\ UNCHANGED <<accountKind, mode, accepted>>

AnswerEdit(r) ==
    /\ accountRequest[r].pc = "answer"
    /\ accepted' = accepted \cup {r}
    /\ To(r, [accountRequest[r] EXCEPT !.pc = "done"])
    /\ UNCHANGED <<accountKind, held, cid, mode, blind>>

(* A call fails, before or after it took effect.                           *)
Fail(r) ==
    /\ accountRequest[r].pc \in {"read", "write", "answer"}
    /\ To(r, [accountRequest[r] EXCEPT !.pc = "done"])
    /\ UNCHANGED <<accountKind, held, cid, mode, accepted, blind>>

(* HomeSettingsService.set: the route gives no layout, COALESCE keeps it.  *)
SetMode(m) ==
    /\ accountKind = "layout"
    /\ mode' = m
    /\ UNCHANGED <<accountKind, held, cid, accountRequest, accepted, blind>>

AccountNext ==
    \/ \E r \in Editors : BeginEdit(r) \/ Read(r) \/ Write(r) \/ AnswerEdit(r) \/ Fail(r)
    \/ \E m \in {"standard", "authored"} : SetMode(m)

AccountSpec == AccountInit /\ [][AccountNext]_accountVars

(***************************************************************************)
(* An accepted edit, and fields the code does not know, stay until a blind *)
(* write.  Blind writes of the profile are those of a request that could   *)
(* not read the record; feeds and layouts are only safe from requests that *)
(* do not overlap.                                                         *)
(***************************************************************************)
EditsKept == accepted \subseteq held \/ blind
===============================================================================

---------------------------- MODULE SocialRecords ----------------------------
(***************************************************************************)
(* The record of one actor about one subject, a like or a follow:          *)
(* AtprotoService.reactToPost and GraphService.setFollowState, called by   *)
(* POST /api/reactions and POST /api/graph/follow.  Reposts run the code   *)
(* of likes and blocks that of follows, in other collections; the kinds    *)
(* share no state, so a behaviour is about one of them.                    *)
(*                                                                         *)
(* Both operations look for the actor's record about the subject and then  *)
(* create or delete one, with an await after every step.  A like is noted  *)
(* in the table published_reaction; a follow is only found by listing the  *)
(* 100 newest records.                                                     *)
(***************************************************************************)
EXTENDS ServiceConstants

VARIABLES socialKind,       \* what the behaviour is about
          records,    \* the keys of the actor's records about the subject
          buried,     \* keys that are no longer among the 100 newest
          mapping,    \* published_reaction: the key noted for the like, 0: none
          keysIssued,     \* the newest key
          answer,     \* what the last answered request made of it
          fault,      \* a case the code does not handle has happened
          socialRequest     \* request[r]: a request in flight

socialVars == <<socialKind, records, buried, mapping, keysIssued, answer, fault, socialRequest>>

SocialKinds == {"like", "follow"}
Legacy == 1           \* a like under the deterministic key of earlier versions
Keys == 0..MaxRecords
IdleAction == [pc |-> "idle", on |-> FALSE, found |-> 0]

SocialTypeOK ==
    /\ socialKind \in SocialKinds
    /\ records \in SUBSET (Keys \ {0})
    /\ buried \in SUBSET (Keys \ {0})
    /\ mapping \in Keys
    /\ keysIssued \in Keys
    /\ answer \in BOOLEAN
    /\ fault \in BOOLEAN
    /\ socialRequest \in [Requests -> [pc : {"idle", "map?", "list", "create", "map",
                                       "delete", "unmap", "done"},
                                 on : BOOLEAN, found : Keys]]

SocialInit ==
    /\ socialKind \in SocialKinds
    /\ records \in IF socialKind = "like" THEN {{}, {Legacy}} ELSE {{}}
    /\ answer = (records # {})
    /\ buried = {}
    /\ mapping = 0
    /\ keysIssued = IF socialKind = "like" THEN Legacy ELSE 0
    /\ fault = FALSE
    /\ socialRequest = [r \in Requests |-> IdleAction]

Active == \E r \in Requests : socialRequest[r].pc # "idle"
Go(r, pc, key) ==
    socialRequest' = [socialRequest EXCEPT ![r] =
                        [pc |-> pc, on |-> socialRequest[r].on, found |-> key]]
Blame(why) == fault' = (fault \/ why)

BeginAction(r, on) ==
    /\ socialRequest[r].pc = "idle"
    /\ socialRequest' = [socialRequest EXCEPT ![r] =
           [pc |-> IF socialKind = "like" THEN "map?" ELSE "list", on |-> on, found |-> 0]]
    /\ Blame(Active)
    /\ UNCHANGED <<socialKind, records, buried, mapping, keysIssued, answer>>

(* Where a request goes once it knows the record (0: none).                *)
Decide(r, key) ==
    Go(r, CASE socialRequest[r].on /\ key = 0 -> "create"
            [] ~socialRequest[r].on /\ key # 0 -> "delete"
            [] OTHER -> "done", key)

\* Mutant: a like is looked for in the listing only.
FindMappedByListing(r) ==
    /\ socialRequest[r].pc = "map?"
    /\ Go(r, "list", 0)
    /\ UNCHANGED <<socialKind, records, buried, mapping, keysIssued, answer, fault>>

FindMapped(r) ==
    /\ socialRequest[r].pc = "map?"
    /\ IF mapping # 0 THEN Decide(r, mapping) ELSE Go(r, "list", 0)
    /\ UNCHANGED <<socialKind, records, buried, mapping, keysIssued, answer, fault>>

(* What is listed, and for a like also what the old key names.  That read  *)
(* may fail and is then skipped; a listing that fails refuses a reaction   *)
(* and counts as "none" for a follow.                                      *)
Old == IF socialKind = "like" THEN records \cap {Legacy} ELSE {}

FindListed(r) ==
    /\ socialRequest[r].pc = "list"
    /\ \/ /\ \E key \in Old \cup (records \ buried) : Decide(r, key)
          /\ UNCHANGED fault
       \/ /\ (records \ buried = {}) \/ (socialKind = "follow")
          /\ Decide(r, 0)
          /\ Blame(IF socialKind = "like" THEN Old # {} ELSE records # {})
       \/ /\ socialKind = "like"
          /\ Go(r, "idle", 0)
          /\ UNCHANGED fault
    /\ UNCHANGED <<socialKind, records, buried, mapping, keysIssued, answer>>

Create(r) ==
    /\ socialRequest[r].pc = "create"
    /\ keysIssued < MaxRecords
    /\ keysIssued' = keysIssued + 1
    /\ records' = records \cup {keysIssued + 1}
    /\ Go(r, IF socialKind = "like" THEN "map" ELSE "done", keysIssued + 1)
    /\ UNCHANGED <<socialKind, buried, mapping, answer, fault>>

NoteMapping(r) ==
    /\ socialRequest[r].pc = "map"
    /\ mapping' = socialRequest[r].found
    /\ Go(r, "done", socialRequest[r].found)
    /\ UNCHANGED <<socialKind, records, buried, keysIssued, answer, fault>>

(* Any failure of deleteRecord counts as "not found".                      *)
DeleteRecord(r) ==
    /\ socialRequest[r].pc = "delete"
    /\ \/ records' = records \ {socialRequest[r].found} /\ UNCHANGED fault
       \/ Blame(socialRequest[r].found \in records) /\ UNCHANGED records
    /\ Go(r, IF socialKind = "like" THEN "unmap" ELSE "done", socialRequest[r].found)
    /\ UNCHANGED <<socialKind, buried, mapping, keysIssued, answer>>

DropMapping(r) ==
    /\ socialRequest[r].pc = "unmap"
    /\ mapping' = 0
    /\ Go(r, "done", 0)
    /\ UNCHANGED <<socialKind, records, buried, keysIssued, answer, fault>>

AnswerAction(r) ==
    /\ socialRequest[r].pc = "done"
    /\ answer' = socialRequest[r].on
    /\ Go(r, "idle", 0)
    /\ UNCHANGED <<socialKind, records, buried, mapping, keysIssued, fault>>

(* A call fails or the isolate stops; after a write the client is not told *)
(* what became of its request.                                             *)
StopAction(r) ==
    /\ socialRequest[r].pc # "idle"
    /\ Blame(socialRequest[r].pc \in {"map", "unmap", "done"})
    /\ Go(r, "idle", 0)
    /\ UNCHANGED <<socialKind, records, buried, mapping, keysIssued, answer>>

(* The actor deletes the record with another client.                       *)
DeleteElsewhere ==
    /\ \E key \in records : records' = records \ {key}
    /\ Blame(TRUE)
    /\ UNCHANGED <<socialKind, buried, mapping, keysIssued, answer, socialRequest>>

(* 100 records about other subjects follow.                                *)
Bury ==
    /\ ~(records \subseteq buried)
    /\ buried' = buried \cup records
    /\ UNCHANGED <<socialKind, records, mapping, keysIssued, answer, fault, socialRequest>>

SocialNext ==
    \/ \E r \in Requests :
         \/ \E on \in BOOLEAN : BeginAction(r, on)
         \/ FindMapped(r) \/ FindListed(r) \/ Create(r) \/ NoteMapping(r)
         \/ DeleteRecord(r) \/ DropMapping(r) \/ AnswerAction(r) \/ StopAction(r)
    \/ DeleteElsewhere
    \/ Bury

SocialSpec == SocialInit /\ [][SocialNext]_socialVars

(***************************************************************************)
(* With nothing in flight the actor has one record or none, as the last    *)
(* answer said, unless two requests overlapped, one stopped between a      *)
(* write and its answer, a deletion was refused, another client removed    *)
(* the record, or a follow's listing did not show it.  A like that left    *)
(* the window of the listing is no exception: published_reaction           *)
(* remembers it.                                                           *)
(***************************************************************************)
AnswerIsTruth ==
    ~fault /\ ~Active =>
        /\ answer <=> records # {}
        /\ \A a, b \in records : a = b
==============================================================================

------------------------------ MODULE SiteDraft ------------------------------
(***************************************************************************)
(* Draft editing of a personal site: SiteService.getOrCreateSite, saveFile,*)
(* savePageSchema and deleteFile over the D1 `site' row and the draft/     *)
(* prefix of the R2 bucket.                                                *)
(*                                                                         *)
(* A draft revision is the hash of its file list, so a revision is         *)
(* modelled as the file list itself, a function from paths to contents,    *)
(* and equal file lists are the same revision.  Every awaited call of a    *)
(* request is a step: requests of the same owner (two tabs, an agent and a *)
(* person, a retry of a slow call) interleave at each of them, and a       *)
(* request may stop at any of them.                                        *)
(***************************************************************************)
EXTENDS Naturals, FiniteSets

CONSTANTS
  Editors,    \* requests that can be in flight together
  Paths,      \* file paths of a site
  Index,      \* "index.html"
  Contents,   \* what a file can hold
  Starter,    \* the content of the starter page
  Absent, NoSite,
  MaxFiles,   \* 64 in the code
  Repeats     \* may an edit delete a file, or submit what was submitted before?

ASSUME DraftAssumption ==
  /\ Index \in Paths
  /\ Starter \in Contents
  /\ Absent \notin Contents
  /\ MaxFiles \in Nat \ {0}
  /\ Repeats \in BOOLEAN

FileMap == [Paths -> Contents \cup {Absent}]

ASSUME NoSiteAssumption == NoSite \notin FileMap

VARIABLES
  draft,     \* site.draft_revision, NoSite before the first visit
  stored,    \* <<revision, path>> pairs under draft/{siteId}/
  pc,        \* where each request is
  edit,      \* its path and the new content (Absent: deleteFile)
  base,      \* the draft_revision it read, equal to its expectedRevision
  next,      \* nextRevision
  todo,      \* files its current loop has still to visit
  drafted,   \* history: every revision that was ever the draft
  used       \* history: every content that was ever submitted

requestVars == <<pc, edit, base, next, todo>>
vars == <<draft, stored, requestVars, drafted, used>>

-----------------------------------------------------------------------------
Files(r) == {p \in Paths : r[p] # Absent}

\* validateSiteBundle: index.html is there and there are at most 64 files.
Valid(r) == Index \in Files(r) /\ Cardinality(Files(r)) <= MaxFiles

Seed == [p \in Paths |-> IF p = Index THEN Starter ELSE Absent]

\* What R2 lists under the prefix of revision r.
Listing(r) == [p \in Paths |-> IF <<r, p>> \in stored THEN r[p] ELSE Absent]

Complete(r) == \A p \in Files(r) : <<r, p>> \in stored

Init ==
  /\ draft = NoSite
  /\ stored = {}
  /\ pc = [e \in Editors |-> "idle"]
  /\ edit = [e \in Editors |-> [path |-> Index, content |-> Starter]]
  /\ base = [e \in Editors |-> Seed]
  /\ next = [e \in Editors |-> Seed]
  /\ todo = [e \in Editors |-> {}]
  /\ drafted = {}
  /\ used = {Starter}

Goto(e, label) == pc' = [pc EXCEPT ![e] = label]

\* The request is over, one way or another: its locals are gone.
End(e) ==
  /\ Goto(e, "idle")
  /\ edit' = [edit EXCEPT ![e] = [path |-> Index, content |-> Starter]]
  /\ base' = [base EXCEPT ![e] = Seed]
  /\ next' = [next EXCEPT ![e] = Seed]
  /\ todo' = [todo EXCEPT ![e] = {}]

\* Mutant: the revision of the missing row is used.
StartUnseeded(e, p, c) ==
  /\ pc[e] = "idle"
  /\ c = Absent => p # Index
  /\ ~Repeats => c # Absent /\ c \notin used
  /\ edit' = [edit EXCEPT ![e] = [path |-> p, content |-> c]]
  /\ used' = used \cup {c}
  /\ IF draft = NoSite
     THEN /\ stored' = stored \cup {<<Seed, Index>>}
          /\ base' = [base EXCEPT ![e] = draft]
          /\ Goto(e, "insert")
     ELSE /\ base' = [base EXCEPT ![e] = draft]
          /\ Goto(e, "list")
          /\ UNCHANGED stored
  /\ UNCHANGED <<draft, next, todo, drafted>>

(***************************************************************************)
(* A request arrives and reads the site row.  The first one ever finds no  *)
(* row and uploads the starter page.  (An expectedRevision other than the  *)
(* one just read is answered 409 STALE_REVISION and changes nothing;       *)
(* savePageSchema passes the revision it has just read.)                   *)
(***************************************************************************)
Start(e, p, c) ==
  /\ pc[e] = "idle"
  /\ c = Absent => p # Index
  /\ ~Repeats => c # Absent /\ c \notin used
  /\ edit' = [edit EXCEPT ![e] = [path |-> p, content |-> c]]
  /\ used' = used \cup {c}
  /\ IF draft = NoSite
     THEN /\ stored' = stored \cup {<<Seed, Index>>}
          /\ base' = [base EXCEPT ![e] = Seed]
          /\ Goto(e, "insert")
     ELSE /\ base' = [base EXCEPT ![e] = draft]
          /\ Goto(e, "list")
          /\ UNCHANGED stored
  /\ UNCHANGED <<draft, next, todo, drafted>>

\* INSERT INTO site: it fails, and so does the request, if the row exists.
Insert(e) ==
  /\ pc[e] = "insert"
  /\ \/ /\ draft = NoSite
        /\ draft' = Seed
        /\ drafted' = drafted \cup {Seed}
        /\ Goto(e, "list")
        /\ UNCHANGED <<edit, base, next, todo>>
     \/ draft # NoSite /\ End(e) /\ UNCHANGED <<draft, drafted>>
  /\ UNCHANGED <<stored, used>>

\* Mutant: the new bundle is not validated.
ListUnvalidated(e) ==
  LET old == Listing(base[e])
      new == [old EXCEPT ![edit[e].path] = edit[e].content]
  IN  /\ pc[e] = "list"
      /\ \/ /\ next' = [next EXCEPT ![e] = new]
            /\ todo' = [todo EXCEPT ![e] = Files(old) \ {edit[e].path}]
            /\ Goto(e, "copy")
            /\ UNCHANGED <<edit, base>>
         \/ FALSE /\ End(e)
      /\ UNCHANGED <<draft, stored, drafted, used>>

\* The old files are listed, the edit applied, the new bundle validated.
List(e) ==
  LET old == Listing(base[e])
      new == [old EXCEPT ![edit[e].path] = edit[e].content]
  IN  /\ pc[e] = "list"
      /\ \/ /\ Valid(new)
            /\ next' = [next EXCEPT ![e] = new]
            /\ todo' = [todo EXCEPT ![e] = Files(old) \ {edit[e].path}]
            /\ Goto(e, "copy")
            /\ UNCHANGED <<edit, base>>
         \/ ~Valid(new) /\ End(e)
      /\ UNCHANGED <<draft, stored, drafted, used>>

\* One unchanged file is copied to the new prefix, if it is still there.
Copy(e, p) ==
  /\ pc[e] = "copy"
  /\ p \in todo[e]
  /\ stored' = IF <<base[e], p>> \in stored THEN stored \cup {<<next[e], p>>} ELSE stored
  /\ todo' = [todo EXCEPT ![e] = @ \ {p}]
  /\ UNCHANGED <<draft, pc, edit, base, next, drafted, used>>

\* Mutant: the copies are started but not awaited.
PutUnawaited(e) ==
  /\ pc[e] = "copy"
  /\ stored' = IF edit[e].content = Absent THEN stored
               ELSE stored \cup {<<next[e], edit[e].path>>}
  /\ Goto(e, "cas")
  /\ UNCHANGED <<draft, edit, base, next, todo, drafted, used>>

\* The modified file is written last; a deletion writes nothing.
Put(e) ==
  /\ pc[e] = "copy"
  /\ todo[e] = {}
  /\ stored' = IF edit[e].content = Absent THEN stored
               ELSE stored \cup {<<next[e], edit[e].path>>}
  /\ Goto(e, "cas")
  /\ UNCHANGED <<draft, edit, base, next, todo, drafted, used>>

\* Mutant: the UPDATE forgets AND draft_revision = expectedRevision.
CasUnconditional(e) ==
  /\ pc[e] = "cas"
  /\ \/ /\ draft' = next[e]
        /\ drafted' = drafted \cup {next[e]}
        /\ End(e)
     \/ /\ FALSE
        /\ todo' = [todo EXCEPT ![e] = Files(next[e])]
        /\ Goto(e, "undo")
        /\ UNCHANGED <<draft, edit, base, next, drafted>>
  /\ UNCHANGED <<stored, used>>

\* UPDATE site SET draft_revision ... WHERE draft_revision = expectedRevision.
Cas(e) ==
  /\ pc[e] = "cas"
  /\ \/ /\ draft = base[e]
        /\ draft' = next[e]
        /\ drafted' = drafted \cup {next[e]}
        /\ End(e)
     \/ /\ draft # base[e]
        /\ todo' = [todo EXCEPT ![e] = Files(next[e])]
        /\ Goto(e, "undo")
        /\ UNCHANGED <<draft, edit, base, next, drafted>>
  /\ UNCHANGED <<stored, used>>

\* Mutant: the rollback deletes under the old prefix.
UndoBase(e, p) ==
  /\ pc[e] = "undo"
  /\ p \in todo[e]
  /\ stored' \in {stored, stored \ {<<base[e], p>>}}
  /\ todo' = [todo EXCEPT ![e] = @ \ {p}]
  /\ UNCHANGED <<draft, pc, edit, base, next, drafted, used>>

\* The losing request deletes what it copied, ignoring failed deletes.
Undo(e, p) ==
  /\ pc[e] = "undo"
  /\ p \in todo[e]
  /\ stored' \in {stored, stored \ {<<next[e], p>>}}
  /\ todo' = [todo EXCEPT ![e] = @ \ {p}]
  /\ UNCHANGED <<draft, pc, edit, base, next, drafted, used>>

Undone(e) ==
  /\ pc[e] = "undo"
  /\ todo[e] = {}
  /\ End(e)
  /\ UNCHANGED <<draft, stored, drafted, used>>

\* A call fails or the isolate is stopped: nothing is cleaned up.
Die(e) ==
  /\ pc[e] # "idle"
  /\ End(e)
  /\ UNCHANGED <<draft, stored, drafted, used>>

Request(e) ==
  \/ \E p \in Paths, c \in Contents \cup {Absent} : Start(e, p, c)
  \/ Insert(e) \/ List(e) \/ Put(e) \/ Cas(e) \/ Undone(e) \/ Die(e)
  \/ \E p \in Paths : Copy(e, p) \/ Undo(e, p)

Next == \E e \in Editors : Request(e)

Spec == Init /\ [][Next]_vars

-----------------------------------------------------------------------------
(* Properties.                                                             *)

TypeOK ==
  /\ draft \in FileMap \cup {NoSite}
  /\ stored \subseteq FileMap \X Paths
  /\ pc \in [Editors -> {"idle", "insert", "list", "copy", "cas", "undo"}]
  /\ edit \in [Editors -> [path : Paths, content : Contents \cup {Absent}]]
  /\ base \in [Editors -> FileMap] /\ next \in [Editors -> FileMap]
  /\ todo \in [Editors -> SUBSET Paths]
  /\ drafted \subseteq FileMap
  /\ used \subseteq Contents \cup {Absent}

(***************************************************************************)
(* A revision that was once handed out as the draft keeps all its files:   *)
(* readers, previews and publications that learned it earlier still find   *)
(* every one of them, whatever requests lose the race, roll back or stop   *)
(* half-way (SiteService.ts:235-261).                                      *)
(***************************************************************************)
AcceptedKept == \A r \in drafted : Complete(r)

(***************************************************************************)
(* An accepted edit changes the file it was asked to change and loses none *)
(* of the others, although it rebuilds the draft from a listing taken      *)
(* while other requests write and delete (SiteService.ts:229-253).         *)
(***************************************************************************)
OneFileAtATime ==
  [][draft # NoSite /\ draft' # draft =>
       \E p \in Paths : \A q \in Paths \ {p} : draft'[q] = draft[q]]_vars

(***************************************************************************)
(* The revision a save answered with is there to be read: the Studio shows *)
(* it (codex-acceptance-checklist.md:50-51, SiteService.ts:251-263).       *)
(***************************************************************************)
SavedDraftShown == draft # NoSite => Complete(draft)

\* The draft always has a page to show and stays within the file limit.
DraftValid == draft # NoSite => Valid(draft)

(***************************************************************************)
(* Why rollback is harmless when no two edits produce the same revision:   *)
(* a request that has not been accepted owns a content nobody else has     *)
(* submitted, so no accepted revision can be the one it deletes.           *)
(***************************************************************************)
Pending(e) == pc[e] # "idle"

PendingFresh ==
  \A e \in Editors : Pending(e) =>
    /\ edit[e].content \in used \cap Contents
    /\ \A r \in drafted \cup {Seed} : r[edit[e].path] # edit[e].content
    /\ \A f \in Editors \ {e} : Pending(f) => edit[f].content # edit[e].content

TargetsOwn ==
  \A e \in Editors :
    /\ pc[e] = "insert" => base[e] = Seed /\ <<Seed, Index>> \in stored
    /\ pc[e] \in {"list", "copy", "cas", "undo"} => base[e] \in drafted
    /\ pc[e] \in {"copy", "cas", "undo"} =>
         next[e] = [base[e] EXCEPT ![edit[e].path] = edit[e].content]

\* What a request has still to store before it asks for its acceptance.
Missing(e) ==
  CASE pc[e] = "copy" -> todo[e] \cup {edit[e].path}
    [] pc[e] = "cas" -> {}
    [] OTHER -> Paths

CopiesKept ==
  \A e \in Editors : \A q \in Files(next[e]) \ Missing(e) : <<next[e], q>> \in stored

DraftInv ==
  /\ TypeOK /\ AcceptedKept /\ PendingFresh /\ TargetsOwn /\ CopiesKept
  /\ Starter \in used
  /\ draft # NoSite => draft \in drafted
  /\ \A r \in drafted : \A p \in Paths : r[p] \in used \cup {Absent}
=============================================================================

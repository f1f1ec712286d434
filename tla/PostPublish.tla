----------------------------- MODULE PostPublish -----------------------------
(***************************************************************************)
(* Two-phase publishing of one author's posts: AtprotoService.preparePost, *)
(* publishPreparedPost, finalizePublishedPost and deleteOwnPost over the   *)
(* post_draft, published_post and optimistic_post tables of D1 and the     *)
(* author's repository on a PDS.  One action per awaited call: tabs, the   *)
(* agent's tools and retries of unanswered calls interleave at each.       *)
(*                                                                         *)
(* A draft revision hashes the draft id with everything the author wrote,  *)
(* so it is modelled as the pair of them.                                  *)
(***************************************************************************)
EXTENDS Naturals, FiniteSets

CONSTANTS
  Clients,    \* requests that can be in flight together
  Contents,   \* text, destination, reply, quote, languages and media of a draft
  None,
  Lossy,      \* may calls fail, answers get lost and isolates stop?
  Legacy,     \* may the draft be one the first deployments published?
  MaxDrafts, MaxPosts   \* bounds of the exploration only

ASSUME PostAssumption ==
  /\ None \notin Contents /\ None \notin Nat
  /\ {Lossy, Legacy} \subseteq BOOLEAN
  /\ MaxDrafts \in Nat \ {0} /\ MaxPosts \in Nat

Revision == (1..MaxDrafts) \X Contents
ContentOf(r) == r[2]

Drafts == [id : 1..MaxDrafts, rev : Revision]

ASSUME NoDraftAssumption == None \notin Drafts

VARIABLES
  row,        \* the author's post_draft row: draft_id and revision, or None
  issued,     \* draft ids (random UUIDs) drawn so far
  prepared,   \* history: revisions that preparePost answered with
  published,  \* published_post: revision -> uri, or None
  shown,      \* optimistic_post (read for 15 minutes): revision -> uri and text, or None
  posts,      \* records in the repository: revision, uri and text
  made,       \* history: records ever created there
  created,    \* record keys (TIDs) the PDS has assigned so far
  req         \* each request: where it is, and its locals

vars == <<row, issued, prepared, published, shown, posts, made, created, req>>

-----------------------------------------------------------------------------
Post(r, u, text) == [rev |-> r, uri |-> u, text |-> text]

\* The key the first deployments derived from the revision.
LegacyKey == 0

Rest == [pc |-> "idle", rev |-> None, uri |-> None, text |-> None]

Init ==
  /\ published = [r \in Revision |-> None]
  /\ shown = [r \in Revision |-> None]
  /\ created = 0
  /\ req = [p \in Clients |-> Rest]
  /\ \/ /\ row = None
        /\ issued = 0 /\ prepared = {} /\ posts = {}
     \/ /\ Legacy
        /\ \E c \in Contents :
             /\ prepared = {<<1, c>>}
             /\ posts = {Post(<<1, c>>, LegacyKey, c)}
             /\ row \in {None, [id |-> 1, rev |-> <<1, c>>]}
        /\ issued = 1
  /\ made = posts

\* The draft row holds revision r.
Drafted(r) == row # None /\ row.rev = r

At(p, label) == req[p].pc = label
Goto(p, label) == req' = [req EXCEPT ![p].pc = label]
End(p) == req' = [req EXCEPT ![p] = Rest]

\* Mutant: an id is drawn although the row has one.
PrepareDrawsAlways(p, c) ==
  /\ At(p, "idle")
  /\ LET id == IF row = None THEN issued + 1 ELSE row.id
     IN  /\ id <= MaxDrafts
         /\ issued' = issued + 1
         /\ req' = [req EXCEPT ![p] = [Rest EXCEPT !.pc = "upsert", !.rev = <<id, c>>]]
  /\ UNCHANGED <<row, prepared, published, shown, posts, made, created>>

(***************************************************************************)
(* preparePost reads the draft row: the new revision keeps its draft id,   *)
(* or draws one.  (An expectedRevision other than the row's revision, or   *)
(* null where there is a row, is answered 409 and changes nothing.)        *)
(***************************************************************************)
Prepare(p, c) ==
  /\ At(p, "idle")
  /\ LET id == IF row = None THEN issued + 1 ELSE row.id
     IN  /\ id <= MaxDrafts
         /\ issued' = IF row = None THEN id ELSE issued
         /\ req' = [req EXCEPT ![p] = [Rest EXCEPT !.pc = "upsert", !.rev = <<id, c>>]]
  /\ UNCHANGED <<row, prepared, published, shown, posts, made, created>>

\* The upsert is unconditional, and a row found there keeps its draft id.
Upsert(p) ==
  /\ At(p, "upsert")
  /\ row' = [id |-> IF row = None THEN req[p].rev[1] ELSE row.id, rev |-> req[p].rev]
  /\ prepared' = prepared \cup {req[p].rev}
  /\ End(p)
  /\ UNCHANGED <<issued, published, shown, posts, made, created>>

\* publishPreparedPost looks the revision up in the durable mapping.
Publish(p, r) ==
  /\ At(p, "idle")
  /\ r \in prepared
  /\ req' = [req EXCEPT ![p] = [Rest EXCEPT !.rev = r, !.uri = published[r],
               !.pc = IF published[r] = None THEN "legacy" ELSE "again"]]
  /\ UNCHANGED <<row, issued, prepared, published, shown, posts, made, created>>

\* A published revision: its record is read for its text, "" if that fails.
Reread(p) ==
  /\ At(p, "again")
  /\ \E text \in {post.text : post \in {q \in posts : q.uri = req[p].uri}} \cup {None} :
       /\ text = None => Lossy \/ \A post \in posts : post.uri # req[p].uri
       /\ req' = [req EXCEPT ![p].pc = "finalize", ![p].text = text]
  /\ UNCHANGED <<row, issued, prepared, published, shown, posts, made, created>>

\* Mutant: the legacy record is adopted without having been found.
AdoptUnseen(p) ==
  /\ At(p, "legacy")
  /\ \/ req' = [req EXCEPT ![p] = [@ EXCEPT !.pc = "adopt", !.uri = LegacyKey]]
     \/ Goto(p, "load")
  /\ UNCHANGED <<row, issued, prepared, published, shown, posts, made, created>>

\* A record under the key the first deployments used is adopted.
Adopt(p) ==
  /\ At(p, "legacy")
  /\ \/ \E post \in posts :
          /\ post.rev = req[p].rev /\ post.uri = LegacyKey
          /\ req' = [req EXCEPT ![p] = [@ EXCEPT !.pc = "adopt", !.uri = LegacyKey, !.text = post.text]]
     \/ /\ Post(req[p].rev, LegacyKey, ContentOf(req[p].rev)) \notin posts
        /\ Goto(p, "load")
  /\ UNCHANGED <<row, issued, prepared, published, shown, posts, made, created>>

\* Mutant: the draft is selected by its author alone.
LoadAny(p) ==
  /\ At(p, "load")
  /\ IF row # None
     THEN req' = [req EXCEPT ![p].pc = "create", ![p].text = ContentOf(row.rev)]
     ELSE End(p)
  /\ UNCHANGED <<row, issued, prepared, published, shown, posts, made, created>>

\* The draft row must still hold this revision: STALE_REVISION otherwise.
Load(p) ==
  /\ At(p, "load")
  /\ IF Drafted(req[p].rev)
     THEN req' = [req EXCEPT ![p].pc = "create", ![p].text = ContentOf(row.rev)]
     ELSE End(p)
  /\ UNCHANGED <<row, issued, prepared, published, shown, posts, made, created>>

(***************************************************************************)
(* Facets, the replied-to post and the media are resolved (where they fail *)
(* the request does, see Fail), and the record is created.  Its answer may *)
(* be lost.                                                                *)
(***************************************************************************)
Create(p) ==
  LET post == Post(req[p].rev, created + 1, req[p].text)
  IN  /\ At(p, "create")
      /\ created < MaxPosts
      /\ created' = created + 1
      /\ posts' = posts \cup {post} /\ made' = made \cup {post}
      /\ \/ req' = [req EXCEPT ![p].pc = "finalize", ![p].uri = post.uri]
         \/ Lossy /\ End(p)
      /\ UNCHANGED <<row, issued, prepared, published, shown>>

\* Mutant: whatever the draft is by now, it is deleted.
FinalizeDropsAny(p) ==
  /\ req[p].pc \in {"finalize", "adopt"}
  /\ row' = None
  /\ published' = [published EXCEPT ![req[p].rev] = req[p].uri]
  /\ shown' = [shown EXCEPT ![req[p].rev] = [uri |-> req[p].uri, text |-> req[p].text]]
  /\ End(p)
  /\ UNCHANGED <<issued, prepared, posts, made, created>>

(***************************************************************************)
(* One D1 batch: the draft goes if it still is this revision, the mapping  *)
(* and the optimistic row of the revision are written.  (It also drops the *)
(* cached town feed.)                                                      *)
(***************************************************************************)
Finalize(p) ==
  /\ req[p].pc \in {"finalize", "adopt"}
  /\ row' = IF Drafted(req[p].rev) THEN None ELSE row
  /\ published' = [published EXCEPT ![req[p].rev] = req[p].uri]
  /\ shown' = [shown EXCEPT ![req[p].rev] = [uri |-> req[p].uri, text |-> req[p].text]]
  /\ End(p)
  /\ UNCHANGED <<issued, prepared, posts, made, created>>

(***************************************************************************)
(* A call fails or the isolate stops.  While a legacy record is looked up  *)
(* or adopted, any failure counts as `not published under the legacy key'. *)
(***************************************************************************)
Fail(p) ==
  /\ Lossy
  /\ ~At(p, "idle")
  /\ End(p) \/ (req[p].pc \in {"legacy", "adopt"} /\ Goto(p, "load"))
  /\ UNCHANGED <<row, issued, prepared, published, shown, posts, made, created>>

\* deleteOwnPost removes the record, and neither the mapping nor the optimistic row.
Delete(post) ==
  /\ posts' = posts \ {post}
  /\ UNCHANGED <<row, issued, prepared, published, shown, made, created, req>>

Request(p) ==
  \/ \E c \in Contents : Prepare(p, c)
  \/ \E r \in Revision : Publish(p, r)
  \/ Upsert(p) \/ Reread(p) \/ Adopt(p) \/ Load(p) \/ Create(p) \/ Finalize(p) \/ Fail(p)

Next ==
  \/ \E p \in Clients : Request(p)
  \/ \E post \in posts : Delete(post)

Spec == Init /\ [][Next]_vars

-----------------------------------------------------------------------------
(* Properties.                                                             *)

Uri == 0..MaxPosts
PostRecord == [rev : Revision, uri : Uri, text : Contents]

TypeOK ==
  /\ row \in Drafts \cup {None}
  /\ issued \in 0..MaxDrafts /\ created \in 0..MaxPosts
  /\ prepared \subseteq Revision
  /\ published \in [Revision -> Uri \cup {None}]
  /\ shown \in [Revision -> [uri : Uri, text : Contents \cup {None}] \cup {None}]
  /\ posts \subseteq made /\ made \subseteq PostRecord
  /\ req \in [Clients ->
       [pc : {"idle", "upsert", "again", "legacy", "adopt", "load", "create", "finalize"},
        rev : Revision \cup {None}, uri : Uri \cup {None}, text : Contents \cup {None}]]

(***************************************************************************)
(* Whoever publishes a revision, now or again, is answered with a record   *)
(* that holds what the author prepared as that revision, although drafts   *)
(* are replaced and other revisions published meanwhile                    *)
(* (AtprotoService.ts:442-449, 522-542).                                   *)
(***************************************************************************)
MappingSound ==
  \A r \in Revision : published[r] # None => Post(r, published[r], ContentOf(r)) \in made

(***************************************************************************)
(* A draft that was not published stays until another one replaces it: a   *)
(* publication of an older revision, slow or repeated, never takes it away *)
(* (AtprotoService.ts:220).                                                *)
(***************************************************************************)
DraftDropped == [][row # None /\ row' = None => published'[row.rev] # None]_vars

(***************************************************************************)
(* What makes the mapping sound: each request carries the record it is     *)
(* going to answer with, and what it is going to create is the text of the *)
(* revision it was asked for, although the draft row was read many calls   *)
(* ago (AtprotoService.ts:406-442).                                        *)
(***************************************************************************)
RequestsSound ==
  \A p \in Clients :
    LET q == req[p]
    IN  /\ q.pc # "idle" => q.rev \in Revision
        /\ q.pc = "create" => q.text = ContentOf(q.rev)
        /\ q.pc \in {"again", "finalize", "adopt"} =>
             q.uri # None /\ Post(q.rev, q.uri, ContentOf(q.rev)) \in made

PostInv ==
  /\ TypeOK /\ MappingSound /\ RequestsSound
  /\ \A post \in made : post.text = ContentOf(post.rev)

(***************************************************************************)
(* A revision is one record of the repository, however often it is         *)
(* published (codex-acceptance-checklist.md:42-44).                        *)
(***************************************************************************)
OneRecord ==
  \A r \in Revision : Cardinality({post \in posts : post.rev = r}) <= 1
=============================================================================

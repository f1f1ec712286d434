-------------------------- MODULE PostPublishProofs --------------------------
(***************************************************************************)
(* Proofs about PostPublish for every number of requests, contents, draft  *)
(* ids and records, with or without losses and a legacy record.            *)
(*                                                                         *)
(* The argument: PostInv follows a revision through its request.  A text   *)
(* is only loaded while the draft row holds the revision, so the record    *)
(* created or found for it carries that revision's content; the mapping is *)
(* written from nothing else.                                              *)
(***************************************************************************)
EXTENDS PostPublish, FiniteSetTheorems, TLAPS

-----------------------------------------------------------------------------
\* What a request's record may hold.
Local == [pc : {"idle", "upsert", "again", "legacy", "adopt", "load", "create", "finalize"},
          rev : Revision \cup {None}, uri : Uri \cup {None}, text : Contents \cup {None}]

LEMMA RestTyped == Rest \in Local /\ Rest.pc = "idle"
BY DEF Rest, Local

\* A record is its three fields.
LEMMA PostFields ==
  /\ \A r \in Revision, u \in Uri, t \in Contents : Post(r, u, t) \in PostRecord
  /\ \A post \in PostRecord : post = Post(post.rev, post.uri, post.text)
  /\ \A r, u, t : Post(r, u, t).rev = r /\ Post(r, u, t).uri = u /\ Post(r, u, t).text = t
BY DEF Post, PostRecord

\* The text of a revision is one the author wrote.
LEMMA RevisionFields ==
  ASSUME NEW r \in Revision
  PROVE  r[1] \in 1..MaxDrafts /\ ContentOf(r) \in Contents
BY DEF Revision, ContentOf

-----------------------------------------------------------------------------
LEMMA PostInvInit == Init => PostInv
<1> SUFFICES ASSUME Init PROVE PostInv
  OBVIOUS
<1> USE PostAssumption, RestTyped, PostFields DEF Init
<1>1. RequestsSound /\ MappingSound
  BY DEF RequestsSound, MappingSound
<1>2. CASE row = None /\ issued = 0 /\ prepared = {} /\ posts = {}
  BY <1>1, <1>2 DEF PostInv, TypeOK, Uri, Local, Drafts
<1>3. ASSUME NEW c \in Contents, issued = 1, prepared = {<<1, c>>},
             posts = {Post(<<1, c>>, LegacyKey, c)},
             row \in {None, [id |-> 1, rev |-> <<1, c>>]}
      PROVE  PostInv
  <2>1. <<1, c>> \in Revision /\ ContentOf(<<1, c>>) = c /\ 1 \in 1..MaxDrafts
    BY DEF Revision, ContentOf
  <2>2. LegacyKey \in Uri /\ 0 \in 0..MaxPosts
    BY DEF LegacyKey, Uri
  <2>3. posts \subseteq PostRecord /\ \A post \in posts : post.text = ContentOf(post.rev)
    BY <1>3, <2>1, <2>2
  <2>4. TypeOK
    BY <1>3, <2>1, <2>2, <2>3 DEF TypeOK, Local, Drafts
  <2> QED
    BY <1>1, <2>3, <2>4 DEF PostInv
<1> QED
  BY <1>2, <1>3

-----------------------------------------------------------------------------
\* A step of one request that leaves the repository and the mapping alone
\* keeps the invariant if the request's new locals satisfy it.
LEMMA LocalStep ==
  ASSUME PostInv, NEW p \in Clients, NEW q \in Local, req' = [req EXCEPT ![p] = q],
         UNCHANGED <<row, prepared, published, shown, posts, made, created>>,
         issued' \in 0..MaxDrafts,
         q.pc # "idle" => q.rev \in Revision,
         q.pc = "create" => q.text = ContentOf(q.rev),
         q.pc \in {"again", "finalize", "adopt"} =>
           q.uri # None /\ Post(q.rev, q.uri, ContentOf(q.rev)) \in made
  PROVE  PostInv'
<1> USE DEF PostInv
<1>1. req \in [Clients -> Local]
  BY DEF TypeOK, Local
<1>2. req' \in [Clients -> Local] /\ \A o \in Clients : req'[o] = IF o = p THEN q ELSE req[o]
  BY <1>1
<1>3. TypeOK'
  BY <1>2 DEF TypeOK, Local, PostRecord, Uri
<1>4. RequestsSound'
  BY <1>2 DEF RequestsSound
<1> QED
  BY <1>3, <1>4 DEF MappingSound

LEMMA PrepareKeeps ==
  ASSUME PostInv, NEW p \in Clients, NEW c \in Contents, Prepare(p, c)
  PROVE  PostInv'
<1> DEFINE id == IF row = None THEN issued + 1 ELSE row.id
           q == [Rest EXCEPT !.pc = "upsert", !.rev = <<id, c>>]
<1>1. id \in 1..MaxDrafts /\ issued' \in 0..MaxDrafts
  BY PostAssumption DEF Prepare, PostInv, TypeOK, Drafts
<1>2. q \in Local /\ q.pc = "upsert" /\ q.rev \in Revision
  BY <1>1 DEF Rest, Local, Revision
<1> QED
  BY <1>1, <1>2, LocalStep DEF Prepare

LEMMA PublishKeeps ==
  ASSUME PostInv, NEW p \in Clients, NEW r \in Revision, Publish(p, r)
  PROVE  PostInv'
<1> DEFINE q == [Rest EXCEPT !.rev = r, !.uri = published[r],
                   !.pc = IF published[r] = None THEN "legacy" ELSE "again"]
<1>1. published[r] \in Uri \cup {None}
  BY DEF PostInv, TypeOK
<1>2. q \in Local /\ q.rev = r /\ q.uri = published[r]
      /\ q.pc = IF published[r] = None THEN "legacy" ELSE "again"
  BY <1>1 DEF Rest, Local
<1>3. published[r] # None => Post(r, published[r], ContentOf(r)) \in made
  BY DEF PostInv, MappingSound
<1>4. issued' \in 0..MaxDrafts
  BY DEF Publish, PostInv, TypeOK
<1>5. q.pc # "idle" => q.rev \in Revision
  BY <1>2
<1>6. q.pc \in {"again", "finalize", "adopt"} =>
        q.uri # None /\ Post(q.rev, q.uri, ContentOf(q.rev)) \in made
  BY <1>2, <1>3
<1>7. q.pc # "create"
  BY <1>2
<1>8. req' = [req EXCEPT ![p] = q]
      /\ UNCHANGED <<row, prepared, published, shown, posts, made, created>>
  BY DEF Publish
<1> HIDE DEF q
<1> QED
  BY <1>2, <1>4, <1>5, <1>6, <1>7, <1>8, LocalStep

LEMMA LookupKeeps ==
  ASSUME PostInv, NEW p \in Clients, Reread(p) \/ Adopt(p) \/ Load(p) \/ Fail(p)
  PROVE  PostInv'
<1>1. req[p] \in Local /\ req \in [Clients -> Local] /\ issued \in 0..MaxDrafts
      /\ posts \subseteq made /\ made \subseteq PostRecord
  BY DEF PostInv, TypeOK, Local
<1>2. /\ req[p].pc # "idle" => req[p].rev \in Revision
      /\ req[p].pc \in {"again", "finalize", "adopt"} =>
           req[p].uri # None /\ Post(req[p].rev, req[p].uri, ContentOf(req[p].rev)) \in made
  BY DEF PostInv, RequestsSound
<1>3. ASSUME NEW label \in {"load"}, req[p].pc # "idle", req' = [req EXCEPT ![p].pc = label],
             UNCHANGED <<row, issued, prepared, published, shown, posts, made, created>>
      PROVE  PostInv'
  <2> DEFINE q == [req[p] EXCEPT !.pc = label]
  <2>1. q \in Local /\ q.pc = "load" /\ q.rev = req[p].rev
    BY <1>1, <1>3 DEF Local
  <2>2. req' = [req EXCEPT ![p] = q]
    BY <1>3
  <2> QED
    BY <1>1, <1>2, <1>3, <2>1, <2>2, LocalStep
<1>4. ASSUME req' = [req EXCEPT ![p] = Rest],
             UNCHANGED <<row, issued, prepared, published, shown, posts, made, created>>
      PROVE  PostInv'
  BY <1>1, <1>4, RestTyped, LocalStep
<1>5. CASE Reread(p)
  <2> PICK text \in {post.text : post \in {o \in posts : o.uri = req[p].uri}} \cup {None} :
        req' = [req EXCEPT ![p].pc = "finalize", ![p].text = text]
    BY <1>5 DEF Reread
  <2> DEFINE q == [req[p] EXCEPT !.pc = "finalize", !.text = text]
  <2>1. text \in Contents \cup {None}
    BY <1>1 DEF PostRecord
  <2>2. q \in Local /\ q.pc = "finalize" /\ q.rev = req[p].rev /\ q.uri = req[p].uri
    BY <1>1, <2>1 DEF Local
  <2>3. req' = [req EXCEPT ![p] = q]
    OBVIOUS
  <2> QED
    BY <1>1, <1>2, <1>5, <2>2, <2>3, LocalStep DEF Reread, At
<1>6. CASE Adopt(p)
  <2>1. ASSUME NEW post \in posts, post.rev = req[p].rev, post.uri = LegacyKey,
               req' = [req EXCEPT ![p] = [@ EXCEPT !.pc = "adopt", !.uri = LegacyKey, !.text = post.text]]
        PROVE  PostInv'
    <3> DEFINE q == [req[p] EXCEPT !.pc = "adopt", !.uri = LegacyKey, !.text = post.text]
    <3>1. post \in PostRecord /\ post.text = ContentOf(post.rev)
      BY <1>1 DEF PostInv
    <3>2. post = Post(req[p].rev, LegacyKey, ContentOf(req[p].rev))
      BY <2>1, <3>1, PostFields
    <3>3. LegacyKey \in Uri /\ LegacyKey # None /\ post.text \in Contents
      BY <3>1, PostAssumption DEF LegacyKey, Uri, PostRecord
    <3>4. q \in Local /\ q.pc = "adopt" /\ q.rev = req[p].rev /\ q.uri = LegacyKey
      BY <1>1, <3>3 DEF Local
    <3>5. req' = [req EXCEPT ![p] = q]
      BY <2>1
    <3> QED
      BY <1>1, <1>2, <1>6, <3>2, <3>3, <3>4, <3>5, LocalStep DEF Adopt, At
  <2> QED
    BY <1>3, <1>6, <2>1 DEF Adopt, At, Goto
<1>7. CASE Load(p)
  <2>1. CASE Drafted(req[p].rev)
    <3> DEFINE q == [req[p] EXCEPT !.pc = "create", !.text = ContentOf(row.rev)]
    <3>1. row.rev = req[p].rev /\ req[p].rev \in Revision
      BY <1>2, <1>7, <2>1 DEF Drafted, Load, At
    <3>2. ContentOf(row.rev) \in Contents
      BY <3>1, RevisionFields
    <3>3. q \in Local /\ q.pc = "create" /\ q.rev = req[p].rev /\ q.text = ContentOf(req[p].rev)
      BY <1>1, <3>1, <3>2 DEF Local
    <3>4. req' = [req EXCEPT ![p] = q]
      BY <1>7, <2>1 DEF Load
    <3> QED
      BY <1>1, <1>7, <3>1, <3>3, <3>4, LocalStep DEF Load
  <2> QED
    BY <1>4, <1>7, <2>1 DEF Load, End
<1>8. CASE Fail(p)
  BY <1>3, <1>4, <1>8 DEF Fail, At, End, Goto
<1> QED
  BY <1>5, <1>6, <1>7, <1>8

LEMMA UpsertKeeps ==
  ASSUME PostInv, NEW p \in Clients, Upsert(p)
  PROVE  PostInv'
<1> USE DEF PostInv
<1>1. req[p].rev \in Revision /\ req \in [Clients -> Local]
  BY DEF Upsert, At, RequestsSound, TypeOK, Local
<1>2. req' \in [Clients -> Local] /\ \A o \in Clients : req'[o] = IF o = p THEN Rest ELSE req[o]
  BY <1>1, RestTyped DEF Upsert, End
<1>3. row' \in Drafts /\ prepared' \subseteq Revision
  BY <1>1, RevisionFields DEF Upsert, TypeOK, Drafts
<1>4. TypeOK'
  BY <1>2, <1>3 DEF Upsert, TypeOK, Local, PostRecord, Uri
<1>5. RequestsSound'
  BY <1>2, RestTyped DEF Upsert, RequestsSound
<1> QED
  BY <1>4, <1>5 DEF Upsert, MappingSound

LEMMA CreateKeeps ==
  ASSUME PostInv, NEW p \in Clients, Create(p)
  PROVE  PostInv'
<1> USE DEF PostInv
<1> DEFINE post == Post(req[p].rev, created + 1, req[p].text)
           done == [req[p] EXCEPT !.pc = "finalize", !.uri = created + 1]
<1>1. /\ req \in [Clients -> Local] /\ req[p] \in Local
      /\ req[p].rev \in Revision /\ req[p].text = ContentOf(req[p].rev)
  BY DEF Create, At, RequestsSound, TypeOK, Local
<1>2. created' = created + 1 /\ created' \in 0..MaxPosts
      /\ created + 1 \in Uri /\ created + 1 # None
  BY PostAssumption DEF Create, TypeOK, Uri
<1>3. post \in PostRecord /\ post.rev = req[p].rev /\ post.text = ContentOf(post.rev)
      /\ post.uri = created + 1
  BY <1>1, <1>2, PostFields, RevisionFields
<1>4. done \in Local /\ done.pc = "finalize" /\ done.rev = req[p].rev /\ done.uri = created + 1
  BY <1>1, <1>2 DEF Local
<1>5. PICK q \in {done, Rest} : req' = [req EXCEPT ![p] = q]
  <2>1. req' = [req EXCEPT ![p].pc = "finalize", ![p].uri = created + 1] \/ req' = [req EXCEPT ![p] = Rest]
    BY <1>3 DEF Create, End
  <2> QED
    BY <2>1
<1>6. req' \in [Clients -> Local] /\ \A o \in Clients : req'[o] = IF o = p THEN q ELSE req[o]
  BY <1>1, <1>4, <1>5, RestTyped
<1>7. made' = made \cup {post} /\ posts' = posts \cup {post}
      /\ UNCHANGED <<row, issued, prepared, published, shown>>
  BY DEF Create
<1>8. TypeOK'
  BY <1>2, <1>3, <1>6, <1>7 DEF TypeOK, Local
<1>9. RequestsSound'
  BY <1>1, <1>2, <1>4, <1>5, <1>6, <1>7, RestTyped DEF RequestsSound
<1> QED
  BY <1>3, <1>7, <1>8, <1>9 DEF MappingSound

LEMMA FinalizeKeeps ==
  ASSUME PostInv, NEW p \in Clients, Finalize(p)
  PROVE  PostInv'
<1> USE DEF PostInv
<1>1. /\ req \in [Clients -> Local] /\ req[p] \in Local
      /\ req[p].rev \in Revision /\ req[p].uri \in Uri
      /\ Post(req[p].rev, req[p].uri, ContentOf(req[p].rev)) \in made
  BY DEF Finalize, RequestsSound, TypeOK, Local
<1>2. req' \in [Clients -> Local] /\ \A o \in Clients : req'[o] = IF o = p THEN Rest ELSE req[o]
  BY <1>1, RestTyped DEF Finalize, End
<1>3. /\ published' \in [Revision -> Uri \cup {None}]
      /\ \A r \in Revision : published'[r] = IF r = req[p].rev THEN req[p].uri ELSE published[r]
  BY <1>1 DEF Finalize, TypeOK
<1>4. shown' \in [Revision -> [uri : Uri, text : Contents \cup {None}] \cup {None}]
  <2>1. [uri |-> req[p].uri, text |-> req[p].text] \in [uri : Uri, text : Contents \cup {None}]
    BY <1>1 DEF Local
  <2> QED
    BY <1>1, <2>1 DEF Finalize, TypeOK
<1>5. row' \in Drafts \cup {None}
  BY DEF Finalize, TypeOK
<1>6. TypeOK'
  BY <1>2, <1>3, <1>4, <1>5 DEF Finalize, TypeOK, Local
<1>7. RequestsSound'
  BY <1>2, RestTyped DEF Finalize, RequestsSound
<1>8. MappingSound'
  BY <1>1, <1>3 DEF Finalize, MappingSound
<1> QED
  BY <1>6, <1>7, <1>8 DEF Finalize

-----------------------------------------------------------------------------
LEMMA PostInvNext == PostInv /\ [Next]_vars => PostInv'
<1> SUFFICES ASSUME PostInv, [Next]_vars PROVE PostInv'
  OBVIOUS
<1>1. CASE UNCHANGED vars
  BY <1>1 DEF vars, PostInv, TypeOK, MappingSound, RequestsSound, Uri, PostRecord
<1>2. ASSUME NEW post \in posts, Delete(post) PROVE PostInv'
  BY <1>2 DEF Delete, PostInv, TypeOK, MappingSound, RequestsSound, Uri, PostRecord
<1>3. ASSUME NEW p \in Clients, Request(p) PROVE PostInv'
  BY <1>3, PrepareKeeps, PublishKeeps, LookupKeeps, UpsertKeeps, CreateKeeps, FinalizeKeeps
     DEF Request
<1> QED
  BY <1>1, <1>2, <1>3 DEF Next

\* Types, the mapping and what every request carries are sound at all times
\* (AtprotoService.ts:203-231, 406-544).
THEOREM PostSound == Spec => []PostInv
<1>1. Init => PostInv
  BY PostInvInit
<1>2. PostInv /\ [Next]_vars => PostInv'
  BY PostInvNext
<1> QED
  BY <1>1, <1>2, PTL DEF Spec

\* Whoever publishes a revision is answered with a record that holds what
\* was prepared as that revision (AtprotoService.ts:442-449, 522-542).
THEOREM MappingIsSound == Spec => []MappingSound
<1>1. PostInv => MappingSound
  BY DEF PostInv
<1> QED
  BY <1>1, PostSound, PTL

\* The states of requests and tables are of their types, for any number of
\* created records and repeated requests (AtprotoService.ts:203-231, 398-544).
THEOREM PostTyped == Spec => []TypeOK
<1>1. PostInv => TypeOK
  BY DEF PostInv
<1> QED
  BY <1>1, PostSound, PTL

\* No publication takes an unpublished draft away (AtprotoService.ts:220).
THEOREM DraftsAreKept == Spec => DraftDropped
<1>1. ASSUME PostInv, [Next]_vars
      PROVE  [row # None /\ row' = None => published'[row.rev] # None]_vars
  <2> SUFFICES ASSUME Next, row # None, row' = None
               PROVE  published'[row.rev] # None
    BY <1>1
  <2>1. PICK p \in Clients : Finalize(p) \/ Upsert(p)
    BY DEF Next, Request, Prepare, Publish, Reread, Adopt, Load, Create, Fail, Delete
  <2>2. CASE Upsert(p)
    <3>1. row' \in Drafts
      BY <1>1, <2>2, RevisionFields DEF PostInv, RequestsSound, Upsert, At, TypeOK, Drafts
    <3> QED
      BY <3>1, NoDraftAssumption
  <2>3. CASE Finalize(p)
    <3>1. row.rev = req[p].rev /\ published'[req[p].rev] = req[p].uri
      BY <1>1, <2>3 DEF Finalize, Drafted, PostInv, RequestsSound, TypeOK
    <3>2. req[p].uri # None
      BY <1>1, <2>3 DEF Finalize, PostInv, RequestsSound
    <3> QED
      BY <3>1, <3>2
  <2> QED
    BY <2>1, <2>2, <2>3
<1> QED
  BY <1>1, PostSound, PTL DEF Spec, DraftDropped

-----------------------------------------------------------------------------
(* What makes a revision one record, which the run publish_twice refutes   *)
(* of the code as it is.                                                   *)

\* A record of revision r that the first deployments left.
LegacyPost(r) == Post(r, LegacyKey, ContentOf(r))

\* No two requests publish the same revision at once.
Apart ==
  \A p, q \in Clients :
    {req[p].pc, req[q].pc} \cap {"idle", "upsert"} = {} /\ req[p].rev = req[q].rev => p = q

\* No step loses what the next publication of a revision decides by: that a
\* record was created, the mapping of that record, a legacy record that is there.
NothingLost ==
  \A p \in Clients :
    /\ req[p].pc = "create" /\ created' # created => req'[p].pc \in {"create", "finalize"}
    /\ req[p].pc = "finalize" => req'[p].pc = "finalize" \/ published'[req[p].rev] # None
    /\ req[p].pc \in {"legacy", "adopt"} /\ req'[p].pc = "load" => LegacyPost(req[p].rev) \notin posts

\* Who asks for a revision that has a record finds it: it is mapped, or under
\* the legacy key, or the request that created it is about to map it.
Found(post) ==
  \/ published[post.rev] # None
  \/ post.uri = LegacyKey
  \/ \E p \in Clients : req[p].pc = "finalize" /\ req[p].rev = post.rev

OneInv ==
  /\ PostInv
  /\ \A post, other \in posts : post.rev = other.rev => post = other
  /\ \A post \in posts : Found(post)
  /\ \A p \in Clients :
       /\ req[p].pc \in {"legacy", "adopt"} => published[req[p].rev] = None
       /\ req[p].pc \in {"load", "create"} => \A post \in posts : post.rev # req[p].rev

\* A step of one request that creates and maps nothing.
LEMMA QuietStep ==
  ASSUME OneInv, PostInv', NEW p \in Clients, \A o \in Clients \ {p} : req'[o] = req[o],
         UNCHANGED <<published, posts>>,
         req[p].pc = "finalize" => published[req[p].rev] # None,
         req'[p].pc \in {"legacy", "adopt"} => published[req'[p].rev] = None,
         req'[p].pc \in {"load", "create"} => \A post \in posts : post.rev # req'[p].rev
  PROVE  OneInv'
<1>1. ASSUME NEW post \in posts PROVE Found(post)'
  <2>1. Found(post)
    BY DEF OneInv
  <2> QED
    BY <2>1 DEF Found
<1>2. ASSUME NEW o \in Clients
      PROVE  /\ req'[o].pc \in {"legacy", "adopt"} => published'[req'[o].rev] = None
             /\ req'[o].pc \in {"load", "create"} => \A post \in posts' : post.rev # req'[o].rev
  BY DEF OneInv
<1> QED
  BY <1>1, <1>2 DEF OneInv

LEMMA CreateIsFirst ==
  ASSUME OneInv, PostInv', Apart, NothingLost, NEW p \in Clients, Create(p)
  PROVE  OneInv'
<1> DEFINE new == Post(req[p].rev, created + 1, req[p].text)
<1>1. posts' = posts \cup {new} /\ UNCHANGED published /\ req[p].pc = "create"
  BY DEF Create, At
<1>2. new.rev = req[p].rev
  BY DEF Post
<1> HIDE DEF new
<1>3. \A post \in posts : post.rev # new.rev
  BY <1>1, <1>2 DEF OneInv
<1>4. \A o \in Clients : o # p => req'[o] = req[o]
  BY DEF Create, End, OneInv, PostInv, TypeOK
<1>5. req'[p].pc = "finalize" /\ req'[p].rev = req[p].rev
  <2>1. created \in Nat /\ created' = created + 1
    BY PostAssumption DEF Create, OneInv, PostInv, TypeOK
  <2>2. req'[p].pc \in {"create", "finalize"}
    BY <1>1, <2>1 DEF NothingLost
  <2>3. req' = [req EXCEPT ![p].pc = "finalize", ![p].uri = created + 1] \/ req' = [req EXCEPT ![p] = Rest]
    BY DEF Create, End, Post
  <2> QED
    BY <2>2, <2>3, RestTyped DEF OneInv, PostInv, TypeOK
<1>6. ASSUME NEW post \in posts' PROVE Found(post)'
  <2>1. CASE post = new
    BY <1>2, <1>5, <2>1 DEF Found
  <2>2. CASE post \in posts
    <3>1. Found(post)
      BY <2>2 DEF OneInv
    <3>2. \A o \in Clients : req[o].pc = "finalize" => o # p
      BY <1>1
    <3> QED
      BY <1>1, <1>4, <3>1, <3>2 DEF Found
  <2> QED
    BY <1>1, <2>1, <2>2
<1>7. ASSUME NEW o \in Clients
      PROVE  /\ req'[o].pc \in {"legacy", "adopt"} => published'[req'[o].rev] = None
             /\ req'[o].pc \in {"load", "create"} => \A post \in posts' : post.rev # req'[o].rev
  <2>1. CASE o = p
    BY <1>5, <2>1
  <2>2. CASE o # p
    <3>1. req[o].pc \in {"load", "create"} => req[o].rev # new.rev
      BY <1>1, <1>2, <2>2 DEF Apart
    <3> QED
      BY <1>1, <1>4, <2>2, <3>1 DEF OneInv
  <2> QED
    BY <2>1, <2>2
<1> QED
  BY <1>1, <1>3, <1>6, <1>7 DEF OneInv

LEMMA FinalizeMaps ==
  ASSUME OneInv, PostInv', Apart, NEW p \in Clients, Finalize(p)
  PROVE  OneInv'
<1>1. /\ req[p].pc \in {"finalize", "adopt"} /\ req[p].rev \in Revision /\ req[p].uri # None
      /\ UNCHANGED posts /\ req' = [req EXCEPT ![p] = Rest]
      /\ published' = [published EXCEPT ![req[p].rev] = req[p].uri]
  BY DEF Finalize, End, OneInv, PostInv, RequestsSound
<1>2. \A o \in Clients : req'[o] = IF o = p THEN Rest ELSE req[o]
  BY <1>1 DEF OneInv, PostInv, TypeOK
<1>3. published'[req[p].rev] # None
      /\ \A r : r # req[p].rev => published'[r] = published[r]
  <2>1. published \in [Revision -> Uri \cup {None}]
    BY DEF OneInv, PostInv, TypeOK
  <2> QED
    BY <1>1, <2>1
<1>4. ASSUME NEW post \in posts PROVE Found(post)'
  <2>1. Found(post)
    BY DEF OneInv
  <2> QED
    BY <1>2, <1>3, <2>1 DEF Found
<1>5. ASSUME NEW o \in Clients, req'[o].pc \in {"legacy", "adopt"}
      PROVE  published'[req'[o].rev] = None
  <2>1. o # p /\ req'[o] = req[o]
    BY <1>2, <1>5, RestTyped
  <2>2. req[o].rev # req[p].rev
    BY <1>1, <1>5, <2>1 DEF Apart
  <2> QED
    BY <1>3, <1>5, <2>1, <2>2 DEF OneInv
<1>6. ASSUME NEW o \in Clients, req'[o].pc \in {"load", "create"}
      PROVE  \A post \in posts' : post.rev # req'[o].rev
  BY <1>1, <1>2, <1>6, RestTyped DEF OneInv
<1> QED
  BY <1>1, <1>4, <1>5, <1>6 DEF OneInv

\* No record is there when the legacy key has none and nothing is mapped.
LEMMA NoneFound ==
  ASSUME OneInv, Apart, NEW p \in Clients, req[p].pc \in {"legacy", "adopt"},
         LegacyPost(req[p].rev) \notin posts
  PROVE  \A post \in posts : post.rev # req[p].rev
<1> SUFFICES ASSUME NEW post \in posts, post.rev = req[p].rev PROVE FALSE
  OBVIOUS
<1>1. post \in PostRecord /\ post.text = ContentOf(post.rev)
  BY DEF OneInv, PostInv, TypeOK
<1>2. post.uri # LegacyKey
  BY <1>1, PostFields DEF LegacyPost
<1>3. published[post.rev] = None /\ Found(post)
  BY DEF OneInv
<1> QED
  BY <1>2, <1>3 DEF Found, Apart

LEMMA OneNext == OneInv /\ Apart /\ [Next]_vars /\ [NothingLost]_vars => OneInv'
<1> SUFFICES ASSUME OneInv, Apart, [Next]_vars, [NothingLost]_vars PROVE OneInv'
  OBVIOUS
<1>1. PostInv' /\ PostInv
  BY PostInvNext DEF OneInv
<1>2. CASE UNCHANGED vars
  BY <1>1, <1>2 DEF vars, OneInv, Found
<1>3. ASSUME NEW post \in posts, Delete(post) PROVE OneInv'
  <2>1. posts' \subseteq posts /\ UNCHANGED <<published, req>>
    BY <1>3 DEF Delete
  <2> QED
    BY <1>1, <2>1 DEF OneInv, Found
<1>4. ASSUME NEW p \in Clients, Request(p), NothingLost PROVE OneInv'
  <2>1. /\ req[p].pc = "finalize" => req'[p].pc = "finalize" \/ published'[req[p].rev] # None
        /\ req[p].pc \in {"legacy", "adopt"} /\ req'[p].pc = "load"
             => LegacyPost(req[p].rev) \notin posts
    BY <1>4 DEF NothingLost
  <2>2. req \in [Clients -> Local]
    BY <1>1 DEF PostInv, TypeOK, Local
  <2>3. \A o \in Clients \ {p} : req'[o] = req[o]
    BY <1>4, <2>2 DEF Request, Prepare, Upsert, Publish, Reread, Adopt, Load, Create, Finalize,
       Fail, End, Goto
  <2>4. CASE (\E c \in Contents : Prepare(p, c)) \/ Upsert(p)
    <3>1. req[p].pc # "finalize" /\ UNCHANGED <<published, posts>>
      BY <2>4 DEF Prepare, Upsert, At
    <3>2. req'[p].pc \in {"upsert", "idle"}
      BY <2>2, <2>4, RestTyped DEF Prepare, Upsert, End, Rest
    <3> QED
      BY <1>1, <2>3, <3>1, <3>2, QuietStep
  <2>5. ASSUME NEW r \in Revision, Publish(p, r) PROVE OneInv'
    <3>1. req[p].pc # "finalize" /\ UNCHANGED <<published, posts>>
      BY <2>5 DEF Publish, At
    <3>2. req'[p].rev = r /\ req'[p].pc = IF published[r] = None THEN "legacy" ELSE "again"
      BY <2>2, <2>5 DEF Publish, Rest
    <3> QED
      BY <1>1, <2>3, <3>1, <3>2, QuietStep
  <2>6. CASE Reread(p)
    <3>1. req[p].pc # "finalize" /\ UNCHANGED <<published, posts>>
      BY <2>6 DEF Reread, At
    <3>2. req'[p].pc = "finalize"
      BY <2>2, <2>6 DEF Reread, Local
    <3> QED
      BY <1>1, <2>3, <3>1, <3>2, QuietStep
  <2>7. CASE Adopt(p) \/ (Fail(p) /\ req[p].pc \in {"legacy", "adopt"})
    <3>1. req[p].pc \in {"legacy", "adopt"} /\ UNCHANGED <<published, posts>>
      BY <2>7 DEF Adopt, Fail, At
    <3>2. /\ req'[p].pc \in {"adopt", "load", "idle"}
          /\ req'[p].pc # "idle" => req'[p].rev = req[p].rev
      <4>1. ASSUME NEW post \in posts,
                   req' = [req EXCEPT ![p] = [@ EXCEPT !.pc = "adopt", !.uri = LegacyKey, !.text = post.text]]
            PROVE  req'[p].pc = "adopt" /\ req'[p].rev = req[p].rev
        BY <2>2, <4>1 DEF Local
      <4>2. CASE Adopt(p)
        <5>1. CASE Goto(p, "load")
          BY <2>2, <5>1 DEF Goto, Local
        <5> QED
          BY <4>1, <4>2, <5>1 DEF Adopt
      <4>3. CASE Fail(p)
        BY <2>2, <2>7, <4>3, RestTyped DEF Fail, End, Goto, Local
      <4> QED
        BY <2>7, <4>2, <4>3
    <3>3. published[req[p].rev] = None
      BY <3>1 DEF OneInv
    <3>4. req'[p].pc = "load" => \A post \in posts : post.rev # req'[p].rev
      BY <2>1, <3>1, <3>2, NoneFound
    <3> QED
      BY <1>1, <2>3, <3>1, <3>2, <3>3, <3>4, QuietStep
  <2>8. CASE Load(p)
    <3>1. req[p].pc = "load" /\ UNCHANGED <<published, posts>>
      BY <2>8 DEF Load, At
    <3>2. /\ req'[p].pc \in {"create", "idle"}
          /\ req'[p].pc # "idle" => req'[p].rev = req[p].rev
      BY <2>2, <2>8, RestTyped DEF Load, End, Local
    <3> QED
      BY <1>1, <2>3, <3>1, <3>2, QuietStep DEF OneInv
  <2>9. CASE Fail(p) /\ req[p].pc \notin {"legacy", "adopt"}
    <3>1. UNCHANGED <<published, posts>> /\ req'[p].pc = "idle"
      BY <2>2, <2>9, RestTyped DEF Fail, End
    <3> QED
      BY <1>1, <2>1, <2>3, <3>1, QuietStep
  <2>10. CASE Create(p)
    BY <1>1, <1>4, <2>10, CreateIsFirst
  <2>11. CASE Finalize(p)
    BY <1>1, <2>11, FinalizeMaps
  <2> QED
    BY <1>4, <2>4, <2>5, <2>6, <2>7, <2>8, <2>9, <2>10, <2>11 DEF Request
<1> QED
  BY <1>2, <1>3, <1>4 DEF Next, vars

LEMMA OneInit == Init => OneInv
<1> SUFFICES ASSUME Init PROVE OneInv
  OBVIOUS
<1>1. PostInv /\ \A p \in Clients : req[p].pc = "idle"
  BY PostInvInit, RestTyped DEF Init
<1>2. \A post, other \in posts : post = other
  BY DEF Init
<1>3. \A post \in posts : post.uri = LegacyKey
  BY DEF Init, Post
<1> QED
  BY <1>1, <1>2, <1>3 DEF OneInv, Found

(***************************************************************************)
(* A revision is one record however often it is published, also through    *)
(* failed calls and stopped isolates, as long as no two requests publish   *)
(* it at once and no failure loses the record just created, its mapping or *)
(* a legacy record (AtprotoService.ts:398-449,                             *)
(* codex-acceptance-checklist.md:42-44).                                   *)
(***************************************************************************)
THEOREM OneRecordWhenApart == Spec /\ []Apart /\ [][NothingLost]_vars => []OneRecord
<1>1. OneInv => OneRecord
  <2> SUFFICES ASSUME OneInv, NEW r \in Revision
               PROVE  Cardinality({post \in posts : post.rev = r}) <= 1
    BY DEF OneRecord
  <2> DEFINE S == {post \in posts : post.rev = r}
  <2>1. CASE S = {}
    BY <2>1, FS_EmptySet
  <2>2. ASSUME NEW post \in S PROVE Cardinality(S) = 1
    <3>1. S = {post}
      BY DEF OneInv
    <3> QED
      BY <3>1, FS_Singleton
  <2> QED
    BY <2>1, <2>2
<1> QED
  BY <1>1, OneInit, OneNext, PTL DEF Spec
=============================================================================

-------------------------- MODULE SitePublishProofs --------------------------
(***************************************************************************)
(* Proofs about SitePublish for every number of publications, revisions,   *)
(* files and releases kept, with or without stops, overlaps of one         *)
(* revision, moderation and a draft that changes meanwhile.                *)
(*                                                                         *)
(* The arguments:                                                          *)
(*   - the row cites the record because a publication about to cut over    *)
(*     knows the cid of a record that is its own or has been replaced      *)
(*     (CutoverKnows), and cids only grow;                                 *)
(*   - kept releases are complete because the releases above one only grow *)
(*     in number, so what a cleanup once listed as old stays old           *)
(*     (VictimsOld), while a revision not released yet is no cleanup's     *)
(*     business and keeps what was copied for it (UploadsWhole);           *)
(*   - the claim excludes because a claim is taken over only after its     *)
(*     life, judged by a clock read earlier, and because the conditions on *)
(*     publishing_revision tell two publications of different revisions    *)
(*     apart.                                                              *)
(***************************************************************************)
EXTENDS SitePublish, FiniteSetTheorems, TLAPS

-----------------------------------------------------------------------------
(* Type correctness, action by action.                                     *)

SiteRow == [active : Revisions \cup {None}, worker : Revisions \cup {None},
            claim : Revisions \cup {None}, claimAt : Nat,
            status : {"active", "suspended"}, cid : Nat]

\* Giving the claim back and moderation change one part of the row.
LEMMA RowKept ==
  ASSUME TypeOK,
         \/ row' = [row EXCEPT !.claim = None, !.claimAt = 0]
         \/ \E status \in {"suspended", "active"} : row' = [row EXCEPT !.status = status]
         \/ row' = row
  PROVE  /\ row' \in SiteRow
         /\ row'.active = row.active /\ row'.cid = row.cid /\ row'.worker = row.worker
         /\ row'.claim = None \/ (row'.claim = row.claim /\ row'.claimAt = row.claimAt)
<1>1. row \in SiteRow
  BY DEF TypeOK, SiteRow
<1>2. CASE row' = [row EXCEPT !.claim = None, !.claimAt = 0]
  BY <1>1, <1>2 DEF SiteRow
<1>3. ASSUME NEW status \in {"suspended", "active"}, row' = [row EXCEPT !.status = status]
      PROVE  /\ row' \in SiteRow
             /\ row'.active = row.active /\ row'.cid = row.cid /\ row'.worker = row.worker
             /\ row'.claim = row.claim /\ row'.claimAt = row.claimAt
  BY <1>1, <1>3 DEF SiteRow
<1> QED
  BY <1>1, <1>2, <1>3

\* The end of a publication, whether it is stopped or clears its claim.
LEMMA FinallyRow ==
  ASSUME NEW p \in Publishers, Finally(p) \/ Crash(p)
  PROVE  /\ row' = row \/ row' = [row EXCEPT !.claim = None, !.claimAt = 0]
         /\ row' # row => row.claim = rev[p]
         /\ staged' \subseteq staged /\ End(p)
<1>1. CASE Finally(p)
  <2>1. staged' \subseteq staged /\ End(p)
    BY <1>1 DEF Finally
  <2>2. row' = row \/ (row.claim = rev[p] /\ row' = [row EXCEPT !.claim = None, !.claimAt = 0])
    BY <1>1 DEF Finally
  <2> QED
    BY <2>1, <2>2
<1> QED
  BY <1>1 DEF Crash

LEMMA ModerateRow ==
  ASSUME NEW action \in {"suspend", "restore"}, Moderate(action)
  PROVE  \E status \in {"suspended", "active"} : row' = [row EXCEPT !.status = status]
<1> WITNESS (IF action = "suspend" THEN "suspended" ELSE "active") \in {"suspended", "active"}
<1> QED
  BY DEF Moderate

\* What every step of a publication but Start does to its locals.
LEMMA EndTyped ==
  ASSUME TypeOK, NEW p \in Publishers, End(p)
  PROVE  /\ pc' = [pc EXCEPT ![p] = "idle"] /\ pc' \in [Publishers -> Label]
         /\ rev' \in [Publishers -> Revisions \cup {None}]
         /\ \A q \in Publishers : pc'[q] # "idle" => rev'[q] \in Revisions
         /\ at' \in [Publishers -> Nat]
         /\ stale' \in [Publishers -> Revisions \cup {None}]
         /\ swap' \in [Publishers -> Nat] /\ cid' \in [Publishers -> Nat]
         /\ todo' \in [Publishers -> SUBSET (Paths \cup File)]
         /\ victims' \in [Publishers -> SUBSET Revisions]
BY DEF TypeOK, End, Goto, Loop, Label

LEMMA StartTyped ==
  ASSUME TypeOK, NEW p \in Publishers, NEW r \in Revisions, Start(p, r)
  PROVE  TypeOK'
BY PublishAssumption DEF TypeOK, Start, Step, Goto, Label, File

LEMMA ClaimTyped ==
  ASSUME TypeOK, NEW p \in Publishers, Claim(p)
  PROVE  TypeOK'
<1>1. CASE Claimable(p) /\ row' = [row EXCEPT !.claim = rev[p], !.claimAt = at[p]]
           /\ Goto(p, "validate") /\ UNCHANGED <<rev, at, stale, swap, cid, todo, victims>>
  <2>1. rev[p] \in Revisions /\ at[p] \in Nat
    BY DEF TypeOK, Claim
  <2> QED
    BY <1>1, <2>1 DEF TypeOK, Claim, Goto, Label
<1>2. CASE End(p) /\ UNCHANGED row
  BY <1>2, EndTyped DEF TypeOK, Claim
<1> QED
  BY <1>1, <1>2 DEF Claim

LEMMA PrepareTyped ==
  ASSUME TypeOK, NEW p \in Publishers,
         Validate(p) \/ Stage(p) \/ Probe(p) \/ Deploy(p) \/ GetRecord(p) \/ PutRecord(p)
  PROVE  TypeOK'
<1> USE PublishAssumption DEF TypeOK, Goto, Step, Loop, Label, File
<1>1. pc[p] # "idle" => rev[p] \in Revisions /\ FilesOf[rev[p]] \subseteq Paths
  OBVIOUS
<1>2. CASE Validate(p)
  BY <1>1, <1>2 DEF Validate
<1>3. CASE Stage(p)
  BY <1>1, <1>3 DEF Stage
<1>4. CASE Probe(p)
  BY <1>4 DEF Probe
<1>5. CASE Deploy(p)
  BY <1>1, <1>5 DEF Deploy
<1>6. CASE GetRecord(p)
  BY <1>6 DEF GetRecord
<1>7. CASE PutRecord(p)
  BY <1>1, <1>7 DEF PutRecord
<1> QED
  BY <1>2, <1>3, <1>4, <1>5, <1>6, <1>7

LEMMA CopyTyped ==
  ASSUME TypeOK, NEW p \in Publishers, NEW f \in Paths, Copy(p, f) \/ Upload(p, f)
  PROVE  TypeOK'
<1>1. rev[p] \in Revisions
  BY DEF TypeOK, Copy, Upload
<1> QED
  BY <1>1 DEF TypeOK, Copy, Upload, Loop, File

LEMMA CutoverTyped ==
  ASSUME TypeOK, NEW p \in Publishers, Cutover(p)
  PROVE  TypeOK'
<1>1. rev[p] \in Revisions /\ at[p] \in Nat /\ cid[p] \in Nat
  BY DEF TypeOK, Cutover
<1>2. pc' \in [Publishers -> Label] /\ \A q \in Publishers : pc'[q] # "idle" => pc[q] # "idle"
  BY DEF TypeOK, Cutover, Goto, Label
<1>3. row' \in [active : Revisions \cup {None}, worker : Revisions \cup {None},
             claim : Revisions \cup {None}, claimAt : Nat,
             status : {"active", "suspended"}, cid : Nat]
  BY <1>1 DEF TypeOK, Cutover, WorkerName
<1>4. releases' \in [Revisions -> [status : {"none", "active", "superseded"}, createdAt : Nat]]
  BY <1>1 DEF TypeOK, Cutover
<1> QED
  BY <1>2, <1>3, <1>4 DEF TypeOK, Cutover

LEMMA CleanupTyped ==
  ASSUME TypeOK, NEW p \in Publishers,
         \/ Retire(p) \/ ListReleases(p) \/ Pruned(p) \/ Throw(p)
         \/ \E v \in Revisions : ListFiles(p, v)
         \/ \E file \in Revisions \X Paths : Prune(p, file)
  PROVE  TypeOK'
<1> USE DEF TypeOK, Goto, Step, Loop, Label, File
<1>1. CASE Retire(p)
  BY <1>1 DEF Retire
<1>2. CASE ListReleases(p)
  BY <1>2 DEF ListReleases, Released
<1>3. CASE Pruned(p)
  BY <1>3 DEF Pruned
<1>4. CASE Throw(p)
  BY <1>4 DEF Throw, InTry
<1>5. CASE \E v \in Revisions : ListFiles(p, v)
  BY <1>5 DEF ListFiles, BundleOf
<1>6. CASE \E file \in Revisions \X Paths : Prune(p, file)
  BY <1>6 DEF Prune
<1> QED
  BY <1>1, <1>2, <1>3, <1>4, <1>5, <1>6

LEMMA FinallyTyped ==
  ASSUME TypeOK, NEW p \in Publishers, Finally(p) \/ Crash(p)
  PROVE  TypeOK'
<1>1. row' \in SiteRow
  BY FinallyRow, RowKept
<1>2. staged' \subseteq staged /\ End(p)
  BY FinallyRow
<1> QED
  BY <1>1, <1>2, EndTyped DEF TypeOK, SiteRow, Finally, Crash

LEMMA EnvironmentTyped ==
  ASSUME TypeOK, (\E action \in {"suspend", "restore"} : Moderate(action)) \/ Redraft \/ Tick
  PROVE  TypeOK'
<1> USE DEF TypeOK, locals
<1>1. CASE \E action \in {"suspend", "restore"} : Moderate(action)
  BY <1>1 DEF Moderate
<1>2. CASE Redraft
  BY <1>2, PublishAssumption DEF Redraft, File
<1>3. CASE Tick
  BY <1>3 DEF Tick
<1> QED
  BY <1>1, <1>2, <1>3

LEMMA TypeOKInit == Init => TypeOK
BY PublishAssumption DEF Init, TypeOK, BundleOf, File, Label

LEMMA TypeOKNext == TypeOK /\ [Next]_vars => TypeOK'
<1> SUFFICES ASSUME TypeOK, [Next]_vars PROVE TypeOK'
  OBVIOUS
<1>1. CASE \E p \in Publishers, r \in Revisions : Start(p, r)
  BY <1>1, StartTyped
<1>2. ASSUME NEW p \in Publishers, Advance(p) PROVE TypeOK'
  BY <1>2, ClaimTyped, PrepareTyped, CopyTyped, CutoverTyped, CleanupTyped, FinallyTyped
     DEF Advance
<1>3. CASE \E p \in Publishers : Crash(p)
  BY <1>3, FinallyTyped
<1>4. CASE (\E action \in {"suspend", "restore"} : Moderate(action)) \/ Redraft \/ Tick
  BY <1>4, EnvironmentTyped
<1>5. CASE UNCHANGED vars
  BY <1>5 DEF TypeOK, vars, locals
<1> QED
  BY <1>1, <1>2, <1>3, <1>4, <1>5 DEF Next

(***************************************************************************)
(* Every variable of the publication model keeps its type: in particular a *)
(* publication under way always names a revision (SiteService.ts:352-591). *)
(***************************************************************************)
THEOREM PublishTypeCorrect == Spec => []TypeOK
<1>1. Init => TypeOK
  BY TypeOKInit
<1>2. TypeOK /\ [Next]_vars => TypeOK'
  BY TypeOKNext
<1> QED
  BY <1>1, <1>2, PTL DEF Spec
-----------------------------------------------------------------------------
(* The row and the PDS record.                                             *)

\* A publication about to cut over knows the cid of its own record, or of
\* one that another publication has replaced since.
CutoverKnows ==
  \A p \in Publishers : pc[p] = "cutover" =>
    /\ 0 < cid[p] /\ cid[p] <= record.cid
    /\ cid[p] = record.cid => record.rev = rev[p]

CitationInv == TypeOK /\ RowCitesRecord /\ CutoverKnows

\* Steps that leave the row's citation, the record and every publication
\* at its cutover as they are.
LEMMA CitationKept ==
  ASSUME CitationInv, TypeOK', row'.active = row.active, row'.cid = row.cid,
         UNCHANGED record,
         \A q \in Publishers : pc'[q] = "cutover" =>
           pc[q] = "cutover" /\ cid'[q] = cid[q] /\ rev'[q] = rev[q]
  PROVE  CitationInv'
BY DEF CitationInv, RowCitesRecord, CutoverKnows

LEMMA CitationPut ==
  ASSUME CitationInv, TypeOK', NEW p \in Publishers, PutRecord(p)
  PROVE  CitationInv'
<1>1. record'.cid = record.cid + 1 /\ record'.rev = rev[p] /\ record.cid \in Nat
  BY DEF PutRecord, CitationInv, TypeOK
<1>2. row.cid \in Nat /\ UNCHANGED <<row, rev>> /\ cid'[p] = record.cid + 1
  BY <1>1 DEF PutRecord, CitationInv, TypeOK
<1>3. ASSUME NEW q \in Publishers, q # p, pc'[q] = "cutover"
      PROVE  pc[q] = "cutover" /\ cid'[q] = cid[q] /\ cid[q] \in Nat
  BY <1>3 DEF PutRecord, Goto, CitationInv, TypeOK
<1>4. RowCitesRecord'
  BY <1>1, <1>2 DEF RowCitesRecord, CitationInv
<1>5. CutoverKnows'
  <2> SUFFICES ASSUME NEW q \in Publishers, pc'[q] = "cutover"
               PROVE  /\ 0 < cid'[q] /\ cid'[q] <= record'.cid
                      /\ cid'[q] = record'.cid => record'.rev = rev'[q]
    BY DEF CutoverKnows
  <2>1. CASE q = p
    BY <1>1, <1>2, <2>1
  <2>2. CASE q # p
    BY <1>1, <1>2, <1>3, <2>2 DEF CitationInv, CutoverKnows
  <2> QED
    BY <2>1, <2>2
<1> QED
  BY <1>4, <1>5 DEF CitationInv

LEMMA CitationCutover ==
  ASSUME CitationInv, TypeOK', NEW p \in Publishers, Cutover(p)
  PROVE  CitationInv'
<1>1. \A q \in Publishers : pc'[q] = "cutover" => pc[q] = "cutover"
  BY DEF Cutover, Goto, CitationInv, TypeOK
<1>2. UNCHANGED <<record, rev, cid>> /\ pc[p] = "cutover"
  BY DEF Cutover
<1>3. \/ row'.active = row.active /\ row'.cid = row.cid
      \/ row'.active = rev[p] /\ row'.cid = cid[p]
  BY DEF Cutover
<1> QED
  BY <1>1, <1>2, <1>3 DEF CitationInv, RowCitesRecord, CutoverKnows

LEMMA CitationNext == CitationInv /\ [Next]_vars => CitationInv'
<1> SUFFICES ASSUME CitationInv, [Next]_vars PROVE CitationInv'
  OBVIOUS
<1>1. TypeOK /\ TypeOK'
  BY TypeOKNext DEF CitationInv
<1>2. CASE \E p \in Publishers, r \in Revisions : Start(p, r)
  BY <1>1, <1>2, CitationKept DEF Start, Step, Goto, TypeOK
<1>3. ASSUME NEW p \in Publishers, Advance(p) PROVE CitationInv'
  <2> USE <1>1, CitationKept DEF TypeOK, Goto, Step, End
  <2>1. CASE Claim(p)
    BY <2>1 DEF Claim
  <2>2. CASE Validate(p) \/ Stage(p) \/ Probe(p) \/ Deploy(p) \/ GetRecord(p)
    BY <2>2 DEF Validate, Stage, Probe, Deploy, GetRecord
  <2>3. CASE PutRecord(p) \/ Cutover(p)
    BY <2>3, CitationPut, CitationCutover
  <2>4. CASE Retire(p) \/ ListReleases(p) \/ Pruned(p) \/ Throw(p)
    BY <2>4 DEF Retire, ListReleases, Pruned, Throw
  <2>5. CASE Finally(p)
    <3>1. row'.active = row.active /\ row'.cid = row.cid
      BY <2>5, FinallyRow, RowKept
    <3> QED
      BY <2>5, <3>1 DEF Finally
  <2>6. CASE \E f \in Paths : Copy(p, f) \/ Upload(p, f)
    BY <2>6 DEF Copy, Upload
  <2>7. CASE (\E v \in Revisions : ListFiles(p, v))
             \/ (\E file \in Revisions \X Paths : Prune(p, file))
    BY <2>7 DEF ListFiles, Prune
  <2> QED
    BY <1>3, <2>1, <2>2, <2>3, <2>4, <2>5, <2>6, <2>7 DEF Advance
<1>4. CASE \E p \in Publishers : Crash(p)
  BY <1>1, <1>4, CitationKept DEF Crash, End, Goto, TypeOK
<1>5. CASE (\E action \in {"suspend", "restore"} : Moderate(action)) \/ Redraft \/ Tick
  <2>1. row'.active = row.active /\ row'.cid = row.cid /\ UNCHANGED <<record, locals>>
    BY <1>1, <1>5, ModerateRow, RowKept DEF Moderate, Redraft, Tick
  <2> QED
    BY <1>1, <2>1, CitationKept DEF locals
<1>6. CASE UNCHANGED vars
  BY <1>1, <1>6, CitationKept DEF vars, locals
<1> QED
  BY <1>2, <1>3, <1>4, <1>5, <1>6 DEF Next

(***************************************************************************)
(* The site row cites a version of the PDS record that really is about the *)
(* active revision, for any number of overlapping publications and         *)
(* whatever answers were lost (SiteService.ts:494-541).                    *)
(***************************************************************************)
THEOREM CitationSound == Spec => []RowCitesRecord
<1>1. Init => CitationInv
  BY TypeOKInit DEF Init, CitationInv, RowCitesRecord, CutoverKnows
<1>2. CitationInv /\ [Next]_vars => CitationInv'
  BY CitationNext
<1>3. CitationInv => RowCitesRecord
  BY DEF CitationInv
<1> QED
  BY <1>1, <1>2, <1>3, PTL DEF Spec
-----------------------------------------------------------------------------
(* The kept releases.                                                      *)

\* A release the cleanup may take files of.
Old(r) == r \in Released /\ Cardinality(Above(r)) >= Keep

\* What a cleanup has listed is old, and stays so whatever is published meanwhile.
VictimsOld ==
  \A p \in Publishers : pc[p] = "prune" =>
    /\ \A v \in victims[p] : Old(v)
    /\ \A file \in todo[p] \cap File : Old(file[1])

\* What was uploaded of a revision that is not released yet is still there.
UploadsWhole ==
  \A p \in Publishers :
    /\ pc[p] \in {"put", "cutover", "retire", "list"} => todo[p] = {}
    /\ pc[p] \in {"upload", "put", "cutover"} /\ rev[p] \notin Released =>
         {rev[p]} \X (FilesOf[rev[p]] \ todo[p]) \subseteq release

KeepInv == TypeOK /\ KeptReleasesComplete /\ VictimsOld /\ UploadsWhole

\* The releases above one are finitely many.
LEMMA AboveFinite ==
  ASSUME NEW r
  PROVE  IsFiniteSet(Released) /\ IsFiniteSet(Above(r)) /\ Cardinality(Above(r)) \in Nat
<1>1. Released \in SUBSET Revisions /\ Above(r) \in SUBSET Revisions
  BY DEF Released, Above
<1> QED
  BY <1>1, PublishAssumption, FS_Subset, FS_CardinalityType

\* The release table never forgets a release nor moves its creation.
ReleasesLast ==
  \A r \in Revisions : releases[r].status # "none" =>
    releases'[r].status # "none" /\ releases'[r].createdAt = releases[r].createdAt

\* An old release stays old, and one that was not kept is not kept again.
LEMMA OldStaysOld ==
  ASSUME ReleasesLast, NEW r \in Released
  PROVE  r \in Released' /\ (Old(r) => Old(r)') /\ (Kept(r)' => Kept(r))
<1>1. r \in Released' /\ Above(r) \subseteq Above(r)'
  BY DEF ReleasesLast, Released, Above
<1>2. Above(r)' \subseteq Revisions
  BY DEF Above, Released
<1>3. IsFiniteSet(Above(r)') /\ Cardinality(Above(r)') \in Nat
  BY <1>2, PublishAssumption, FS_Subset, FS_CardinalityType
<1>4. Cardinality(Above(r)) <= Cardinality(Above(r)') /\ Cardinality(Above(r)) \in Nat
  BY <1>1, <1>3, AboveFinite, FS_Subset
<1> QED
  BY <1>1, <1>3, <1>4, PublishAssumption DEF Old, Kept

\* What the cleanup lists has Keep newer releases or more.
LEMMA ListedOld ==
  ASSUME NEW old \in SUBSET Released, NEW v \in old,
         Cardinality(Released \ old) = Keep, Released \ old \subseteq Above(v)
  PROVE  Old(v)
<1>1. Cardinality(Released \ old) <= Cardinality(Above(v))
  BY AboveFinite, FS_Subset
<1> QED
  BY <1>1, PublishAssumption, AboveFinite DEF Old

\* Steps of the release table and the bucket that a cleanup did not make.
LEMMA KeepKept ==
  ASSUME KeepInv, TypeOK', UNCHANGED releases, release \subseteq release',
         \A q \in Publishers : pc'[q] = "prune" =>
           pc[q] = "prune" /\ victims'[q] \subseteq victims[q] /\ todo'[q] \subseteq todo[q],
         \A q \in Publishers :
           /\ pc'[q] \in {"put", "cutover", "retire", "list"} => todo'[q] = {}
           /\ pc'[q] \in {"upload", "put", "cutover"} =>
                /\ rev'[q] = rev[q]
                /\ rev[q] \notin Released =>
                     {rev[q]} \X (FilesOf[rev[q]] \ todo'[q]) \subseteq release
  PROVE  KeepInv'
<1>1. ReleasesLast /\ Released' = Released /\ \A r : Above(r)' = Above(r)
  BY DEF ReleasesLast, Released, Above
<1>2. \A r : (Old(r)' <=> Old(r)) /\ (Kept(r)' <=> Kept(r))
  BY <1>1 DEF Old, Kept
<1>3. KeptReleasesComplete'
  BY <1>2 DEF KeptReleasesComplete, KeepInv
<1>4. VictimsOld'
  BY <1>2 DEF VictimsOld, KeepInv
<1>5. UploadsWhole'
  BY <1>1 DEF UploadsWhole, KeepInv
<1> QED
  BY <1>3, <1>4, <1>5 DEF KeepInv

\* The cutover adds one release to the table, unless it was there before.
LEMMA CutoverTable ==
  ASSUME TypeOK, NEW p \in Publishers, Cutover(p)
  PROVE  /\ ReleasesLast /\ Released' = Released \cup {rev[p]}
         /\ rev[p] \notin Released => releases'[rev[p]].createdAt = at[p]
<1> DEFINE demoted == [r \in Revisions |->
              IF releases[r].status = "active" THEN [releases[r] EXCEPT !.status = "superseded"]
              ELSE releases[r]]
           new == [status |-> "active",
                   createdAt |-> IF releases[rev[p]].status = "none" THEN at[p]
                                 ELSE demoted[rev[p]].createdAt]
<1>1. rev[p] \in Revisions /\ releases' = [demoted EXCEPT ![rev[p]] = new]
  BY DEF Cutover, TypeOK
<1>2. \A r \in Revisions : releases[r] \in
        [status : {"none", "active", "superseded"}, createdAt : Nat]
  BY DEF TypeOK
<1>3. \A r \in Revisions : /\ demoted[r].createdAt = releases[r].createdAt
                           /\ demoted[r].status = "none" <=> releases[r].status = "none"
  BY <1>2
<1>4. /\ new.status = "active"
      /\ releases[rev[p]].status # "none" => new.createdAt = releases[rev[p]].createdAt
      /\ releases[rev[p]].status = "none" => new.createdAt = at[p]
  BY <1>1, <1>3
<1>5. \A r \in Revisions : releases'[r] = IF r = rev[p] THEN new ELSE demoted[r]
  BY <1>1
<1> HIDE DEF demoted, new
<1> QED
  BY <1>1, <1>3, <1>4, <1>5 DEF ReleasesLast, Released

\* The new release was uploaded whole; the others are as old as before, or older.
LEMMA KeepCutover ==
  ASSUME KeepInv, TypeOK', NEW p \in Publishers, Cutover(p)
  PROVE  KeepInv'
<1>1. /\ pc[p] = "cutover" /\ rev[p] \in Revisions /\ todo[p] = {}
      /\ rev[p] \notin Released => BundleOf(rev[p]) \subseteq release
  BY DEF Cutover, KeepInv, UploadsWhole, TypeOK, BundleOf
<1>2. UNCHANGED <<release, rev, todo, victims>>
      /\ \A q \in Publishers : pc'[q] = pc[q] \/ (q = p /\ pc'[q] \in {"retire", "finally"})
  BY DEF Cutover, Goto, KeepInv, TypeOK
<1>3. ReleasesLast /\ Released' = Released \cup {rev[p]}
  BY CutoverTable DEF KeepInv
<1>4. KeptReleasesComplete'
  <2> SUFFICES ASSUME NEW r \in Revisions, Kept(r)' PROVE BundleOf(r) \subseteq release
    BY <1>2 DEF KeptReleasesComplete, BundleOf
  <2>1. CASE r \in Released
    BY <1>3, <2>1, OldStaysOld DEF KeepInv, KeptReleasesComplete
  <2>2. CASE r \notin Released
    BY <1>1, <1>3, <2>2 DEF Kept
  <2> QED
    BY <2>1, <2>2
<1>5. VictimsOld'
  <2>1. \A r : Old(r) => Old(r)'
    BY <1>3, OldStaysOld DEF Old
  <2> QED
    BY <1>2, <2>1 DEF VictimsOld, KeepInv
<1>6. UploadsWhole'
  BY <1>1, <1>2, <1>3 DEF UploadsWhole, KeepInv
<1> QED
  BY <1>4, <1>5, <1>6 DEF KeepInv

LEMMA KeepList ==
  ASSUME KeepInv, TypeOK', NEW p \in Publishers, ListReleases(p)
  PROVE  KeepInv'
<1>1. UNCHANGED <<release, releases, rev, todo>> /\ pc[p] = "list" /\ todo[p] = {}
      /\ pc' = [pc EXCEPT ![p] = "prune"]
  BY DEF ListReleases, Step, Goto, KeepInv, UploadsWhole
<1>2. PICK old \in SUBSET Released :
        /\ Cardinality(Released \ old) = Keep \/ (old = {} /\ Cardinality(Released) <= Keep)
        /\ \A v \in old : Released \ old \subseteq Above(v)
        /\ victims' = [victims EXCEPT ![p] = old]
  BY DEF ListReleases
<1>3. \A v \in old : Old(v)
  BY <1>2, ListedOld
<1>4. Released' = Released /\ \A r : Above(r)' = Above(r)
  BY <1>1 DEF Released, Above
<1>5. \A r : (Old(r)' <=> Old(r)) /\ (Kept(r)' <=> Kept(r))
  BY <1>4 DEF Old, Kept
<1>6. \A q \in Publishers : /\ pc'[q] = IF q = p THEN "prune" ELSE pc[q]
                            /\ victims'[q] = IF q = p THEN old ELSE victims[q]
  BY <1>1, <1>2 DEF KeepInv, TypeOK
<1>7. VictimsOld'
  <2> SUFFICES ASSUME NEW q \in Publishers, pc'[q] = "prune"
               PROVE  /\ \A v \in victims'[q] : Old(v)
                      /\ \A file \in todo[q] \cap File : Old(file[1])
    BY <1>1, <1>5 DEF VictimsOld, File
  <2>1. CASE q = p
    BY <1>1, <1>3, <1>6, <2>1
  <2>2. CASE q # p
    BY <1>6, <2>2 DEF VictimsOld, KeepInv
  <2> QED
    BY <2>1, <2>2
<1>8. UploadsWhole'
  BY <1>1, <1>4, <1>6 DEF UploadsWhole, KeepInv
<1>9. KeptReleasesComplete'
  BY <1>1, <1>5 DEF KeptReleasesComplete, KeepInv, BundleOf
<1> QED
  BY <1>7, <1>8, <1>9 DEF KeepInv

LEMMA KeepListFiles ==
  ASSUME KeepInv, TypeOK', NEW p \in Publishers, NEW v \in Revisions, ListFiles(p, v)
  PROVE  KeepInv'
<1>1. UNCHANGED <<release, releases, rev, pc>> /\ pc[p] = "prune" /\ v \in victims[p]
  BY DEF ListFiles
<1>2. \A q \in Publishers :
        /\ victims'[q] = IF q = p THEN victims[p] \ {v} ELSE victims[q]
        /\ todo'[q] = IF q = p THEN BundleOf(v) \cap release ELSE todo[q]
  BY DEF ListFiles, Loop, KeepInv, TypeOK
<1>3. Released' = Released /\ \A r : Above(r)' = Above(r)
  BY <1>1 DEF Released, Above
<1>4. \A r : (Old(r)' <=> Old(r)) /\ (Kept(r)' <=> Kept(r))
  BY <1>3 DEF Old, Kept
<1>5. Old(v) /\ \A file \in BundleOf(v) : file[1] = v
  BY <1>1 DEF VictimsOld, KeepInv, BundleOf
<1>6. VictimsOld'
  BY <1>1, <1>2, <1>4, <1>5 DEF VictimsOld, KeepInv, File
<1>7. UploadsWhole' /\ KeptReleasesComplete'
  BY <1>1, <1>2, <1>3, <1>4 DEF UploadsWhole, KeptReleasesComplete, KeepInv, BundleOf
<1> QED
  BY <1>6, <1>7 DEF KeepInv

\* A deleted file belongs to an old release: not to a kept one, nor to a
\* revision that is being published for the first time.
LEMMA KeepPrune ==
  ASSUME KeepInv, TypeOK', NEW p \in Publishers, NEW file \in File, Prune(p, file)
  PROVE  KeepInv'
<1>1. /\ UNCHANGED <<releases, rev, pc, victims>>
      /\ release' = release \/ release' = release \ {file}
      /\ pc[p] = "prune" /\ file \in todo[p]
  BY DEF Prune
<1>2. \A q \in Publishers : todo'[q] = IF q = p THEN todo[p] \ {file} ELSE todo[q]
  BY DEF Prune, Loop, KeepInv, TypeOK
<1>3. Released' = Released /\ \A r : Above(r)' = Above(r)
  BY <1>1 DEF Released, Above
<1>4. \A r : (Old(r)' <=> Old(r)) /\ (Kept(r)' <=> Kept(r))
  BY <1>3 DEF Old, Kept
<1>5. Old(file[1]) /\ ~Kept(file[1])
  <2>1. Old(file[1])
    BY <1>1 DEF VictimsOld, KeepInv
  <2> QED
    BY <2>1, AboveFinite, PublishAssumption DEF Old, Kept
<1>6. KeptReleasesComplete'
  <2> SUFFICES ASSUME NEW r \in Revisions, Kept(r) PROVE BundleOf(r) \subseteq release'
    BY <1>4 DEF KeptReleasesComplete, BundleOf
  <2>1. r # file[1] /\ BundleOf(r) \subseteq release
    BY <1>5 DEF KeepInv, KeptReleasesComplete
  <2> QED
    BY <1>1, <2>1 DEF BundleOf
<1>7. UploadsWhole'
  <2> SUFFICES ASSUME NEW q \in Publishers
               PROVE  /\ pc[q] \in {"put", "cutover", "retire", "list"} => todo'[q] = {}
                      /\ pc[q] \in {"upload", "put", "cutover"} /\ rev[q] \notin Released =>
                           {rev[q]} \X (FilesOf[rev[q]] \ todo'[q]) \subseteq release'
    BY <1>1, <1>3 DEF UploadsWhole
  <2>1. CASE pc[q] \in {"put", "cutover", "retire", "list", "upload"}
    <3>1. q # p /\ todo'[q] = todo[q]
      BY <1>1, <1>2, <2>1
    <3>2. rev[q] \notin Released => rev[q] # file[1]
      BY <1>5 DEF Old
    <3> QED
      BY <1>1, <3>1, <3>2 DEF UploadsWhole, KeepInv
  <2> QED
    BY <2>1
<1>8. VictimsOld'
  BY <1>1, <1>2, <1>4 DEF VictimsOld, KeepInv, File
<1> QED
  BY <1>6, <1>7, <1>8 DEF KeepInv

\* The other steps of a publication only add to the bucket.
LEMMA KeepAdvance ==
  ASSUME KeepInv, TypeOK', NEW p \in Publishers, Advance(p)
  PROVE  KeepInv'
<1> USE DEF Goto, Step, Loop
<1>1. TypeOK /\ UploadsWhole
  BY DEF KeepInv
<1>2. CASE Claim(p)
  BY <1>1, <1>2, KeepKept DEF Claim, End, TypeOK, UploadsWhole
<1>3. CASE Validate(p) \/ Stage(p) \/ Probe(p)
  BY <1>1, <1>3, KeepKept DEF Validate, Stage, Probe, TypeOK, UploadsWhole
<1>4. CASE Deploy(p)
  BY <1>1, <1>4, KeepKept DEF Deploy, TypeOK, UploadsWhole
<1>5. CASE GetRecord(p) \/ PutRecord(p)
  BY <1>1, <1>5, KeepKept DEF GetRecord, PutRecord, TypeOK, UploadsWhole
<1>6. CASE Cutover(p)
  BY <1>6, KeepCutover
<1>7. CASE Retire(p) \/ Pruned(p) \/ Throw(p)
  BY <1>1, <1>7, KeepKept DEF Retire, Pruned, Throw, TypeOK, UploadsWhole
<1>8. CASE ListReleases(p)
  BY <1>8, KeepList
<1>9. CASE Finally(p)
  BY <1>1, <1>9, KeepKept DEF Finally, End, TypeOK, UploadsWhole
<1>10. ASSUME NEW f \in Paths, Copy(p, f) PROVE KeepInv'
  BY <1>1, <1>10, KeepKept DEF Copy, TypeOK, UploadsWhole
<1>11. ASSUME NEW f \in Paths, Upload(p, f) PROVE KeepInv'
  <2>1. /\ pc[p] = "upload" /\ todo' = [todo EXCEPT ![p] = todo[p] \ {f}]
        /\ <<rev[p], f>> \in release /\ UNCHANGED <<releases, release, pc, rev, victims>>
    BY <1>11 DEF Upload
  <2>2. rev[p] \notin Released =>
          {rev[p]} \X (FilesOf[rev[p]] \ (todo[p] \ {f})) \subseteq release
    BY <1>1, <2>1 DEF UploadsWhole
  <2> QED
    BY <1>1, <2>1, <2>2, KeepKept DEF TypeOK, UploadsWhole
<1>12. CASE (\E v \in Revisions : ListFiles(p, v))
            \/ (\E file \in Revisions \X Paths : Prune(p, file))
  BY <1>12, KeepListFiles, KeepPrune DEF File
<1> QED
  BY <1>2, <1>3, <1>4, <1>5, <1>6, <1>7, <1>8, <1>9, <1>10, <1>11, <1>12 DEF Advance

LEMMA KeepNext == KeepInv /\ [Next]_vars => KeepInv'
<1> SUFFICES ASSUME KeepInv, [Next]_vars PROVE KeepInv'
  OBVIOUS
<1>1. TypeOK /\ UploadsWhole /\ TypeOK'
  BY TypeOKNext DEF KeepInv
<1>2. CASE \E p \in Publishers, r \in Revisions : Start(p, r)
  BY <1>1, <1>2, KeepKept DEF Start, Step, Goto, TypeOK, UploadsWhole
<1>3. CASE \E p \in Publishers : Advance(p)
  BY <1>1, <1>3, KeepAdvance
<1>4. CASE \E p \in Publishers : Crash(p)
  BY <1>1, <1>4, KeepKept DEF Crash, End, Goto, Loop, TypeOK, UploadsWhole
<1>5. CASE (\E action \in {"suspend", "restore"} : Moderate(action)) \/ Redraft \/ Tick
           \/ UNCHANGED vars
  <2>1. UNCHANGED <<releases, release, locals>>
    BY <1>5 DEF Moderate, Redraft, Tick, vars, locals
  <2> QED
    BY <1>1, <2>1, KeepKept DEF locals, UploadsWhole
<1> QED
  BY <1>2, <1>3, <1>4, <1>5 DEF Next

(***************************************************************************)
(* The newest Keep releases keep every file of theirs, however many        *)
(* publications and cleanups overlap, fail half way or stop, and whatever  *)
(* happens to the draft meanwhile (SiteService.ts:438-446, 469-471,        *)
(* 551-566).                                                               *)
(***************************************************************************)
THEOREM ReleasesKept == Spec => []KeptReleasesComplete
<1>1. Init => KeepInv
  BY TypeOKInit, PublishAssumption DEF Init, KeepInv, KeptReleasesComplete, Kept, Released,
     VictimsOld, UploadsWhole
<1>2. KeepInv /\ [Next]_vars => KeepInv'
  BY KeepNext
<1>3. KeepInv => KeptReleasesComplete
  BY DEF KeepInv
<1> QED
  BY <1>1, <1>2, <1>3, PTL DEF Spec
-----------------------------------------------------------------------------
(* The claim.                                                              *)

\* Publications under way are of different revisions, and read the clock
\* before now.
Apart ==
  /\ \A p, q \in Publishers : p # q /\ rev[p] = rev[q] => rev[p] = None
  /\ \A p \in Publishers : at[p] <= now

ClaimInv == TypeOK /\ Apart /\ ClaimExclusive

\* Steps that take no claim: every claim that still holds is as it was.
LEMMA ClaimKept ==
  ASSUME ClaimInv, TypeOK', now <= now',
         \A q \in Publishers : \/ rev'[q] = rev[q] /\ at'[q] = at[q]
                               \/ rev'[q] = None /\ at'[q] = 0,
         \A q \in Publishers : Holding(q)' =>
           Holding(q) /\ UNCHANGED <<rev[q], at[q], row.claim, row.claimAt>>
  PROVE  ClaimInv'
<1>1. ClaimExclusive'
  BY DEF ClaimExclusive, ClaimInv
<1>2. \A q \in Publishers : at[q] \in Nat /\ at'[q] \in Nat
  BY DEF ClaimInv, TypeOK
<1>3. now \in Nat /\ now' \in Nat
  BY DEF ClaimInv, TypeOK
<1>4. Apart'
  BY <1>2, <1>3 DEF Apart, ClaimInv
<1> QED
  BY <1>1, <1>4 DEF ClaimInv

\* The winner holds the claim, and nobody else can at that moment.
LEMMA ClaimTaken ==
  ASSUME ClaimInv, TypeOK', NEW p \in Publishers, Claim(p)
  PROVE  ClaimInv'
<1>1. TypeOK /\ pc[p] = "claim" /\ UNCHANGED now
  BY DEF Claim, ClaimInv
<1>2. CASE End(p) /\ UNCHANGED row
  BY <1>1, <1>2, ClaimKept DEF End, Goto, Holding, TypeOK
<1>3. CASE Claimable(p) /\ row' = [row EXCEPT !.claim = rev[p], !.claimAt = at[p]]
           /\ Goto(p, "validate") /\ UNCHANGED <<rev, at, stale, swap, cid, todo, victims>>
  <2>1. row'.claim = rev[p] /\ row'.claimAt = at[p]
    <3>1. row \in SiteRow
      BY <1>1 DEF TypeOK, SiteRow
    <3> QED
      BY <1>3, <3>1 DEF SiteRow
  <2>2. ASSUME NEW q \in Publishers, Holding(q) PROVE FALSE
    <3>1. row.claim = rev[q] /\ row.claimAt = at[q] /\ now <= at[q] + Ttl
      BY <2>2 DEF ClaimInv, ClaimExclusive, Holding
    <3>2. rev[q] # None
      BY <1>1, <2>2, PublishAssumption DEF Holding, TypeOK
    <3>3. at[p] <= now /\ at[p] \in Nat /\ at[q] \in Nat /\ now \in Nat /\ Ttl \in Nat
      BY <1>1, PublishAssumption DEF ClaimInv, Apart, TypeOK
    <3> QED
      BY <1>3, <3>1, <3>2, <3>3 DEF Claimable
  <2>3. \A q \in Publishers : Holding(q)' => q = p
    BY <1>1, <1>3, <2>2 DEF Holding, Goto, TypeOK
  <2>4. ClaimExclusive'
    BY <1>3, <2>1, <2>3 DEF ClaimExclusive
  <2>5. Apart'
    BY <1>1, <1>3 DEF Apart, ClaimInv
  <2> QED
    BY <2>4, <2>5 DEF ClaimInv
<1> QED
  BY <1>2, <1>3 DEF Claim

\* A cutover and a finally block touch the claim of their own revision only.
LEMMA ClaimReleased ==
  ASSUME ClaimInv, TypeOK', NEW p \in Publishers, Cutover(p) \/ Finally(p) \/ Crash(p)
  PROVE  ClaimInv'
<1>1. TypeOK /\ UNCHANGED now
  BY DEF ClaimInv, Cutover, Finally, Crash
<1>2. (row'.claim = row.claim /\ row'.claimAt = row.claimAt) \/ row.claim = rev[p]
  BY FinallyRow DEF Cutover
<1>3. \A q \in Publishers : IF q = p THEN pc'[q] \in {"retire", "finally", "idle"}
                                     ELSE pc'[q] = pc[q] /\ rev'[q] = rev[q] /\ at'[q] = at[q]
  BY <1>1, FinallyRow DEF Cutover, End, Goto, TypeOK
<1>4. \A q \in Publishers : Holding(q)' => q # p /\ Holding(q)
  BY <1>1, <1>3 DEF Holding
<1>5. ASSUME NEW q \in Publishers, Holding(q)' PROVE UNCHANGED <<row.claim, row.claimAt>>
  <2>1. q # p /\ row.claim = rev[q] /\ rev[q] # None
    BY <1>1, <1>4, <1>5, PublishAssumption DEF ClaimInv, ClaimExclusive, Holding, TypeOK
  <2> QED
    BY <1>2, <2>1 DEF ClaimInv, Apart
<1>6. \/ rev'[p] = rev[p] /\ at'[p] = at[p]
      \/ rev'[p] = None /\ at'[p] = 0
  BY <1>1, FinallyRow DEF Cutover, End, TypeOK
<1>7. now <= now'
  BY <1>1 DEF TypeOK
<1> QED
  BY <1>3, <1>4, <1>5, <1>6, <1>7, ClaimKept

LEMMA ClaimAdvance ==
  ASSUME ClaimInv, TypeOK', NEW p \in Publishers, Advance(p)
  PROVE  ClaimInv'
<1> USE DEF Goto, Step, Loop, TypeOK, Holding
<1>1. TypeOK /\ now <= now
  BY DEF ClaimInv
<1>2. CASE Claim(p) \/ Cutover(p) \/ Finally(p)
  BY <1>2, ClaimTaken, ClaimReleased
<1>3. CASE Validate(p) \/ Stage(p) \/ Probe(p) \/ Deploy(p)
  BY <1>1, <1>3, ClaimKept DEF Validate, Stage, Probe, Deploy
<1>4. CASE GetRecord(p) \/ PutRecord(p)
  BY <1>1, <1>4, ClaimKept DEF GetRecord, PutRecord
<1>5. CASE Retire(p) \/ ListReleases(p) \/ Pruned(p) \/ Throw(p)
  BY <1>1, <1>5, ClaimKept DEF Retire, ListReleases, Pruned, Throw
<1>6. CASE (\E f \in Paths : Copy(p, f) \/ Upload(p, f))
           \/ (\E v \in Revisions : ListFiles(p, v))
           \/ (\E file \in Revisions \X Paths : Prune(p, file))
  BY <1>1, <1>6, ClaimKept DEF Copy, Upload, ListFiles, Prune
<1> QED
  BY <1>2, <1>3, <1>4, <1>5, <1>6 DEF Advance

LEMMA ClaimNext ==
  ASSUME ~Twins
  PROVE  ClaimInv /\ [Next]_vars => ClaimInv'
<1> SUFFICES ASSUME ClaimInv, [Next]_vars PROVE ClaimInv'
  OBVIOUS
<1>1. TypeOK /\ TypeOK' /\ now <= now /\ now \in Nat
  BY TypeOKNext DEF ClaimInv, TypeOK
<1>2. ASSUME NEW p \in Publishers, NEW r \in Revisions, Start(p, r) PROVE ClaimInv'
  <2>1. /\ rev' = [rev EXCEPT ![p] = r] /\ at' = [at EXCEPT ![p] = now] /\ UNCHANGED <<row, now>>
        /\ pc' = [pc EXCEPT ![p] = "claim"] /\ \A q \in Publishers : rev[q] # r
    BY <1>2 DEF Start, Step, Goto
  <2>2. Apart'
    BY <1>1, <2>1 DEF Apart, ClaimInv, TypeOK
  <2>3. ClaimExclusive'
    BY <1>1, <2>1 DEF ClaimExclusive, ClaimInv, Holding, TypeOK
  <2> QED
    BY <1>1, <2>2, <2>3 DEF ClaimInv
<1>3. CASE \E p \in Publishers : Advance(p)
  BY <1>1, <1>3, ClaimAdvance
<1>4. CASE \E p \in Publishers : Crash(p)
  BY <1>1, <1>4, ClaimReleased
<1>5. CASE \E action \in {"suspend", "restore"} : Moderate(action)
  <2>1. row'.claim = row.claim /\ row'.claimAt = row.claimAt /\ UNCHANGED <<now, locals>>
    <3>1. row \in SiteRow
      BY <1>1 DEF TypeOK, SiteRow
    <3> QED
      BY <1>5, <3>1 DEF Moderate, SiteRow
  <2> QED
    BY <1>1, <2>1, ClaimKept DEF locals, Holding
<1>6. CASE Tick
  <2>1. now <= now' /\ UNCHANGED <<row, locals>>
    BY <1>1, <1>6 DEF Tick
  <2>2. \A q \in Publishers : at[q] \in Nat /\ now' \in Nat /\ Ttl \in Nat
    BY <1>1, PublishAssumption DEF TypeOK
  <2>3. \A q \in Publishers : Holding(q)' => Holding(q)
    BY <1>1, <2>1, <2>2 DEF Holding, locals
  <2> QED
    BY <1>1, <2>1, <2>3, ClaimKept DEF locals
<1>7. CASE Redraft \/ UNCHANGED vars
  <2>1. UNCHANGED <<row, now, locals>>
    BY <1>7 DEF Redraft, vars
  <2> QED
    BY <1>1, <2>1, ClaimKept DEF locals, Holding
<1> QED
  BY <1>2, <1>3, <1>4, <1>5, <1>6, <1>7 DEF Next

LEMMA ClaimInvInit == Init => ClaimInv
BY TypeOKInit DEF Init, ClaimInv, Apart, ClaimExclusive, Holding

(***************************************************************************)
(* The claim excludes, for any number of publications of different         *)
(* revisions, stopped isolates and a failing finally block included: one   *)
(* between its claim and its cutover that has not outlived its claim is    *)
(* the one that holds it (SiteService.ts:368-379, 586).                    *)
(***************************************************************************)
THEOREM ClaimExcludes ==
  ASSUME ~Twins
  PROVE  Spec => []ClaimExclusive
<1>1. Init => ClaimInv
  BY ClaimInvInit
<1>2. ClaimInv /\ [Next]_vars => ClaimInv'
  BY ClaimNext
<1>3. ClaimInv => ClaimExclusive
  BY DEF ClaimInv
<1> QED
  BY <1>1, <1>2, <1>3, PTL DEF Spec
-----------------------------------------------------------------------------
(* The cutover and the worker.                                             *)

\* A publication reaches its cutover within the life of its claim.
InTime == \A p \in Publishers : pc[p] = "cutover" => now <= at[p] + Ttl

\* One publication at a time, however many there are in the end.
OneAtATime == \A p, q \in Publishers : p = q

\* A publication at its cutover still holds the claim.
CutoverHeld == \A p \in Publishers : pc[p] = "cutover" => row.claim = rev[p]

\* A cutover that holds the claim moves the row and the release table alike.
LEMMA AtomicNext ==
  ASSUME TypeOK, CutoverHeld, CutoverAtomic, [Next]_vars
  PROVE  CutoverAtomic'
<1>1. ASSUME NEW p \in Publishers, Cutover(p) PROVE CutoverAtomic'
  <2>1. rev[p] \in Revisions /\ row.claim = rev[p]
    BY <1>1 DEF TypeOK, CutoverHeld, Cutover
  <2>2. row'.active = rev[p]
    BY <1>1, <2>1 DEF Cutover
  <2>3. ASSUME NEW s \in Revisions, s # rev[p] PROVE releases'[s].status # "active"
    <3>1. releases[s] \in [status : {"none", "active", "superseded"}, createdAt : Nat]
      BY DEF TypeOK
    <3>2. releases'[s] = IF releases[s].status = "active"
                         THEN [releases[s] EXCEPT !.status = "superseded"] ELSE releases[s]
      BY <1>1, <2>1, <2>3 DEF Cutover
    <3> QED
      BY <3>1, <3>2
  <2>4. releases'[rev[p]].status = "active"
    BY <1>1, <2>1 DEF Cutover
  <2> QED
    BY <2>1, <2>2, <2>3, <2>4, PublishAssumption DEF CutoverAtomic
<1>2. CASE UNCHANGED <<releases, row>>
  BY <1>2 DEF CutoverAtomic
<1>3. CASE UNCHANGED releases /\ row'.active = row.active
  BY <1>3 DEF CutoverAtomic
<1>4. ASSUME NEW p \in Publishers, Claim(p) PROVE CutoverAtomic'
  <2>1. row'.active = row.active
    <3>1. row \in SiteRow
      BY DEF TypeOK, SiteRow
    <3> QED
      BY <1>4, <3>1 DEF Claim, SiteRow
  <2> QED
    BY <1>3, <1>4, <2>1 DEF Claim
<1>5. ASSUME NEW p \in Publishers, Finally(p) \/ Crash(p) PROVE CutoverAtomic'
  BY <1>3, <1>5, FinallyRow, RowKept DEF Finally, Crash
<1>6. CASE \E action \in {"suspend", "restore"} : Moderate(action)
  BY <1>3, <1>6, ModerateRow, RowKept DEF Moderate
<1>7. ASSUME NEW p \in Publishers, Advance(p) PROVE CutoverAtomic'
  BY <1>1, <1>2, <1>4, <1>5, <1>7 DEF Advance, Validate, Stage, Probe, Deploy, GetRecord,
     PutRecord, Retire, ListReleases, Pruned, Throw, Copy, Upload, ListFiles, Prune
<1>8. CASE (\E p \in Publishers, r \in Revisions : Start(p, r)) \/ Redraft \/ Tick
           \/ UNCHANGED vars
  BY <1>2, <1>8 DEF Start, Redraft, Tick, vars
<1> QED
  BY <1>5, <1>6, <1>7, <1>8 DEF Next

(***************************************************************************)
(* The cutover is atomic as long as no publication outlives its claim: the *)
(* revision the row serves and the active row of the release table are the *)
(* same, whoever else publishes other revisions, stops or fails            *)
(* (SiteService.ts:497-541, code-map.md:271).                              *)
(***************************************************************************)
THEOREM CutoverAtomicInTime ==
  ASSUME ~Twins
  PROVE  Spec /\ []InTime => []CutoverAtomic
<1>1. Init => ClaimInv /\ CutoverAtomic
  BY ClaimInvInit, PublishAssumption DEF Init, CutoverAtomic
<1>2. ClaimInv /\ CutoverAtomic /\ InTime /\ [Next]_vars => ClaimInv' /\ CutoverAtomic'
  <2> SUFFICES ASSUME ClaimInv, CutoverAtomic, InTime, [Next]_vars
               PROVE  ClaimInv' /\ CutoverAtomic'
    OBVIOUS
  <2>1. TypeOK /\ CutoverHeld
    BY DEF ClaimInv, ClaimExclusive, InTime, Holding, CutoverHeld
  <2> QED
    BY <2>1, ClaimNext, AtomicNext
<1> QED
  BY <1>1, <1>2, PTL DEF Spec

\* Alone, a publication holds its claim until its cutover, in time or not.
AloneInv ==
  /\ TypeOK /\ CutoverAtomic
  /\ \A p \in Publishers :
       pc[p] \in {"validate", "stage", "probe", "copy", "upload", "put", "cutover"} =>
         row.claim = rev[p]

LEMMA AloneNext ==
  ASSUME OneAtATime
  PROVE  AloneInv /\ [Next]_vars => AloneInv'
<1> SUFFICES ASSUME AloneInv, [Next]_vars PROVE AloneInv'
  OBVIOUS
<1> DEFINE held == {"validate", "stage", "probe", "copy", "upload", "put", "cutover"}
<1>1. TypeOK' /\ CutoverAtomic' /\ TypeOK /\ row \in SiteRow
  BY TypeOKNext, AtomicNext DEF AloneInv, CutoverHeld, TypeOK, SiteRow
<1> SUFFICES ASSUME NEW p \in Publishers, pc'[p] \in held PROVE row'.claim = rev'[p]
  BY <1>1 DEF AloneInv
<1>2. CASE row'.claim = row.claim /\ rev' = rev /\ pc[p] \in held
  BY <1>2 DEF AloneInv
<1>3. ASSUME NEW q \in Publishers, Advance(q) PROVE row'.claim = rev'[p]
  <2>1. q = p
    BY DEF OneAtATime
  <2> USE <2>1 DEF Goto, Step, Loop
  <2>2. CASE Claim(p)
    <3>1. pc'[p] # "idle"
      OBVIOUS
    <3>2. row' = [row EXCEPT !.claim = rev[p], !.claimAt = at[p]] /\ rev' = rev
      BY <1>1, <2>2, <3>1 DEF Claim, End, TypeOK
    <3> QED
      BY <1>1, <3>2 DEF SiteRow
  <2>3. CASE Validate(p) \/ Stage(p) \/ Probe(p) \/ Deploy(p) \/ GetRecord(p) \/ PutRecord(p)
    BY <1>1, <1>2, <2>3 DEF Validate, Stage, Probe, Deploy, GetRecord, PutRecord, TypeOK
  <2>4. CASE Cutover(p) \/ Retire(p) \/ ListReleases(p) \/ Pruned(p) \/ Throw(p) \/ Finally(p)
    BY <1>1, <2>4 DEF Cutover, Retire, ListReleases, Pruned, Throw, Finally, End, TypeOK
  <2>5. CASE (\E f \in Paths : Copy(p, f) \/ Upload(p, f))
             \/ (\E v \in Revisions : ListFiles(p, v))
             \/ (\E file \in Revisions \X Paths : Prune(p, file))
    BY <1>2, <2>5 DEF Copy, Upload, ListFiles, Prune
  <2> QED
    BY <1>3, <2>2, <2>3, <2>4, <2>5 DEF Advance
<1>4. CASE \E q \in Publishers : Crash(q)
  BY <1>1, <1>4 DEF OneAtATime, Crash, End, Goto, TypeOK
<1>5. CASE \E q \in Publishers, r \in Revisions : Start(q, r)
  BY <1>1, <1>5 DEF OneAtATime, Start, Step, Goto, TypeOK
<1>6. CASE \E action \in {"suspend", "restore"} : Moderate(action)
  <2>1. row'.claim = row.claim /\ UNCHANGED locals
    BY <1>1, <1>6 DEF Moderate, SiteRow
  <2> QED
    BY <1>2, <2>1 DEF locals
<1>7. CASE Redraft \/ Tick \/ UNCHANGED vars
  BY <1>2, <1>7 DEF Redraft, Tick, vars, locals
<1> QED
  BY <1>3, <1>4, <1>5, <1>6, <1>7 DEF Next

LEMMA AloneInit == Init => AloneInv
BY TypeOKInit, PublishAssumption DEF Init, AloneInv, CutoverAtomic

(***************************************************************************)
(* One publication at a time, the cutover is atomic however late it comes, *)
(* with isolates that stop, takeovers of expired claims and an operator    *)
(* (SiteService.ts:497-541).                                               *)
(***************************************************************************)
THEOREM CutoverAtomicAlone ==
  ASSUME OneAtATime
  PROVE  Spec => []CutoverAtomic
<1>1. Init => AloneInv
  BY AloneInit
<1>2. AloneInv /\ [Next]_vars => AloneInv'
  BY AloneNext
<1>3. AloneInv => CutoverAtomic
  BY DEF AloneInv
<1> QED
  BY <1>1, <1>2, <1>3, PTL DEF Spec

\* No other request takes a worker file away while a site is published.
WorkersStay == \A r \in Revisions : <<r, WorkerFile>> \notin Volatile

\* What was deployed for a publication stays deployed until its cutover, and
\* the cleanup that follows finds the row at the new worker.
WorkerInv ==
  /\ AloneInv /\ ActiveWorkerDeployed
  /\ \A r \in Revisions : HasWorker(r) => <<r, WorkerFile>> \in draft
  /\ row.worker # None => Serverless
  /\ \A p \in Publishers :
       /\ Serverless /\ pc[p] \in {"upload", "put", "cutover"} => scripts[rev[p]] = Wanted(rev[p])
       /\ pc[p] = "retire" => row.worker = WorkerName(rev[p])

\* Steps that deploy and retire no worker.
LEMMA WorkerKept ==
  ASSUME WorkerInv, AloneInv', row'.worker = row.worker, UNCHANGED <<scripts, draft>>,
         \A q \in Publishers : pc'[q] \in {"upload", "put", "cutover"} =>
           pc[q] \in {"upload", "put", "cutover"} /\ rev'[q] = rev[q],
         \A q \in Publishers : pc'[q] # "retire"
  PROVE  WorkerInv'
BY DEF WorkerInv, ActiveWorkerDeployed

LEMMA WorkerDeploy ==
  ASSUME OneAtATime, WorkerInv, AloneInv', NEW p \in Publishers, Deploy(p)
  PROVE  WorkerInv'
<1>1. /\ rev[p] \in Revisions /\ UNCHANGED <<row, rev, draft>>
      /\ \A q \in Publishers : q = p /\ pc'[q] = "upload"
  BY DEF OneAtATime, Deploy, Step, Goto, WorkerInv, AloneInv, TypeOK
<1>2. IF Serverless THEN scripts' = [scripts EXCEPT ![rev[p]] = Wanted(rev[p])]
                    ELSE scripts' = scripts
  BY <1>1 DEF Deploy, Wanted, WorkerInv
<1>3. Serverless => scripts'[rev[p]] = Wanted(rev[p])
                    /\ \A r \in Revisions : r # rev[p] => scripts'[r] = scripts[r]
  BY <1>1, <1>2 DEF WorkerInv, AloneInv, TypeOK
<1>4. row.worker \in Revisions \cup {None}
  BY DEF WorkerInv, AloneInv, TypeOK
<1>5. ActiveWorkerDeployed'
  BY <1>1, <1>2, <1>3, <1>4 DEF ActiveWorkerDeployed, WorkerInv, Wanted
<1> QED
  BY <1>1, <1>3, <1>5 DEF WorkerInv

LEMMA WorkerCutover ==
  ASSUME OneAtATime, WorkerInv, AloneInv', NEW p \in Publishers, Cutover(p)
  PROVE  WorkerInv'
<1>1. /\ rev[p] \in Revisions /\ row.claim = rev[p] /\ pc[p] = "cutover"
      /\ UNCHANGED <<scripts, draft, rev>>
      /\ \A q \in Publishers : q = p /\ pc'[q] \in {"retire", "finally"}
  BY DEF OneAtATime, Cutover, Goto, WorkerInv, AloneInv, TypeOK
<1>2. row'.worker = WorkerName(rev[p])
  BY <1>1 DEF Cutover
<1>3. Serverless => scripts[rev[p]] = Wanted(rev[p])
  BY <1>1 DEF WorkerInv
<1>4. ActiveWorkerDeployed' /\ (row'.worker # None => Serverless)
  BY <1>1, <1>2, <1>3 DEF ActiveWorkerDeployed, WorkerName, Wanted
<1> QED
  BY <1>1, <1>2, <1>4 DEF WorkerInv

LEMMA WorkerRetire ==
  ASSUME OneAtATime, WorkerInv, AloneInv', NEW p \in Publishers, Retire(p)
  PROVE  WorkerInv'
<1>1. /\ UNCHANGED <<row, rev, draft>> /\ row.worker = WorkerName(rev[p])
      /\ \A q \in Publishers : pc'[q] = "list"
  BY DEF OneAtATime, Retire, Step, Goto, WorkerInv, AloneInv, TypeOK
<1>2. row.worker # None => row.worker = rev[p] /\ scripts'[rev[p]] = scripts[rev[p]]
  <2>1. row.worker # None => row.worker = rev[p] /\ rev[p] \in Revisions
    BY <1>1 DEF WorkerName, WorkerInv, AloneInv, TypeOK
  <2> QED
    BY <2>1 DEF Retire
<1> QED
  BY <1>1, <1>2 DEF WorkerInv, ActiveWorkerDeployed

LEMMA WorkerNext ==
  ASSUME OneAtATime, WorkersStay
  PROVE  WorkerInv /\ [Next]_vars => WorkerInv'
<1> SUFFICES ASSUME WorkerInv, [Next]_vars PROVE WorkerInv'
  OBVIOUS
<1>1. AloneInv /\ AloneInv' /\ TypeOK /\ row \in SiteRow
  BY AloneNext DEF WorkerInv, AloneInv, TypeOK, SiteRow
<1>2. CASE \E p \in Publishers, r \in Revisions : Start(p, r)
  BY <1>1, <1>2, WorkerKept DEF OneAtATime, Start, Step, Goto, TypeOK
<1>3. ASSUME NEW p \in Publishers, Advance(p) PROVE WorkerInv'
  <2> USE <1>1 DEF OneAtATime, Goto, Step, Loop, TypeOK
  <2>1. CASE Deploy(p) \/ Cutover(p) \/ Retire(p)
    BY <2>1, WorkerDeploy, WorkerCutover, WorkerRetire
  <2>2. CASE Claim(p)
    <3>1. row'.worker = row.worker /\ \A q \in Publishers : pc'[q] \in {"validate", "idle"}
      BY <2>2 DEF Claim, End, SiteRow
    <3> QED
      BY <2>2, <3>1, WorkerKept DEF Claim
  <2>3. CASE Validate(p) \/ Stage(p) \/ Probe(p)
    BY <2>3, WorkerKept DEF Validate, Stage, Probe
  <2>4. CASE GetRecord(p) \/ PutRecord(p)
    BY <2>4, WorkerKept DEF GetRecord, PutRecord
  <2>5. CASE ListReleases(p) \/ Pruned(p) \/ Throw(p)
    BY <2>5, WorkerKept DEF ListReleases, Pruned, Throw
  <2>6. CASE Finally(p)
    <3>1. row'.worker = row.worker /\ \A q \in Publishers : pc'[q] = "idle"
      BY <2>6, FinallyRow, RowKept DEF End
    <3> QED
      BY <2>6, <3>1, WorkerKept DEF Finally
  <2>7. CASE (\E f \in Paths : Copy(p, f) \/ Upload(p, f))
             \/ (\E v \in Revisions : ListFiles(p, v))
             \/ (\E file \in Revisions \X Paths : Prune(p, file))
    BY <2>7, WorkerKept DEF Copy, Upload, ListFiles, Prune
  <2> QED
    BY <1>3, <2>1, <2>2, <2>3, <2>4, <2>5, <2>6, <2>7 DEF Advance
<1>4. CASE \E p \in Publishers : Crash(p)
  BY <1>1, <1>4, WorkerKept DEF OneAtATime, Crash, End, Goto, TypeOK
<1>5. CASE (\E action \in {"suspend", "restore"} : Moderate(action)) \/ Tick \/ UNCHANGED vars
  <2>1. row'.worker = row.worker
    BY <1>1, <1>5, ModerateRow, RowKept DEF Tick, vars
  <2>2. UNCHANGED <<scripts, draft, locals>>
    BY <1>5 DEF Moderate, Tick, vars
  <2> QED
    BY <1>1, <2>1, <2>2 DEF locals, WorkerInv, ActiveWorkerDeployed
<1>6. CASE Redraft
  <2>1. UNCHANGED <<row, scripts, locals>>
        /\ \A r \in Revisions : <<r, WorkerFile>> \in draft => <<r, WorkerFile>> \in draft'
    BY <1>6 DEF Redraft, WorkersStay
  <2> QED
    BY <1>1, <2>1 DEF locals, WorkerInv, ActiveWorkerDeployed
<1> QED
  BY <1>2, <1>3, <1>4, <1>5, <1>6 DEF Next

(***************************************************************************)
(* One publication at a time over drafts that keep their worker files, the *)
(* worker the site row routes to is deployed and is the bundle's own: only *)
(* superseded workers are cleaned up, whatever failed, stopped or was      *)
(* published again before (SiteService.ts:448-463, 551-554).               *)
(***************************************************************************)
THEOREM ActiveWorkerStays ==
  ASSUME OneAtATime, WorkersStay
  PROVE  Spec => []ActiveWorkerDeployed
<1>1. Init => WorkerInv
  BY AloneInit, PublishAssumption DEF Init, WorkerInv, ActiveWorkerDeployed, BundleOf, HasWorker
<1>2. WorkerInv /\ [Next]_vars => WorkerInv'
  BY WorkerNext
<1>3. WorkerInv => ActiveWorkerDeployed
  BY DEF WorkerInv
<1> QED
  BY <1>1, <1>2, <1>3, PTL DEF Spec

-----------------------------------------------------------------------------
(* What readers see: the refinement of PublishedSite.                      *)

\* The instance has its own copy of Cardinality.
LEMMA SameCardinality ==
  ASSUME NEW S
  PROVE  Published!Cardinality(S) = Cardinality(S)
BY DEF Published!Cardinality, Cardinality

Preparing == {"claim", "validate", "stage", "probe", "copy", "upload", "put", "cutover"}

\* A publication that was not cut over started after every release.
LateInv ==
  /\ AloneInv /\ KeepInv
  /\ \A p \in Publishers : pc[p] \in Preparing =>
       \A r \in Released : releases[r].createdAt < at[p]

LEMMA LateNext ==
  ASSUME OneAtATime
  PROVE  LateInv /\ [Next]_vars => LateInv'
<1> SUFFICES ASSUME LateInv, [Next]_vars PROVE LateInv'
  OBVIOUS
<1>1. AloneInv' /\ KeepInv' /\ TypeOK
  BY AloneNext, KeepNext DEF LateInv, KeepInv
<1>2. ASSUME NEW p \in Publishers, NEW r \in Revisions, Start(p, r) PROVE LateInv'
  <2>1. /\ UNCHANGED releases /\ \A q \in Publishers : q = p
        /\ at'[p] = now /\ \A s \in Released : releases[s].createdAt < now
    BY <1>1, <1>2 DEF OneAtATime, Start, TypeOK, Released
  <2>2. Released' = Released
    BY <2>1 DEF Released
  <2> QED
    BY <1>1, <2>1, <2>2 DEF LateInv
<1>3. ASSUME UNCHANGED releases,
             \A q \in Publishers : pc'[q] \in Preparing => pc[q] \in Preparing /\ at'[q] = at[q]
      PROVE  LateInv'
  <2>1. Released' = Released
    BY <1>3 DEF Released
  <2> QED
    BY <1>1, <1>3, <2>1 DEF LateInv
<1>4. ASSUME NEW p \in Publishers, Advance(p) PROVE LateInv'
  <2> USE <1>1 DEF OneAtATime, Goto, Step, TypeOK, Preparing
  <2>1. CASE Cutover(p)
    <3>1. \A q \in Publishers : pc'[q] \in {"retire", "finally"}
      BY <2>1 DEF Cutover
    <3> QED
      BY <1>1, <3>1 DEF LateInv
  <2>2. CASE Claim(p) \/ Finally(p)
    BY <1>3, <2>2 DEF Claim, Finally, End
  <2>3. CASE Validate(p) \/ Stage(p) \/ Probe(p) \/ Deploy(p)
    BY <1>3, <2>3 DEF Validate, Stage, Probe, Deploy
  <2>4. CASE GetRecord(p) \/ PutRecord(p) \/ Retire(p) \/ ListReleases(p) \/ Pruned(p) \/ Throw(p)
    BY <1>3, <2>4 DEF GetRecord, PutRecord, Retire, ListReleases, Pruned, Throw
  <2>5. CASE (\E f \in Paths : Copy(p, f) \/ Upload(p, f))
             \/ (\E v \in Revisions : ListFiles(p, v))
             \/ (\E file \in Revisions \X Paths : Prune(p, file))
    BY <1>3, <2>5 DEF Copy, Upload, ListFiles, Prune
  <2> QED
    BY <1>4, <2>1, <2>2, <2>3, <2>4, <2>5 DEF Advance
<1>5. ASSUME NEW p \in Publishers, Crash(p) PROVE LateInv'
  BY <1>1, <1>3, <1>5 DEF OneAtATime, Crash, End, Goto, TypeOK, Preparing
<1>6. CASE (\E action \in {"suspend", "restore"} : Moderate(action)) \/ Redraft \/ Tick
           \/ UNCHANGED vars
  BY <1>3, <1>6 DEF Moderate, Redraft, Tick, vars, locals
<1> QED
  BY <1>2, <1>4, <1>5, <1>6 DEF Next

LEMMA LateInit == Init => LateInv
<1> SUFFICES ASSUME Init PROVE LateInv
  OBVIOUS
<1>1. Released = {}
  BY DEF Init, Released
<1>2. KeepInv
  BY <1>1, TypeOKInit DEF Init, KeepInv, KeptReleasesComplete, Kept, VictimsOld, UploadsWhole
<1> QED
  BY <1>1, <1>2, AloneInit DEF Init, LateInv

\* A revision that is released for the first time is the newest release.
LEMMA CutoverNewest ==
  ASSUME LateInv, NEW p \in Publishers, Cutover(p), NEW v \in Revisions, v = rev[p],
         v \notin Released
  PROVE  Above(v)' = {}
<1>1. TypeOK /\ pc[p] = "cutover" /\ rev' = rev
  BY DEF Cutover, LateInv, AloneInv
<1>2. ReleasesLast /\ Released' = Released \cup {v} /\ releases'[v].createdAt = at[p]
  BY <1>1, CutoverTable
<1> SUFFICES ASSUME NEW s \in Released
             PROVE  ~(releases'[s].createdAt >= releases'[v].createdAt)
  BY <1>1, <1>2 DEF Above
<1>3. releases'[s].createdAt = releases[s].createdAt /\ s \in Revisions
  BY <1>2 DEF ReleasesLast, Released
<1>4. releases[s].createdAt < at[p] /\ releases[s].createdAt \in Nat /\ at[p] \in Nat
  BY <1>1, <1>3 DEF LateInv, Preparing, TypeOK
<1> QED
  BY <1>2, <1>3, <1>4

\* What a publication reads back is stored, whether it was released before or not.
SiteInv ==
  /\ LateInv /\ WorkerInv
  /\ \A p \in Publishers : pc[p] \in {"upload", "put", "cutover"} =>
       {rev[p]} \X (FilesOf[rev[p]] \ todo[p]) \subseteq release

LEMMA SiteInvKept ==
  ASSUME SiteInv, WorkerInv', LateInv', release \subseteq release',
         \A q \in Publishers : pc'[q] \in {"upload", "put", "cutover"} =>
           /\ rev'[q] = rev[q]
           /\ {rev[q]} \X (FilesOf[rev[q]] \ todo'[q]) \subseteq release
  PROVE  SiteInv'
BY DEF SiteInv

LEMMA SiteInvNext ==
  ASSUME OneAtATime, WorkersStay
  PROVE  SiteInv /\ [Next]_vars => SiteInv'
<1> SUFFICES ASSUME SiteInv, [Next]_vars PROVE SiteInv'
  OBVIOUS
<1>1. WorkerInv' /\ LateInv' /\ TypeOK
  BY WorkerNext, LateNext DEF SiteInv, LateInv, KeepInv
<1>2. ASSUME NEW p \in Publishers,
             (\E r \in Revisions : Start(p, r)) \/ Claim(p) \/ Finally(p) \/ Crash(p)
      PROVE  SiteInv'
  <2>1. \A q \in Publishers : pc'[q] \in {"idle", "claim", "validate"}
    BY <1>1, <1>2 DEF OneAtATime, Start, Step, Claim, Finally, Crash, End, Goto, TypeOK
  <2> QED
    BY <1>1, <2>1 DEF SiteInv
<1>3. ASSUME NEW p \in Publishers, Advance(p) PROVE SiteInv'
  <2> USE <1>1 DEF OneAtATime, Goto, Step, Loop, TypeOK
  <2>1. CASE Validate(p) \/ Stage(p) \/ Probe(p)
    BY <2>1, SiteInvKept DEF Validate, Stage, Probe
  <2>2. CASE Deploy(p)
    BY <2>2, SiteInvKept DEF Deploy
  <2>3. CASE GetRecord(p) \/ PutRecord(p)
    BY <2>3, SiteInvKept DEF GetRecord, PutRecord, SiteInv
  <2>4. CASE Cutover(p) \/ Retire(p) \/ ListReleases(p) \/ Pruned(p) \/ Throw(p)
    <3>1. \A q \in Publishers : pc'[q] \in {"retire", "list", "prune", "finally"}
      BY <2>4 DEF Cutover, Retire, ListReleases, Pruned, Throw
    <3> QED
      BY <1>1, <3>1 DEF SiteInv
  <2>5. ASSUME NEW f \in Paths, Copy(p, f) PROVE SiteInv'
    BY <2>5, SiteInvKept DEF Copy
  <2>6. ASSUME NEW f \in Paths, Upload(p, f) PROVE SiteInv'
    <3>1. /\ pc[p] = "upload" /\ todo'[p] = todo[p] \ {f} /\ <<rev[p], f>> \in release
          /\ UNCHANGED <<releases, release, pc, rev, at>>
      BY <2>6 DEF Upload
    <3>2. {rev[p]} \X (FilesOf[rev[p]] \ todo'[p]) \subseteq release
      BY <3>1 DEF SiteInv
    <3> QED
      BY <3>1, <3>2, SiteInvKept
  <2>7. CASE (\E v \in Revisions : ListFiles(p, v))
             \/ (\E file \in Revisions \X Paths : Prune(p, file))
    <3>1. UNCHANGED pc /\ \A q \in Publishers : pc[q] = "prune"
      BY <2>7 DEF ListFiles, Prune
    <3> QED
      BY <1>1, <3>1 DEF SiteInv
  <2> QED
    BY <1>2, <1>3, <2>1, <2>2, <2>3, <2>4, <2>5, <2>6, <2>7 DEF Advance
<1>4. CASE (\E action \in {"suspend", "restore"} : Moderate(action)) \/ Redraft \/ Tick
           \/ UNCHANGED vars
  <2>1. UNCHANGED <<release, locals>>
    BY <1>4 DEF Moderate, Redraft, Tick, vars, locals
  <2> QED
    BY <1>1, <2>1, SiteInvKept DEF locals, SiteInv
<1> QED
  BY <1>2, <1>3, <1>4 DEF Next

\* Steps that no reader sees.
LEMMA Unseen ==
  ASSUME UNCHANGED <<releases, release, scripts, row.status, row.active, row.worker>>
  PROVE  UNCHANGED Published!siteVars
<1>1. Released' = Released /\ (\A r : Above(r)' = Above(r))
  BY DEF Released, Above
<1> QED
  BY <1>1 DEF Published!siteVars

LEMMA CutoverActivates ==
  ASSUME OneAtATime, SiteInv, NEW p \in Publishers, Cutover(p), NEW v \in Revisions, v = rev[p]
  PROVE  Published!Activate(v)
<1>1. /\ TypeOK /\ row.claim = v /\ todo[p] = {}
      /\ UNCHANGED <<release, scripts, rev>> /\ pc[p] = "cutover"
  BY DEF Cutover, SiteInv, LateInv, AloneInv, KeepInv, UploadsWhole, TypeOK
<1>2. row' = [active |-> v, worker |-> WorkerName(v), claim |-> None, claimAt |-> 0,
              status |-> "active", cid |-> cid[p]]
  BY <1>1 DEF Cutover
<1>3. BundleOf(v) \subseteq release /\ (Serverless => scripts[v] = Wanted(v))
      /\ \A r \in Released : releases[r].createdAt < at[p]
  BY <1>1 DEF SiteInv, LateInv, WorkerInv, BundleOf, Preparing
<1>4. ReleasesLast /\ Released' = Released \cup {v}
      /\ (v \notin Released => releases'[v].createdAt = at[p])
  BY <1>1, CutoverTable
<1>5. \A r \in Revisions : releases[r].createdAt \in Nat /\ at[p] \in Nat
  BY <1>1 DEF TypeOK
<1>6. ASSUME NEW r \in Released
      PROVE  r \in Released' /\ Above(r)' = IF v \in Released THEN Above(r) ELSE Above(r) \cup {v}
  <2>1. \A s \in Released : releases'[s].createdAt = releases[s].createdAt
    BY <1>4 DEF ReleasesLast, Released
  <2>2. CASE v \in Released
    BY <1>4, <2>1, <2>2 DEF Above
  <2>3. CASE v \notin Released
    <3>1. releases'[v].createdAt >= releases'[r].createdAt /\ r # v
      BY <1>3, <1>4, <1>5, <2>1, <2>3 DEF Released
    <3> QED
      BY <1>4, <2>1, <2>3, <3>1 DEF Above
  <2> QED
    BY <1>4, <2>2, <2>3
<1>7. v \notin Released => Above(v)' = {}
  BY CutoverNewest DEF SiteInv
<1>8. [r \in Revisions |-> IF r \in Released THEN Above(r) ELSE {}]' =
        IF v \in Released THEN [r \in Revisions |-> IF r \in Released THEN Above(r) ELSE {}]
        ELSE [r \in Revisions |-> IF r \in Released THEN Above(r) \cup {v} ELSE {}]
  BY <1>1, <1>4, <1>6, <1>7
<1>9. [status |-> row'.status, active |-> row'.active, worker |-> row'.worker] =
        [status |-> "active", active |-> v, worker |-> IF Serverless THEN v ELSE None]
  BY <1>2 DEF WorkerName
<1> QED
  BY <1>1, <1>3, <1>4, <1>8, <1>9 DEF Published!Activate

LEMMA CopyStores ==
  ASSUME SiteInv, NEW p \in Publishers, NEW f \in Paths, Copy(p, f),
         NEW v \in Revisions, v = rev[p]
  PROVE  Published!StoreFiles(v) \/ UNCHANGED Published!siteVars
<1>1. /\ UNCHANGED <<releases, scripts, row>>
      /\ release' = release \/ release' = release \cup {<<v, f>>}
  BY DEF Copy
<1>2. Released' = Released /\ (\A r : Above(r)' = Above(r))
  BY <1>1 DEF Released, Above
<1>3. CASE BundleOf(v) \subseteq release'
  BY <1>1, <1>2, <1>3 DEF Published!StoreFiles, Published!siteVars, BundleOf
<1>4. CASE ~(BundleOf(v) \subseteq release')
  BY <1>1, <1>2, <1>4 DEF Published!siteVars, BundleOf
<1> QED
  BY <1>3, <1>4

LEMMA DeployDeploys ==
  ASSUME OneAtATime, SiteInv, NEW p \in Publishers, Deploy(p), NEW v \in Revisions, v = rev[p]
  PROVE  Published!DeployWorker(v) \/ UNCHANGED Published!siteVars
<1>1. UNCHANGED <<releases, release, row>>
      /\ scripts \in [Revisions -> {None, "stub", "bundle"}]
  BY DEF Deploy, Step, SiteInv, LateInv, KeepInv, TypeOK
<1>2. Released' = Released /\ (\A r : Above(r)' = Above(r))
  BY <1>1 DEF Released, Above
<1>3. CASE Serverless
  <2>1. scripts' = [scripts EXCEPT ![v] = Wanted(v)]
    BY <1>1, <1>3 DEF Deploy, Wanted, SiteInv, WorkerInv
  <2>2. \A r \in Revisions : scripts'[r] = IF r = v THEN Wanted(r) ELSE scripts[r]
    BY <1>1, <2>1
  <2> QED
    BY <1>1, <1>2, <1>3, <2>2 DEF Published!DeployWorker
<1>4. CASE ~Serverless
  BY <1>1, <1>4, Unseen DEF Deploy
<1> QED
  BY <1>3, <1>4

LEMMA RetireRetires ==
  ASSUME OneAtATime, SiteInv, NEW p \in Publishers, Retire(p)
  PROVE  (\E r \in Revisions : Published!RetireWorker(r)) \/ UNCHANGED Published!siteVars
<1>1. UNCHANGED <<releases, release, row>> /\ rev[p] \in Revisions
      /\ row.worker = WorkerName(rev[p]) /\ stale[p] \in Revisions \cup {None}
      /\ scripts \in [Revisions -> {None, "stub", "bundle"}]
  BY DEF Retire, Step, SiteInv, LateInv, WorkerInv, KeepInv, TypeOK
<1>2. Released' = Released /\ (\A r : Above(r)' = Above(r))
  BY <1>1 DEF Released, Above
<1> DEFINE gone == IF Serverless THEN {stale[p]} \ {rev[p]} ELSE {}
<1>3. scripts' = scripts \/ scripts' = [r \in Revisions |-> IF r \in gone THEN None ELSE scripts[r]]
  BY DEF Retire
<1>4. CASE scripts' = scripts \/ gone = {} \/ stale[p] = None
  <2>1. scripts' = scripts
    BY <1>1, <1>3, <1>4, PublishAssumption
  <2> QED
    BY <1>1, <2>1, Unseen
<1>5. CASE scripts' # scripts /\ gone # {} /\ stale[p] # None
  <2>1. stale[p] \in Revisions /\ stale[p] # row.worker
        /\ \A r \in Revisions : scripts'[r] = IF r = stale[p] THEN None ELSE scripts[r]
    BY <1>1, <1>3, <1>5 DEF WorkerName
  <2>2. \A r : None # Wanted(r)
    BY PublishAssumption DEF Wanted
  <2> QED
    BY <1>1, <1>2, <2>1, <2>2 DEF Published!RetireWorker
<1> QED
  BY <1>4, <1>5

LEMMA PrunePrunes ==
  ASSUME SiteInv, NEW p \in Publishers, NEW file \in Revisions \X Paths, Prune(p, file)
  PROVE  Published!PruneFiles(file[1]) \/ UNCHANGED Published!siteVars
<1>1. UNCHANGED <<releases, scripts, row>>
      /\ (release' = release \/ release' = release \ {file})
  BY DEF Prune
<1>2. Released' = Released /\ (\A r : Above(r)' = Above(r))
  BY <1>1 DEF Released, Above
<1>3. file[1] \in Released /\ Cardinality(Above(file[1])) >= Keep /\ file[1] \in Revisions
  BY DEF Prune, SiteInv, LateInv, KeepInv, VictimsOld, Old, File
<1>4. file[1] \in Released /\ Published!Followed(file[1])
  BY <1>3, SameCardinality DEF Published!Followed
<1>5. CASE release' = release \ {file} /\ file \in BundleOf(file[1])
  BY <1>1, <1>2, <1>4, <1>5 DEF Published!PruneFiles, BundleOf
<1>6. CASE release' = release \/ file \notin BundleOf(file[1])
  <2>1. \A r \in Revisions : BundleOf(r) \subseteq release' <=> BundleOf(r) \subseteq release
    BY <1>1, <1>6 DEF BundleOf
  <2> QED
    BY <1>1, <1>2, <2>1 DEF Published!siteVars, BundleOf
<1> QED
  BY <1>1, <1>5, <1>6

LEMMA ModerateSuspends ==
  ASSUME NEW action \in {"suspend", "restore"}, Moderate(action), TypeOK
  PROVE  \E status \in {"active", "suspended"} : Published!Suspend(status)
<1> DEFINE status == IF action = "suspend" THEN "suspended" ELSE "active"
<1>1. UNCHANGED <<releases, release, scripts>> /\ row' = [row EXCEPT !.status = status]
  BY DEF Moderate
<1>2. Released' = Released /\ (\A r : Above(r)' = Above(r))
  BY <1>1 DEF Released, Above
<1>3. [status |-> row'.status, active |-> row'.active, worker |-> row'.worker] =
        [[status |-> row.status, active |-> row.active, worker |-> row.worker]
           EXCEPT !.status = status]
  BY <1>1 DEF TypeOK
<1> QED
  BY <1>1, <1>2, <1>3 DEF Published!Suspend

LEMMA PublishStep ==
  ASSUME OneAtATime, SiteInv, [Next]_vars
  PROVE  [Published!SiteNext]_Published!siteVars
<1>1. TypeOK /\ row \in SiteRow
  BY DEF SiteInv, LateInv, KeepInv, TypeOK, SiteRow
<1>2. ASSUME NEW p \in Publishers, Advance(p)
      PROVE  [Published!SiteNext]_Published!siteVars
  <2>1. CASE Cutover(p)
    <3>1. PICK v \in Revisions : v = rev[p]
      BY <1>1, <2>1 DEF Cutover, TypeOK
    <3> QED
      BY <2>1, <3>1, CutoverActivates DEF Published!SiteNext
  <2>2. CASE Deploy(p)
    <3>1. PICK v \in Revisions : v = rev[p]
      BY <1>1, <2>2 DEF Deploy, Step, TypeOK
    <3> QED
      BY <2>2, <3>1, DeployDeploys DEF Published!SiteNext
  <2>3. CASE Retire(p)
    BY <2>3, RetireRetires DEF Published!SiteNext
  <2>4. ASSUME NEW f \in Paths, Copy(p, f)
        PROVE  [Published!SiteNext]_Published!siteVars
    <3>1. PICK v \in Revisions : v = rev[p]
      BY <1>1, <2>4 DEF Copy, TypeOK
    <3> QED
      BY <2>4, <3>1, CopyStores DEF Published!SiteNext
  <2>5. ASSUME NEW file \in Revisions \X Paths, Prune(p, file)
        PROVE  [Published!SiteNext]_Published!siteVars
    BY <2>5, PrunePrunes DEF Published!SiteNext
  <2>6. CASE Claim(p) \/ Finally(p)
    <3>1. UNCHANGED <<row.status, row.active, row.worker, releases, release, scripts>>
      BY <1>1, <2>6, FinallyRow, RowKept DEF Claim, Finally, SiteRow
    <3> QED
      BY <3>1, Unseen
  <2>7. CASE Validate(p) \/ Stage(p) \/ Probe(p) \/ GetRecord(p) \/ PutRecord(p)
             \/ ListReleases(p) \/ Pruned(p) \/ Throw(p)
    BY <2>7, Unseen DEF Validate, Stage, Probe, GetRecord, PutRecord, ListReleases, Pruned, Throw
  <2>8. CASE (\E f \in Paths : Upload(p, f)) \/ (\E v \in Revisions : ListFiles(p, v))
    BY <2>8, Unseen DEF Upload, ListFiles
  <2> QED
    BY <1>2, <2>1, <2>2, <2>3, <2>4, <2>5, <2>6, <2>7, <2>8 DEF Advance
<1>3. ASSUME NEW action \in {"suspend", "restore"}, Moderate(action)
      PROVE  [Published!SiteNext]_Published!siteVars
  BY <1>1, <1>3, ModerateSuspends DEF Published!SiteNext
<1>4. CASE (\E p \in Publishers, r \in Revisions : Start(p, r))
           \/ (\E p \in Publishers : Crash(p)) \/ Redraft \/ Tick \/ UNCHANGED vars
  BY <1>4, Unseen DEF Start, Crash, Redraft, Tick, vars
<1> QED
  BY <1>2, <1>3, <1>4 DEF Next

LEMMA PublishStarts == Init => SiteInv /\ Published!SiteInit
<1> SUFFICES ASSUME Init PROVE SiteInv /\ Published!SiteInit
  OBVIOUS
<1>1. WorkerInv
  BY AloneInit, PublishAssumption DEF Init, WorkerInv, ActiveWorkerDeployed, BundleOf, HasWorker
<1>2. Released = {}
  BY DEF Init, Released
<1>3. LateInv
  BY LateInit
<1>4. \A r \in Revisions : ~(BundleOf(r) \subseteq release)
  <2> SUFFICES ASSUME NEW r \in Revisions PROVE \E file : file \in BundleOf(r)
    BY DEF Init
  <2>1. PICK f : f \in FilesOf[r]
    BY PublishAssumption
  <2>2. <<r, f>> \in BundleOf(r)
    BY <2>1 DEF BundleOf
  <2> QED
    BY <2>2
<1>5. \A r \in Revisions : scripts[r] # Wanted(r)
  BY PublishAssumption DEF Init, Wanted
<1> QED
  BY <1>1, <1>2, <1>3, <1>4, <1>5 DEF Init, SiteInv, Published!SiteInit

(***************************************************************************)
(* One publication at a time over drafts that keep their worker files,     *)
(* publishing does to readers what PublishedSite allows and no more: a     *)
(* revision is served when its files are stored and its worker deployed,   *)
(* a release loses no file before Keep others have followed it and no      *)
(* worker that is served is retired, whatever fails, stops, is taken over  *)
(* or is moderated (SiteService.ts:438-463, 527-577).                      *)
(***************************************************************************)
THEOREM PublishImplementsSite ==
  ASSUME OneAtATime, WorkersStay
  PROVE  Spec => ImplementsPublishedSite
<1>1. Init => SiteInv /\ Published!SiteInit
  BY PublishStarts
<1>2. SiteInv /\ [Next]_vars => SiteInv'
  BY SiteInvNext
<1>3. SiteInv /\ [Next]_vars => [Published!SiteNext]_Published!siteVars
  BY PublishStep
<1> QED
  BY <1>1, <1>2, <1>3, PTL DEF Spec, ImplementsPublishedSite, Published!SiteSpec

-----------------------------------------------------------------------------
(* What makes the claims hold that the runs refute.                        *)

\* No revision is published a second time.
OnlyNew == \A p \in Publishers : pc[p] = "cutover" => rev[p] \notin Released

\* The active revision is the newest release.
NewestInv ==
  /\ LateInv
  /\ row.active # None => row.active \in Released /\ Above(row.active) = {}

LEMMA NewestNext ==
  ASSUME OneAtATime
  PROVE  NewestInv /\ OnlyNew /\ [Next]_vars => NewestInv'
<1> SUFFICES ASSUME NewestInv, OnlyNew, [Next]_vars PROVE NewestInv'
  OBVIOUS
<1>1. LateInv' /\ TypeOK /\ row \in SiteRow
  BY LateNext DEF NewestInv, LateInv, AloneInv, TypeOK, SiteRow
<1>2. ASSUME NEW p \in Publishers, Cutover(p) PROVE NewestInv'
  <2>1. PICK v \in Revisions : v = rev[p]
    BY <1>1, <1>2 DEF Cutover, TypeOK
  <2>2. row'.active = v
    <3>1. row.claim = rev[p]
      BY <1>2 DEF Cutover, NewestInv, LateInv, AloneInv
    <3> QED
      BY <1>2, <2>1, <3>1 DEF Cutover
  <2>3. v \notin Released
    BY <1>2, <2>1 DEF OnlyNew, Cutover
  <2>4. v \in Released' /\ Above(v)' = {}
    BY <1>1, <1>2, <2>1, <2>3, CutoverTable, CutoverNewest DEF NewestInv
  <2> QED
    BY <1>1, <2>2, <2>4 DEF NewestInv
<1>3. ASSUME row'.active = row.active, UNCHANGED releases PROVE NewestInv'
  <2>1. Released' = Released /\ \A r : Above(r)' = Above(r)
    BY <1>3 DEF Released, Above
  <2> QED
    BY <1>1, <1>3, <2>1 DEF NewestInv
<1>4. ASSUME NEW p \in Publishers, Claim(p) PROVE NewestInv'
  BY <1>1, <1>3, <1>4 DEF Claim, SiteRow
<1>5. ASSUME NEW p \in Publishers, Finally(p) \/ Crash(p) PROVE NewestInv'
  BY <1>1, <1>3, <1>5, FinallyRow, RowKept DEF Finally, Crash, SiteRow
<1>6. CASE \E action \in {"suspend", "restore"} : Moderate(action)
  BY <1>3, <1>6, ModerateRow, RowKept DEF Moderate
<1>7. ASSUME NEW p \in Publishers, Advance(p) PROVE NewestInv'
  BY <1>2, <1>3, <1>4, <1>5, <1>7 DEF Advance, Validate, Stage, Probe, Deploy, GetRecord,
     PutRecord, Retire, ListReleases, Pruned, Throw, Copy, Upload, ListFiles, Prune
<1>8. CASE (\E p \in Publishers, r \in Revisions : Start(p, r)) \/ Redraft \/ Tick
           \/ UNCHANGED vars
  BY <1>3, <1>8 DEF Start, Redraft, Tick, vars
<1> QED
  BY <1>5, <1>6, <1>7, <1>8 DEF Next

(***************************************************************************)
(* The public page finds its files as long as publications neither overlap *)
(* nor publish a revision again: only a release that kept its old place in *)
(* the table can be pruned while it is served (SiteService.ts:438-446,     *)
(* 540-566, codex-acceptance-checklist.md:53-57).                          *)
(***************************************************************************)
THEOREM ActiveReleaseStays ==
  ASSUME OneAtATime
  PROVE  Spec /\ []OnlyNew => []ActiveReleaseServed
<1>1. Init => NewestInv
  BY LateInit DEF Init, NewestInv
<1>2. NewestInv /\ OnlyNew /\ [Next]_vars => NewestInv'
  BY NewestNext
<1>3. NewestInv => ActiveReleaseServed
  <2> SUFFICES ASSUME NewestInv, row.active # None PROVE BundleOf(row.active) \subseteq release
    BY DEF ActiveReleaseServed
  <2>1. row.active \in Revisions /\ row.active \in Released /\ Above(row.active) = {}
    BY DEF NewestInv, Released
  <2>2. Kept(row.active)
    BY <2>1, FS_EmptySet, PublishAssumption DEF Kept
  <2> QED
    BY <2>1, <2>2 DEF NewestInv, LateInv, KeepInv, KeptReleasesComplete
<1> QED
  BY <1>1, <1>2, <1>3, PTL DEF Spec

\* No publication reaches its cutover while the site is suspended.
NotWhileSuspended == \A p \in Publishers : pc[p] = "cutover" => row.status = "active"

(***************************************************************************)
(* The audit log tells the status of a site as long as no publication cuts *)
(* over while the site is suspended: nothing but that lifts a suspension,  *)
(* whoever publishes, stops or fails (SiteService.ts:527-549, 593-609).    *)
(***************************************************************************)
THEOREM SuspensionAudited == Spec /\ []NotWhileSuspended => []StatusAudited
<1>1. TypeOK /\ StatusAudited /\ NotWhileSuspended /\ [Next]_vars => StatusAudited'
  <2> SUFFICES ASSUME TypeOK, StatusAudited, NotWhileSuspended, [Next]_vars
               PROVE  StatusAudited'
    OBVIOUS
  <2>1. row \in SiteRow
    BY DEF TypeOK, SiteRow
  <2>2. ASSUME row'.status = row.status, UNCHANGED audit PROVE StatusAudited'
    BY <2>2 DEF StatusAudited
  <2>3. ASSUME NEW p \in Publishers, Cutover(p) PROVE StatusAudited'
    <3>1. row.status = "active"
      BY <2>3 DEF NotWhileSuspended, Cutover
    <3>2. row'.status = "active" /\ UNCHANGED audit
      BY <2>3, <3>1 DEF Cutover
    <3> QED
      BY <2>2, <3>1, <3>2
  <2>4. ASSUME NEW p \in Publishers, Claim(p) PROVE StatusAudited'
    BY <2>1, <2>2, <2>4 DEF Claim, SiteRow
  <2>5. ASSUME NEW p \in Publishers, Finally(p) \/ Crash(p) PROVE StatusAudited'
    BY <2>1, <2>2, <2>5, FinallyRow, RowKept DEF Finally, Crash, SiteRow
  <2>6. ASSUME NEW action \in {"suspend", "restore"}, Moderate(action) PROVE StatusAudited'
    BY <2>1, <2>6 DEF Moderate, SiteRow, StatusAudited
  <2>7. ASSUME NEW p \in Publishers, Advance(p) PROVE StatusAudited'
    BY <2>2, <2>3, <2>4, <2>5, <2>7 DEF Advance, Validate, Stage, Probe, Deploy, GetRecord,
       PutRecord, Retire, ListReleases, Pruned, Throw, Copy, Upload, ListFiles, Prune
  <2>8. CASE (\E p \in Publishers, r \in Revisions : Start(p, r)) \/ Redraft \/ Tick
             \/ UNCHANGED vars
    BY <2>2, <2>8 DEF Start, Redraft, Tick, vars
  <2> QED
    BY <2>5, <2>6, <2>7, <2>8 DEF Next
<1>2. Init => StatusAudited
  BY DEF Init, StatusAudited
<1> QED
  BY <1>1, <1>2, PublishTypeCorrect, PTL DEF Spec
=============================================================================

----------------------------- MODULE SitePublish -----------------------------
(***************************************************************************)
(* SiteService.publish, suspendSite and restoreSite for one site: the      *)
(* publication claim and the active revision on the D1 `site' row, the     *)
(* site_release table, the draft/ and release/ prefixes of R2, the worker  *)
(* scripts of the two dispatch namespaces, and the owner's site record on  *)
(* the PDS.  One action per awaited call; publications overlap wherever    *)
(* the claim lets them, any call may fail, and an isolate may stop between *)
(* two calls without running the finally block.                            *)
(***************************************************************************)
EXTENDS Naturals, FiniteSets

CONSTANTS
  Publishers,   \* publication requests that can be in flight together
  Revisions,    \* draft revisions, named by their content hash
  Paths,
  FilesOf,      \* revision -> the paths of its bundle
  WorkerFile,   \* "_worker.js"
  None,
  Serverless,   \* SERVERLESS_ENABLED
  Volatile,     \* draft files that other requests add and remove meanwhile
  Faults,       \* may isolates stop, and D1 fail in the finally block?
  Twins,        \* may two publications of one revision overlap?
  Admin,        \* does an operator suspend and restore the site?
  Keep,         \* releases kept by the cleanup: 5 in the code
  Ttl,          \* life of a claim: ten minutes in the code
  MaxTime, MaxPublish   \* bounds of the exploration only

ASSUME PublishAssumption ==
  /\ FilesOf \in [Revisions -> (SUBSET Paths) \ {{}}]   \* there is an index page
  /\ IsFiniteSet(Revisions)
  /\ None \notin Revisions \cup Publishers \cup {"stub", "bundle"}
  /\ Volatile \subseteq Revisions \X Paths
  /\ {Serverless, Faults, Twins, Admin} \subseteq BOOLEAN
  /\ Keep \in Nat \ {0} /\ Ttl \in Nat /\ MaxTime \in Nat /\ MaxPublish \in Nat

VARIABLES
  row,        \* site: active_revision, active_worker, publishing_*, status, at_cid
  releases,   \* site_release: revision -> status and created_at
  draft,      \* <<revision, path>> pairs under draft/{siteId}/
  release,    \* <<revision, path>> pairs under release/{siteId}/
  scripts,    \* production namespace: revision named -> None, "stub" or "bundle"
  staged,     \* staging namespace: revisions named
  record,     \* PDS record sh.macha.netslumSite/self: revision and cid
  now,        \* the clock
  starts,     \* publications requested so far
  pc, rev, at, stale, swap, cid, todo, victims,   \* locals of each publication
  audit       \* action of the newest site_admin_action row

locals == <<pc, rev, at, stale, swap, cid, todo, victims>>
vars == <<row, releases, draft, release, scripts, staged, record, now, starts, locals, audit>>

-----------------------------------------------------------------------------
BundleOf(r) == {r} \X FilesOf[r]
HasWorker(r) == WorkerFile \in FilesOf[r]

\* The script a revision's worker should be.
Wanted(r) == IF HasWorker(r) THEN "bundle" ELSE "stub"

Init ==
  /\ row = [active |-> None, worker |-> None, claim |-> None, claimAt |-> 0,
            status |-> "active", cid |-> 0]
  /\ releases = [r \in Revisions |-> [status |-> "none", createdAt |-> 0]]
  /\ draft = UNION {BundleOf(r) : r \in Revisions}
  /\ release = {}
  /\ scripts = [r \in Revisions |-> None]
  /\ staged = {}
  /\ record = [rev |-> None, cid |-> 0]
  /\ now = 0 /\ starts = 0
  /\ pc = [p \in Publishers |-> "idle"]
  /\ rev = [p \in Publishers |-> None]
  /\ at = [p \in Publishers |-> 0]
  /\ stale = [p \in Publishers |-> None]
  /\ swap = [p \in Publishers |-> 0]
  /\ cid = [p \in Publishers |-> 0]
  /\ todo = [p \in Publishers |-> {}]
  /\ victims = [p \in Publishers |-> {}]
  /\ audit = "restore"

Goto(p, label) == pc' = [pc EXCEPT ![p] = label]
Loop(p, set) == todo' = [todo EXCEPT ![p] = set]
Step(p, from, to) == pc[p] = from /\ Goto(p, to)

(***************************************************************************)
(* The request reads the site row and the clock; a claim younger than ten  *)
(* minutes turns it away.  The worker name it read is used much later, by  *)
(* the cleanup.  A publication that reached its cutover took some time: it *)
(* started before the clock this one reads.                                *)
(***************************************************************************)
Start(p, r) ==
  /\ starts < MaxPublish
  /\ \A s \in Revisions : releases[s].status # "none" => releases[s].createdAt < now
  /\ Twins \/ \A q \in Publishers : rev[q] # r
  /\ row.claim = None \/ now >= row.claimAt + Ttl
  /\ Step(p, "idle", "claim")
  /\ rev' = [rev EXCEPT ![p] = r]
  /\ at' = [at EXCEPT ![p] = now]
  /\ stale' = [stale EXCEPT ![p] = row.worker]
  /\ starts' = starts + 1
  /\ UNCHANGED <<row, releases, draft, release, scripts, staged, record, now, swap, cid, todo, victims, audit>>

\* Mutant: a claim is taken over at the very end of its life.
ClaimableEarly(p) == row.claim = None \/ row.claimAt + Ttl <= at[p]

\* The claim is free, or expired when judged by the clock read at the start.
Claimable(p) == row.claim = None \/ row.claimAt + Ttl < at[p]

\* A publication is over: its locals are gone.
End(p) ==
  /\ Goto(p, "idle")
  /\ rev' = [rev EXCEPT ![p] = None]
  /\ at' = [at EXCEPT ![p] = 0]
  /\ stale' = [stale EXCEPT ![p] = None]
  /\ swap' = [swap EXCEPT ![p] = 0]
  /\ cid' = [cid EXCEPT ![p] = 0]
  /\ victims' = [victims EXCEPT ![p] = {}]
  /\ Loop(p, {})

\* UPDATE site SET publishing_revision ...: the loser leaves before the try.
Claim(p) ==
  /\ pc[p] = "claim"
  /\ \/ /\ Claimable(p)
        /\ row' = [row EXCEPT !.claim = rev[p], !.claimAt = at[p]]
        /\ Goto(p, "validate")
        /\ UNCHANGED <<rev, at, stale, swap, cid, todo, victims>>
     \/ ~Claimable(p) /\ End(p) /\ UNCHANGED row
  /\ UNCHANGED <<releases, draft, release, scripts, staged, record, now, starts, audit>>

(***************************************************************************)
(* The draft files listed under the revision must hash to it.  (A bad      *)
(* webmcp.json, like any other refusal from here to the cutover, is Throw.)*)
(***************************************************************************)
Validate(p) ==
  /\ pc[p] = "validate"
  /\ BundleOf(rev[p]) \subseteq draft
  /\ Goto(p, IF HasWorker(rev[p]) THEN "stage" ELSE "copy")
  /\ Loop(p, FilesOf[rev[p]])
  /\ UNCHANGED <<row, releases, draft, release, scripts, staged, record, now, starts,
                 rev, at, stale, swap, cid, victims, audit>>

\* The worker file is read again and deployed to the staging namespace.
Stage(p) ==
  /\ Step(p, "stage", IF Serverless THEN "probe" ELSE "copy")
  /\ <<rev[p], WorkerFile>> \in draft
  /\ staged' = IF Serverless THEN staged \cup {rev[p]} ELSE staged
  /\ UNCHANGED <<row, releases, draft, release, scripts, record, now, starts,
                 rev, at, stale, swap, cid, todo, victims, audit>>

\* The staged worker answers within five seconds, with no 5xx.
Probe(p) ==
  /\ Step(p, "probe", "copy")
  /\ rev[p] \in staged
  /\ UNCHANGED <<row, releases, draft, release, scripts, staged, record, now, starts,
                 rev, at, stale, swap, cid, todo, victims, audit>>

\* One file is copied to the release prefix, if the draft still has it.
Copy(p, f) ==
  /\ pc[p] = "copy"
  /\ f \in todo[p]
  /\ release' = IF <<rev[p], f>> \in draft THEN release \cup {<<rev[p], f>>} ELSE release
  /\ Loop(p, todo[p] \ {f})
  /\ UNCHANGED <<row, releases, draft, scripts, staged, record, now, starts,
                 pc, rev, at, stale, swap, cid, victims, audit>>

\* The script is named after the revision; a worker file gone since becomes a stub.
Deploy(p) ==
  /\ Step(p, "copy", "upload")
  /\ todo[p] = {}
  /\ Loop(p, FilesOf[rev[p]])
  /\ scripts' = IF ~Serverless THEN scripts
                ELSE [scripts EXCEPT ![rev[p]] =
                        IF HasWorker(rev[p]) /\ <<rev[p], WorkerFile>> \in draft
                        THEN "bundle" ELSE "stub"]
  /\ UNCHANGED <<row, releases, draft, release, staged, record, now, starts,
                 rev, at, stale, swap, cid, victims, audit>>

\* Mutant: a release file that was not copied is skipped.
UploadUnchecked(p, f) ==
  /\ pc[p] = "upload"
  /\ f \in todo[p]
  /\ Loop(p, todo[p] \ {f})
  /\ UNCHANGED <<row, releases, draft, release, scripts, staged, record, now, starts,
                 pc, rev, at, stale, swap, cid, victims, audit>>

\* One release file is read back and uploaded; a missing one is NOT_FOUND.
Upload(p, f) ==
  /\ pc[p] = "upload"
  /\ f \in todo[p]
  /\ <<rev[p], f>> \in release
  /\ Loop(p, todo[p] \ {f})
  /\ UNCHANGED <<row, releases, draft, release, scripts, staged, record, now, starts,
                 pc, rev, at, stale, swap, cid, victims, audit>>

\* getRecord: 0 stands for no record, and for an answer that never came.
GetRecord(p) ==
  /\ Step(p, "upload", "put")
  /\ todo[p] = {}
  /\ \E seen \in {record.cid, 0} : swap' = [swap EXCEPT ![p] = seen]
  /\ UNCHANGED <<row, releases, draft, release, scripts, staged, record, now, starts,
                 rev, at, stale, cid, todo, victims, audit>>

\* Mutant: the cid of the replaced record is kept.
PutRecordOldCid(p) ==
  /\ pc[p] = "put"
  /\ swap[p] = record.cid
  /\ record' = [rev |-> rev[p], cid |-> record.cid + 1]
  /\ cid' = [cid EXCEPT ![p] = swap[p]]
  /\ \E to \in {"cutover", "finally"} : Goto(p, to)
  /\ UNCHANGED <<row, releases, draft, release, scripts, staged, now, starts,
                 rev, at, stale, swap, todo, victims, audit>>

(***************************************************************************)
(* putRecord swaps the record it saw, createRecord makes the first one;    *)
(* the PDS refuses either when the record is another by now (then Throw).  *)
(* The answer can be lost after the record was written.                    *)
(***************************************************************************)
PutRecord(p) ==
  /\ pc[p] = "put"
  /\ swap[p] = record.cid
  /\ record' = [rev |-> rev[p], cid |-> record.cid + 1]
  /\ cid' = [cid EXCEPT ![p] = record'.cid]
  /\ \E to \in {"cutover", "finally"} : Goto(p, to)
  /\ UNCHANGED <<row, releases, draft, release, scripts, staged, now, starts,
                 rev, at, stale, swap, todo, victims, audit>>

\* Mutant: the script is stored where its name belongs.
WorkerScript(r) == IF Serverless THEN scripts[r] ELSE None

WorkerName(r) == IF Serverless THEN r ELSE None

(***************************************************************************)
(* One D1 batch: the site row moves only if the claim still names this     *)
(* revision, the release table moves in any case, and a release that was   *)
(* published before keeps its created_at.  Its answer can be lost too.     *)
(***************************************************************************)
Cutover(p) ==
  LET r == rev[p]
      demoted == [s \in Revisions |->
                    IF releases[s].status = "active" THEN [releases[s] EXCEPT !.status = "superseded"]
                    ELSE releases[s]]
  IN  /\ pc[p] = "cutover"
      /\ row' = IF row.claim # r THEN row
                ELSE [active |-> r, worker |-> WorkerName(r), claim |-> None, claimAt |-> 0,
                      status |-> "active", cid |-> cid[p]]
      /\ releases' = [demoted EXCEPT ![r] =
           [status |-> "active",
            createdAt |-> IF releases[r].status = "none" THEN at[p] ELSE @.createdAt]]
      /\ \E to \in {"retire", "finally"} : Goto(p, to)
      /\ UNCHANGED <<draft, release, scripts, staged, record, now, starts,
                     rev, at, stale, swap, cid, todo, victims, audit>>

\* Mutant: the worker is deleted even if it is the one just deployed.
RetireActive(p) ==
  /\ Step(p, "retire", "list")
  /\ LET gone == IF Serverless THEN {stale[p]} ELSE {}
     IN  scripts' \in {scripts, [r \in Revisions |-> IF r \in gone THEN None ELSE scripts[r]]}
  /\ UNCHANGED <<row, releases, draft, release, staged, record, now, starts,
                 rev, at, stale, swap, cid, todo, victims, audit>>

\* The worker that was active at the start is deleted, if that succeeds.
Retire(p) ==
  /\ Step(p, "retire", "list")
  /\ LET gone == IF Serverless THEN {stale[p]} \ {rev[p]} ELSE {}
     IN  scripts' \in {scripts, [r \in Revisions |-> IF r \in gone THEN None ELSE scripts[r]]}
  /\ UNCHANGED <<row, releases, draft, release, staged, record, now, starts,
                 rev, at, stale, swap, cid, todo, victims, audit>>

Released == {r \in Revisions : releases[r].status # "none"}

\* Releases that an ORDER BY created_at DESC may put before r.
Above(r) == {s \in Released \ {r} : releases[s].createdAt >= releases[r].createdAt}

\* Mutant: the cleanup leaves one release fewer.
ListReleasesButOne(p) ==
  /\ Step(p, "list", "prune")
  /\ \E old \in SUBSET Released :
       /\ Cardinality(Released \ old) = Keep - 1 \/ (old = {} /\ Cardinality(Released) < Keep)
       /\ \A v \in old : Released \ old \subseteq Above(v)
       /\ victims' = [victims EXCEPT ![p] = old]
  /\ UNCHANGED <<row, releases, draft, release, scripts, staged, record, now, starts,
                 rev, at, stale, swap, cid, todo, audit>>

\* The releases after the newest Keep, ties in any order.
ListReleases(p) ==
  /\ Step(p, "list", "prune")
  /\ \E old \in SUBSET Released :
       /\ Cardinality(Released \ old) = Keep \/ (old = {} /\ Cardinality(Released) <= Keep)
       /\ \A v \in old : Released \ old \subseteq Above(v)
       /\ victims' = [victims EXCEPT ![p] = old]
  /\ UNCHANGED <<row, releases, draft, release, scripts, staged, record, now, starts,
                 rev, at, stale, swap, cid, todo, audit>>

\* The files of the next of them are listed.
ListFiles(p, v) ==
  /\ pc[p] = "prune"
  /\ todo[p] = {}
  /\ v \in victims[p]
  /\ victims' = [victims EXCEPT ![p] = @ \ {v}]
  /\ Loop(p, BundleOf(v) \cap release)
  /\ UNCHANGED <<row, releases, draft, release, scripts, staged, record, now, starts,
                 pc, rev, at, stale, swap, cid, audit>>

\* One of its files is deleted, if that succeeds.
Prune(p, file) ==
  /\ pc[p] = "prune"
  /\ file \in todo[p]
  /\ release' \in {release, release \ {file}}
  /\ Loop(p, todo[p] \ {file})
  /\ UNCHANGED <<row, releases, draft, scripts, staged, record, now, starts,
                 pc, rev, at, stale, swap, cid, victims, audit>>

Pruned(p) ==
  /\ Step(p, "prune", "finally")
  /\ todo[p] = {} /\ victims[p] = {}
  /\ UNCHANGED <<row, releases, draft, release, scripts, staged, record, now, starts,
                 rev, at, stale, swap, cid, todo, victims, audit>>

InTry(p) == pc[p] \notin {"idle", "claim", "finally"}

\* Mutant: an error path without the finally block.
ThrowBare(p) ==
  /\ InTry(p)
  /\ End(p)
  /\ UNCHANGED <<row, releases, draft, release, scripts, staged, record, now, starts, audit>>

\* A check refuses or a call fails between the claim and the end of the try.
Throw(p) ==
  /\ InTry(p)
  /\ Goto(p, "finally")
  /\ Loop(p, {})
  /\ victims' = [victims EXCEPT ![p] = {}]
  /\ UNCHANGED <<row, releases, draft, release, scripts, staged, record, now, starts,
                 rev, at, stale, swap, cid, audit>>

\* Mutant: the claim is cleared whoever holds it.
FinallyAnyClaim(p) ==
  /\ pc[p] = "finally"
  /\ staged' \in {staged, staged \ {rev[p]}}
  /\ \/ row' = [row EXCEPT !.claim = None, !.claimAt = 0]
     \/ Faults /\ row' = row
  /\ End(p)
  /\ UNCHANGED <<releases, draft, release, scripts, record, now, starts, audit>>

(***************************************************************************)
(* finally: the staged script is deleted, if that succeeds, and a claim    *)
(* naming this revision is cleared.                                        *)
(***************************************************************************)
Finally(p) ==
  /\ pc[p] = "finally"
  /\ staged' \in {staged, staged \ {rev[p]}}
  /\ \/ row' = IF row.claim # rev[p] THEN row
               ELSE [row EXCEPT !.claim = None, !.claimAt = 0]
     \/ Faults /\ row' = row
  /\ End(p)
  /\ UNCHANGED <<releases, draft, release, scripts, record, now, starts, audit>>

Advance(p) ==
  \/ Claim(p) \/ Validate(p) \/ Stage(p) \/ Probe(p) \/ Deploy(p) \/ GetRecord(p)
  \/ PutRecord(p) \/ Cutover(p) \/ Retire(p) \/ ListReleases(p) \/ Pruned(p)
  \/ Throw(p) \/ Finally(p)
  \/ \E f \in Paths : Copy(p, f) \/ Upload(p, f)
  \/ \E v \in Revisions : ListFiles(p, v)
  \/ \E file \in Revisions \X Paths : Prune(p, file)

-----------------------------------------------------------------------------
(* The environment.                                                        *)

\* The isolate stops: no finally.
Crash(p) ==
  /\ Faults
  /\ pc[p] # "idle"
  /\ End(p)
  /\ UNCHANGED <<row, releases, draft, release, scripts, staged, record, now, starts, audit>>

\* An operator suspends or restores the site, with its audit row.
Moderate(action) ==
  /\ Admin
  /\ audit' = action
  /\ row' = [row EXCEPT !.status = IF action = "suspend" THEN "suspended" ELSE "active"]
  /\ UNCHANGED <<releases, draft, release, scripts, staged, record, now, starts, locals>>

\* Draft editing adds a file, or its rollback removes one (SiteDraft.tla).
Redraft ==
  /\ \E file \in Volatile :
       draft' \in {draft \cup {file}, draft \ {file}} \ {draft}
  /\ UNCHANGED <<row, releases, release, scripts, staged, record, now, starts, locals, audit>>

Tick ==
  /\ now < MaxTime
  /\ now' = now + 1
  /\ UNCHANGED <<row, releases, draft, release, scripts, staged, record, starts, locals, audit>>

Next ==
  \/ \E p \in Publishers, r \in Revisions : Start(p, r)
  \/ \E p \in Publishers : Advance(p) \/ Crash(p)
  \/ \E action \in {"suspend", "restore"} : Moderate(action)
  \/ Redraft \/ Tick

Spec == Init /\ [][Next]_vars

(***************************************************************************)
(* Every awaited call of a publication that is not stopped returns or      *)
(* throws: the provisioner and the probe carry timeouts, and the platform  *)
(* bounds the others.                                                      *)
(***************************************************************************)
FairSpec == Spec /\ \A p \in Publishers : WF_vars(Advance(p))

-----------------------------------------------------------------------------
(* Properties.                                                             *)

File == Revisions \X Paths
Label == {"idle", "claim", "validate", "stage", "probe", "copy", "upload", "put",
          "cutover", "retire", "list", "prune", "finally"}

TypeOK ==
  /\ row \in [active : Revisions \cup {None}, worker : Revisions \cup {None},
             claim : Revisions \cup {None}, claimAt : Nat,
             status : {"active", "suspended"}, cid : Nat]
  /\ releases \in [Revisions -> [status : {"none", "active", "superseded"}, createdAt : Nat]]
  /\ draft \subseteq File /\ release \subseteq File
  /\ scripts \in [Revisions -> {None, "stub", "bundle"}]
  /\ staged \subseteq Revisions
  /\ record \in [rev : Revisions \cup {None}, cid : Nat]
  /\ now \in Nat /\ starts \in Nat
  /\ pc \in [Publishers -> Label]
  /\ rev \in [Publishers -> Revisions \cup {None}]
  /\ \A p \in Publishers : pc[p] # "idle" => rev[p] \in Revisions
  /\ at \in [Publishers -> Nat]
  /\ stale \in [Publishers -> Revisions \cup {None}]
  /\ swap \in [Publishers -> Nat] /\ cid \in [Publishers -> Nat]
  /\ todo \in [Publishers -> SUBSET (Paths \cup File)]
  /\ victims \in [Publishers -> SUBSET Revisions]
  /\ audit \in {"suspend", "restore"}

(***************************************************************************)
(* The newest releases keep every file, for a rollback or a slow visitor:  *)
(* neither draft editing during a copy nor the cleanup of an overlapping   *)
(* or half-failed publication takes one away (SiteService.ts:438-446,      *)
(* 469-471, 551-566).                                                      *)
(***************************************************************************)
Kept(r) == r \in Released /\ Cardinality(Above(r)) < Keep

KeptReleasesComplete == \A r \in Revisions : Kept(r) => BundleOf(r) \subseteq release

(***************************************************************************)
(* The site row cites a version of the PDS record that really is about the *)
(* active revision, whichever publication wrote the record in between and  *)
(* whatever answers were lost (SiteService.ts:494-541).                    *)
(***************************************************************************)
RowCitesRecord ==
  /\ row.cid <= record.cid
  /\ row.active # None => row.cid > 0
  /\ row.cid = record.cid => row.active = record.rev

(***************************************************************************)
(* The claim excludes (SiteService.ts:368-379, 586): as long as it has not *)
(* expired, a publication between its claim and its cutover is the one     *)
(* that holds it.                                                          *)
(***************************************************************************)
Holding(p) ==
  /\ pc[p] \in {"validate", "stage", "probe", "copy", "upload", "put", "cutover"}
  /\ now <= at[p] + Ttl

ClaimExclusive ==
  \A p \in Publishers : Holding(p) => row.claim = rev[p] /\ row.claimAt = at[p]

(***************************************************************************)
(* The cutover is atomic (code-map.md:271): the revision the site row      *)
(* serves and the one active row of the release table are always the same. *)
(***************************************************************************)
CutoverAtomic ==
  {r \in Revisions : releases[r].status = "active"} = {row.active} \ {None}

(***************************************************************************)
(* The worker the site row routes to is deployed, and is the bundle's own  *)
(* when the bundle has one: only superseded workers are cleaned up         *)
(* (SiteService.ts:448-463, 551-554).                                      *)
(***************************************************************************)
ActiveWorkerDeployed ==
  row.worker # None => scripts[row.worker] = Wanted(row.worker)

(***************************************************************************)
(* What the public page serves is there: every file of the active revision *)
(* is under its release prefix (codex-acceptance-checklist.md:53-57).      *)
(***************************************************************************)
ActiveReleaseServed == row.active # None => BundleOf(row.active) \subseteq release

(***************************************************************************)
(* A suspended site stays suspended until an operator restores it: the     *)
(* audit log tells its status (SiteService.ts:593-609).                    *)
(***************************************************************************)
StatusAudited == row.status = (IF audit = "suspend" THEN "suspended" ELSE "active")

(***************************************************************************)
(* What readers see of publications that do not overlap, whatever fails,   *)
(* stops or is moderated: a revision is served when its files are stored   *)
(* and its worker is deployed, and neither is taken away before the next   *)
(* cutover, or the files before Keep releases have followed it             *)
(* (SiteService.ts:438-463, 527-577).                                      *)
(***************************************************************************)
Published == INSTANCE PublishedSite WITH
  site <- [status |-> row.status, active |-> row.active, worker |-> row.worker],
  released <- Released,
  newer <- [r \in Revisions |-> IF r \in Released THEN Above(r) ELSE {}],
  files <- {r \in Revisions : BundleOf(r) \subseteq release},
  workers <- {r \in Revisions : scripts[r] = Wanted(r)}

ImplementsPublishedSite == Published!SiteSpec

(***************************************************************************)
(* Without a crash no error path keeps the owner waiting ten minutes: every*)
(* claim is given back (SiteService.ts:578-590).                           *)
(***************************************************************************)
ClaimGivenBack == row.claim # None ~> row.claim = None
=============================================================================

---------------------------- MODULE PublishedSite ----------------------------
(***************************************************************************)
(* What a publication promises those who read the site, with no mention of *)
(* claims, uploads, records, errors or crashes: a revision is served once  *)
(* its files are stored and its worker is deployed, only the workers that  *)
(* are not served are retired, and files are pruned of releases only that  *)
(* Keep others have followed.  SitePublish.tla is shown to implement this  *)
(* module as long as publications do not overlap; SiteServing.tla puts the *)
(* readers on top of it.                                                   *)
(***************************************************************************)
EXTENDS Naturals, FiniteSets

CONSTANTS
    Revisions,    \* draft revisions
    None,
    Serverless,   \* SERVERLESS_ENABLED: every release has a worker
    Keep          \* releases kept: 5 in the code

ASSUME SiteAssumption ==
    /\ IsFiniteSet(Revisions) /\ None \notin Revisions
    /\ Serverless \in BOOLEAN /\ Keep \in Nat \ {0}

VARIABLES
    site,         \* the row of `site': status, active revision, its worker
    released,     \* revisions that have a row in site_release
    newer,        \* for each of them those that were first released after it
    files,        \* revisions all of whose release files are stored
    workers       \* revisions whose worker is deployed as they want it

siteVars == <<site, released, newer, files, workers>>

SiteTypeOK ==
    /\ site \in [status : {"active", "suspended"}, active : Revisions \cup {None},
                 worker : Revisions \cup {None}]
    /\ released \subseteq Revisions
    /\ newer \in [Revisions -> SUBSET Revisions]
    /\ files \subseteq Revisions /\ workers \subseteq Revisions

SiteInit ==
    /\ site = [status |-> "active", active |-> None, worker |-> None]
    /\ released = {}
    /\ newer = [r \in Revisions |-> {}]
    /\ files = {} /\ workers = {}

-------------------------------------------------------------------------------
(* The last file of a release is stored, its worker is deployed: both long *)
(* before it is served, and maybe in vain.                                 *)
StoreFiles(r) ==
    /\ files' = files \cup {r}
    /\ UNCHANGED <<site, released, newer, workers>>

DeployWorker(r) ==
    /\ Serverless
    /\ workers' = workers \cup {r}
    /\ UNCHANGED <<site, released, newer, files>>

(* The cutover, which lifts a suspension.  A revision that was released    *)
(* before keeps its place among the releases.                              *)
Activate(r) ==
    /\ r \in files
    /\ Serverless => r \in workers
    /\ site' = [status |-> "active", active |-> r, worker |-> IF Serverless THEN r ELSE None]
    /\ released' = released \cup {r}
    /\ newer' = IF r \in released THEN newer
                ELSE [s \in Revisions |-> IF s \in released THEN newer[s] \cup {r} ELSE {}]
    /\ UNCHANGED <<files, workers>>

RetireWorker(r) ==
    /\ r # site.worker
    /\ workers' = workers \ {r}
    /\ UNCHANGED <<site, released, newer, files>>

Followed(r) == Cardinality(newer[r]) >= Keep

\* Mutant: one release fewer is kept.
PruneOneMore(r) ==
    /\ r \in released /\ Cardinality(newer[r]) + 1 >= Keep
    /\ files' = files \ {r}
    /\ UNCHANGED <<site, released, newer, workers>>

PruneFiles(r) ==
    /\ r \in released /\ Followed(r)
    /\ files' = files \ {r}
    /\ UNCHANGED <<site, released, newer, workers>>

Suspend(status) ==
    /\ site' = [site EXCEPT !.status = status]
    /\ UNCHANGED <<released, newer, files, workers>>

SiteNext ==
    \/ \E r \in Revisions :
         \/ StoreFiles(r) \/ DeployWorker(r) \/ Activate(r)
         \/ RetireWorker(r) \/ PruneFiles(r)
    \/ \E status \in {"active", "suspended"} : Suspend(status)

SiteSpec == SiteInit /\ [][SiteNext]_siteVars
===============================================================================

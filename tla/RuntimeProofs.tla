--------------------------- MODULE RuntimeProofs ---------------------------
(***************************************************************************)
(* Proofs about the runtime of published sites, EgressProxy and            *)
(* SiteServing, and, at the end, about the services together.  The two     *)
(* share no state; each part begins with its argument.                     *)
(***************************************************************************)
EXTENDS MCServices, SocialProofs, AccountProofs, FiniteSetTheorems, TLAPS

-----------------------------------------------------------------------------
(***************************************************************************)
(* Proofs about EgressProxy for all origins, denied sets and redirect      *)
(* limits.  TypeOK /\ EgressConfined is inductive: the third conjunct of    *)
(* EgressConfined, that a request which still has its authorization has     *)
(* been nowhere else, is what makes the first two survive a redirect.       *)
(***************************************************************************)

\* Nothing has been sent when the proxy is called.
LEMMA EgressStarts == EgressInit => EgressTypeOK /\ EgressConfined
BY EgressAssumption DEF EgressInit, EgressTypeOK, EgressConfined

\* A step keeps the types; a followed redirect stays within the limit.
LEMMA EgressTyped == EgressTypeOK /\ [EgressNext]_egressVars => EgressTypeOK'
<1> SUFFICES ASSUME EgressTypeOK, [EgressNext]_egressVars PROVE EgressTypeOK'
  OBVIOUS
<1> USE EgressAssumption DEF EgressTypeOK, Ends
<1>1. CASE Fetch
  BY <1>1 DEF Fetch
<1>2. CASE Respond
  BY <1>2 DEF Respond
<1>3. ASSUME NEW target \in Origins, Refuse(target) PROVE EgressTypeOK'
  BY <1>3 DEF Refuse
<1>4. ASSUME NEW target \in Origins, NEW status \in {301, 302, 303, 307, 308},
             Follow(target, status)
      PROVE  EgressTypeOK'
  <2>1. redirects' \in 0..MaxRedirects
    BY <1>4 DEF Follow, Refused
  <2>2. method' \in {"GET", "POST", "PUT"} /\ pc' \in {"check"} \cup Ends
    BY <1>4 DEF Follow
  <2> QED
    BY <1>4, <2>1, <2>2 DEF Follow
<1>5. CASE UNCHANGED egressVars
  BY <1>5 DEF egressVars
<1> QED
  BY <1>1, <1>2, <1>3, <1>4, <1>5 DEF EgressNext

\* Sending keeps the confinement: the target was checked just before, and a
\* request with authorization has only been sent to this origin.
LEMMA FetchConfined == EgressConfined /\ Fetch => EgressConfined'
<1> SUFFICES ASSUME EgressConfined, Fetch PROVE EgressConfined'
  OBVIOUS
<1> USE DEF Fetch, EgressConfined
<1>1. CASE origin \in Denied
  BY <1>1
<1>2. CASE origin \notin Denied
  <2> DEFINE new == <<origin, auth>>
  <2>1. sent' = sent \cup {new} /\ new[1] = origin /\ new[2] = auth
    BY <1>2
  <2> HIDE DEF new
  <2>2. \A s \in sent' : s[1] \notin Denied
    BY <1>2, <2>1
  <2>3. auth => \A s \in sent : s[1] = origin
    OBVIOUS
  <2>4. ASSUME auth PROVE \A s \in sent' : s[1] = origin
    BY <2>1, <2>3, <2>4
  <2>5. ASSUME ~auth, NEW s \in sent', NEW t \in sent', s[2], t[2] PROVE s[1] = t[1]
    <3>1. s \in sent /\ t \in sent
      BY <2>1, <2>5
    <3> QED
      BY <3>1, <2>5
  <2>6. \A s, t \in sent' : s[2] /\ t[2] => s[1] = t[1]
    BY <2>4, <2>5
  <2> QED
    BY <2>2, <2>4, <2>6
<1> QED
  BY <1>1, <1>2

\* Every other step sends nothing, and keeps the authorization only towards
\* the origin the request has been to.
LEMMA ConfinedStep == EgressConfined /\ [EgressNext]_egressVars => EgressConfined'
<1> SUFFICES ASSUME EgressConfined, [EgressNext]_egressVars PROVE EgressConfined'
  OBVIOUS
<1>1. CASE Fetch
  BY <1>1, FetchConfined
<1>2. CASE Respond
  BY <1>2 DEF Respond, EgressConfined
<1>3. ASSUME NEW target \in Origins, Refuse(target) PROVE EgressConfined'
  <2>1. pc' \notin {"check", "fetched"} /\ UNCHANGED sent
    BY <1>3 DEF Refuse
  <2> QED
    BY <2>1 DEF EgressConfined
<1>4. ASSUME NEW target \in Origins, NEW status \in {301, 302, 303, 307, 308},
             Follow(target, status)
      PROVE  EgressConfined'
  <2>1. UNCHANGED sent /\ (auth' => auth /\ origin' = origin) /\ pc = "fetched"
    BY <1>4 DEF Follow
  <2> QED
    BY <2>1 DEF EgressConfined
<1>5. CASE UNCHANGED egressVars
  BY <1>5 DEF egressVars, EgressConfined
<1> QED
  BY <1>1, <1>2, <1>3, <1>4, <1>5 DEF EgressNext

\* Type correctness of the proxy: in particular at most MaxRedirects
\* redirects are followed (egress.ts:29).
THEOREM EgressStaysTyped == EgressSpec => []EgressTypeOK
BY EgressStarts, EgressTyped, PTL DEF EgressSpec

\* egress.ts: for every chain of redirects, no denied origin is sent a
\* request and the authorization header reaches one origin at most.
THEOREM EgressIsConfined == EgressSpec => []EgressConfined
BY EgressStarts, ConfinedStep, PTL DEF EgressSpec

-----------------------------------------------------------------------------
(***************************************************************************)
(* Proofs about SiteServing for any number of readers, any number of       *)
(* revisions and any number of releases kept.  A reader that is under way  *)
(* holds a revision that was released, shown or overtaken; SiteSound says  *)
(* of the site that no release lacks a file before Keep others have        *)
(* followed it, and that the worker of the row is there.                   *)
(***************************************************************************)

\* What ServedConsistently says of one reader.
Consistent(q) ==
    q.pc = "answered" =>
      /\ q.outcome = "missing" /\ q.route \in Routes \ {"preview", "api", "tool"}
           => Followed(q.revision)
      /\ q.outcome = "failed" => q.moved
      /\ q.outcome = "served" /\ q.route = "tool" => q.worker = q.revision \/ q.moved

VisitSound(q) ==
    /\ q.pc # "idle" /\ q.route # "preview" => q.revision \in released
    /\ q.pc \in UnderWay /\ q.route # "preview" => q.revision = site.active \/ q.moved
    /\ q.pc \in {"runtime", "worker"} => q.route \in {"api", "tool"}
    /\ q.pc = "worker" => q.worker # None /\ (q.worker = site.worker \/ q.moved)
    /\ Consistent(q)

SiteSound ==
    /\ site.active # None => site.active \in released
    /\ \A r \in released : ~Followed(r) => r \in files
    /\ site.worker # None => site.worker \in workers
    /\ site.worker = IF Serverless THEN site.active ELSE None

ServingInv ==
    /\ ServingTypeOK /\ SiteSound
    /\ \A v \in Visitors : VisitSound(visit[v])

LEMMA IdleVisitSound ==
    /\ IdleVisit \in VisitLocals /\ IdleVisit.pc = "idle" /\ ~IdleVisit.moved
    /\ VisitSound(IdleVisit)
BY DEF IdleVisit, VisitLocals, Routes, UnderWay, VisitSound, Consistent

LEMMA ServingStarts == ServingInit => ServingInv
<1> SUFFICES ASSUME ServingInit PROVE ServingInv
  OBVIOUS
<1>1. SiteTypeOK /\ SiteSound
  BY DEF ServingInit, SiteInit, SiteTypeOK, SiteSound
<1>2. ServingTypeOK
  BY <1>1, IdleVisitSound DEF ServingInit, ServingTypeOK
<1> QED
  BY <1>1, <1>2, IdleVisitSound DEF ServingInit, ServingInv

-----------------------------------------------------------------------------
\* The readers' steps.  None of them disturbs the site or another reader.

LEMMA VisitStep ==
    ASSUME ServingInv, NEW v \in Visitors, NEW s \in VisitLocals, VisitTo(v, s), RestOfSite,
           VisitSound(s)
    PROVE  ServingInv'
<1>1. visit \in [Visitors -> VisitLocals] /\ visit' = [visit EXCEPT ![v] = s]
  BY DEF VisitTo, ServingInv, ServingTypeOK
<1>2. visit' \in [Visitors -> VisitLocals]
      /\ \A w \in Visitors : visit'[w] = IF w = v THEN s ELSE visit[w]
  BY <1>1
<1>3. UNCHANGED <<site, released, newer, files, workers, cap>>
  BY DEF RestOfSite, siteVars
<1>4. ServingTypeOK' /\ SiteSound'
  BY <1>2, <1>3 DEF ServingInv, ServingTypeOK, SiteTypeOK, SiteSound, Followed
<1>5. \A w \in Visitors : VisitSound(visit[w])'
  BY <1>2, <1>3 DEF ServingInv, VisitSound, Consistent, Followed
<1> QED
  BY <1>4, <1>5 DEF ServingInv

LEMMA FindSiteKeeps ==
    ASSUME ServingInv, NEW v \in Visitors, NEW entry \in {"object", "runtime"},
           NEW route \in Routes, entry = "runtime" => route = "api", FindSite(v, route, entry)
    PROVE  ServingInv'
<1> DEFINE s == [IdleVisit EXCEPT !.pc = entry, !.route = route, !.revision = site.active,
                                  !.worker = site.worker]
<1>1. VisitTo(v, s) /\ RestOfSite /\ site.active # None
  BY DEF FindSite, SiteActive
<1>2. site.active \in Revisions \cup {None} /\ site.worker \in Revisions \cup {None}
      /\ site.active \in released
  BY <1>1 DEF ServingInv, ServingTypeOK, SiteTypeOK, SiteSound
<1>3. s.pc = entry /\ s.route = route /\ s.revision = site.active /\ s \in VisitLocals
  BY <1>2, IdleVisitSound DEF VisitLocals, UnderWay
<1> HIDE DEF s
<1>4. VisitSound(s)
  BY <1>2, <1>3 DEF VisitSound, Consistent
<1> QED
  BY <1>1, <1>3, <1>4, VisitStep DEF s

LEMMA ReadReleaseKeeps ==
    ASSUME ServingInv, NEW v \in Visitors, NEW revision \in Revisions, ReadRelease(v, revision)
    PROVE  ServingInv'
<1> DEFINE s == [IdleVisit EXCEPT !.pc = "object", !.route = "release", !.revision = revision]
<1>1. VisitTo(v, s) /\ RestOfSite /\ site.active = revision /\ revision \in released
  BY DEF ReadRelease, SiteActive, ServingInv, SiteSound
<1>2. s.pc = "object" /\ s.revision = revision /\ s \in VisitLocals
  BY IdleVisitSound DEF VisitLocals, UnderWay, Routes
<1> HIDE DEF s
<1>3. VisitSound(s)
  BY <1>1, <1>2 DEF VisitSound, Consistent
<1> QED
  BY <1>1, <1>2, <1>3, VisitStep DEF s

\* A reader is answered.
LEMMA EndKeeps ==
    ASSUME ServingInv, NEW v \in Visitors, NEW outcome \in {"served", "missing", "failed"},
           End(v, outcome), RestOfSite, visit[v].pc # "idle",
           Consistent([visit[v] EXCEPT !.pc = "answered", !.outcome = outcome])
    PROVE  ServingInv'
<1> DEFINE s == [visit[v] EXCEPT !.pc = "answered", !.outcome = outcome]
<1>1. visit[v] \in VisitLocals /\ VisitSound(visit[v])
  BY DEF ServingInv, ServingTypeOK
<1>2. s \in VisitLocals /\ s.pc = "answered" /\ s.revision = visit[v].revision
      /\ s.route = visit[v].route
  BY <1>1 DEF VisitLocals
<1>3. VisitTo(v, s) /\ Consistent(s)
  BY DEF End
<1> HIDE DEF s
<1>4. VisitSound(s)
  BY <1>1, <1>2, <1>3 DEF VisitSound, UnderWay
<1> QED
  BY <1>2, <1>3, <1>4, VisitStep

\* A release of which some file is missing has been followed by Keep others.
LEMMA ReadObjectKeeps ==
    ASSUME ServingInv, NEW v \in Visitors, ReadObject(v) PROVE ServingInv'
<1> DEFINE q == visit[v]
<1>1. q \in VisitLocals /\ VisitSound(q) /\ q.pc = "object" /\ q.route # "preview" /\ RestOfSite
  BY DEF ServingInv, ServingTypeOK, ReadObject
<1>2. q.revision \in released /\ SiteSound
  BY <1>1 DEF VisitSound, ServingInv
<1>3. CASE q.revision \notin files /\ End(v, "missing")
  <2>1. Followed(q.revision)
    BY <1>2, <1>3 DEF SiteSound
  <2>2. Consistent([q EXCEPT !.pc = "answered", !.outcome = "missing"])
    BY <1>1, <2>1 DEF Consistent, VisitLocals
  <2> QED
    BY <1>1, <1>3, <2>2, EndKeeps
<1>4. CASE q.route = "tool" /\ VisitTo(v, [q EXCEPT !.pc = "runtime"])
  <2> DEFINE s == [q EXCEPT !.pc = "runtime"]
  <2>1. s \in VisitLocals /\ s.pc = "runtime" /\ s.route = "tool" /\ s.moved = q.moved
        /\ s.revision = q.revision
    BY <1>1, <1>4 DEF VisitLocals, UnderWay
  <2> HIDE DEF s
  <2>2. VisitSound(s)
    BY <1>1, <2>1 DEF VisitSound, Consistent, UnderWay
  <2> QED
    BY <1>1, <1>4, <2>1, <2>2, VisitStep DEF s
<1>5. CASE q.route # "tool" /\ End(v, "served")
  <2>1. Consistent([q EXCEPT !.pc = "answered", !.outcome = "served"])
    BY <1>1, <1>5 DEF Consistent, VisitLocals
  <2> QED
    BY <1>1, <1>5, <2>1, EndKeeps
<1> QED
  BY <1>3, <1>4, <1>5 DEF ReadObject

\* The worker that is dispatched to is the active one of that moment.
LEMMA DispatchKeeps ==
    ASSUME ServingInv, NEW v \in Visitors, Dispatch(v) PROVE ServingInv'
<1> DEFINE q == visit[v]
<1>1. q \in VisitLocals /\ VisitSound(q) /\ q.pc = "runtime" /\ RestOfSite
      /\ site.worker \in Revisions \cup {None}
  BY DEF ServingInv, ServingTypeOK, SiteTypeOK, Dispatch
<1>2. q.route \in {"api", "tool"}
  BY <1>1 DEF VisitSound
<1>3. CASE site.worker # None /\ VisitTo(v, [q EXCEPT !.pc = "worker", !.worker = site.worker])
  <2> DEFINE s == [q EXCEPT !.pc = "worker", !.worker = site.worker]
  <2>1. s \in VisitLocals /\ s.pc = "worker" /\ s.route = q.route /\ s.moved = q.moved
        /\ s.revision = q.revision /\ s.worker = site.worker
    BY <1>1 DEF VisitLocals, UnderWay
  <2> HIDE DEF s
  <2>2. VisitSound(s)
    BY <1>1, <1>2, <1>3, <2>1 DEF VisitSound, Consistent, UnderWay
  <2> QED
    BY <1>1, <1>3, <2>1, <2>2, VisitStep DEF s
<1>4. CASE End(v, "missing")
  <2>1. Consistent([q EXCEPT !.pc = "answered", !.outcome = "missing"])
    BY <1>1, <1>2 DEF Consistent, VisitLocals
  <2> QED
    BY <1>1, <1>4, <2>1, EndKeeps
<1>5. CASE VisitTo(v, IdleVisit)
  BY <1>1, <1>5, IdleVisitSound, VisitStep
<1> QED
  BY <1>3, <1>4, <1>5 DEF Dispatch

\* Only a worker that was active before the last activation may be gone.
LEMMA RunWorkerKeeps ==
    ASSUME ServingInv, NEW v \in Visitors, RunWorker(v) PROVE ServingInv'
<1> DEFINE q == visit[v]
<1>1. q \in VisitLocals /\ VisitSound(q) /\ q.pc = "worker" /\ RestOfSite
  BY DEF ServingInv, ServingTypeOK, RunWorker
<1>2. q.route \in {"api", "tool"} /\ q.worker # None /\ (q.worker = site.worker \/ q.moved)
      /\ (q.revision = site.active \/ q.moved)
  BY <1>1 DEF VisitSound, UnderWay
<1>3. site.worker # None => site.worker \in workers /\ site.worker = site.active
  BY DEF ServingInv, SiteSound
<1>4. CASE q.worker \in workers
  <2>1. q.worker = q.revision \/ q.moved
    BY <1>2, <1>3
  <2>2. End(v, "served") /\ Consistent([q EXCEPT !.pc = "answered", !.outcome = "served"])
    BY <1>1, <1>4, <2>1 DEF RunWorker, Consistent, VisitLocals
  <2> QED
    BY <1>1, <2>2, EndKeeps
<1>5. CASE q.worker \notin workers
  <2>1. q.moved
    BY <1>2, <1>3, <1>5
  <2>2. End(v, "failed") /\ Consistent([q EXCEPT !.pc = "answered", !.outcome = "failed"])
    BY <1>1, <1>5, <2>1 DEF RunWorker, Consistent, VisitLocals
  <2> QED
    BY <1>1, <2>2, EndKeeps
<1> QED
  BY <1>4, <1>5

LEMMA PreviewKeeps ==
    ASSUME ServingInv, NEW v \in Visitors, ReadPreview(v) \/ ReadDraft(v) PROVE ServingInv'
<1> DEFINE q == visit[v]
<1>1. q \in VisitLocals /\ RestOfSite
  BY DEF ServingInv, ServingTypeOK, ReadPreview, ReadDraft
<1>2. CASE ReadPreview(v)
  <2> DEFINE s == [IdleVisit EXCEPT !.pc = "object", !.route = "preview"]
  <2>1. s \in VisitLocals /\ s.pc = "object" /\ s.route = "preview" /\ VisitTo(v, s)
    BY <1>2, IdleVisitSound DEF ReadPreview, VisitLocals, UnderWay, Routes
  <2> HIDE DEF s
  <2>2. VisitSound(s)
    BY <2>1 DEF VisitSound, Consistent
  <2> QED
    BY <1>1, <2>1, <2>2, VisitStep
<1>3. CASE ReadDraft(v)
  <2>1. /\ Consistent([q EXCEPT !.pc = "answered", !.outcome = "served"])
        /\ Consistent([q EXCEPT !.pc = "answered", !.outcome = "missing"])
        /\ q.pc # "idle"
    BY <1>1, <1>3 DEF ReadDraft, Consistent, VisitLocals
  <2> QED
    BY <1>1, <1>3, <2>1, EndKeeps DEF ReadDraft
<1> QED
  BY <1>2, <1>3

-----------------------------------------------------------------------------
\* The site's steps.

\* A release never loses those that followed it.
LEMMA StaysFollowed ==
    ASSUME SiteTypeOK, SiteNext, NEW r \in released
    PROVE  r \in released' /\ (Followed(r) => Followed(r)')
<1>1. CASE newer' = newer /\ released' = released
  BY <1>1 DEF Followed
<1>2. ASSUME NEW a \in Revisions, Activate(a)
      PROVE  r \in released' /\ (Followed(r) => Followed(r)')
  <2>1. r \in released' /\ newer[r] \subseteq newer'[r] /\ newer'[r] \subseteq Revisions
    BY <1>2 DEF Activate, SiteTypeOK
  <2>2. IsFiniteSet(newer'[r])
    BY <2>1, FS_Subset, SiteAssumption
  <2>3. IsFiniteSet(newer[r])
    BY <2>1, <2>2, FS_Subset
  <2>4. Cardinality(newer[r]) <= Cardinality(newer'[r])
    BY <2>1, <2>2, FS_Subset
  <2>5. Cardinality(newer[r]) \in Nat /\ Cardinality(newer'[r]) \in Nat
    BY <2>2, <2>3, FS_CardinalityType
  <2> QED
    BY <2>1, <2>4, <2>5, SiteAssumption DEF Followed
<1> QED
  BY <1>1, <1>2 DEF SiteNext, StoreFiles, DeployWorker, RetireWorker, PruneFiles, Suspend

LEMMA SiteKeepsType == SiteTypeOK /\ SiteNext => SiteTypeOK'
<1> SUFFICES ASSUME SiteTypeOK, SiteNext PROVE SiteTypeOK'
  OBVIOUS
<1>1. ASSUME NEW r \in Revisions, StoreFiles(r) \/ DeployWorker(r) \/ RetireWorker(r) \/ PruneFiles(r)
      PROVE  SiteTypeOK'
  BY <1>1 DEF SiteTypeOK, StoreFiles, DeployWorker, RetireWorker, PruneFiles
<1>2. ASSUME NEW r \in Revisions, Activate(r) PROVE SiteTypeOK'
  <2>1. newer' \in [Revisions -> SUBSET Revisions]
    BY <1>2 DEF SiteTypeOK, Activate
  <2>2. site' \in [status : {"active", "suspended"}, active : Revisions \cup {None},
                   worker : Revisions \cup {None}]
    BY <1>2 DEF Activate
  <2> QED
    BY <1>2, <2>1, <2>2 DEF SiteTypeOK, Activate
<1>3. ASSUME NEW status \in {"active", "suspended"}, Suspend(status) PROVE SiteTypeOK'
  BY <1>3 DEF SiteTypeOK, Suspend
<1> QED
  BY <1>1, <1>2, <1>3 DEF SiteNext

\* What a publication takes away is not kept and not shown.
LEMMA SiteStaysSound == SiteTypeOK /\ SiteSound /\ SiteNext => SiteSound'
<1> SUFFICES ASSUME SiteTypeOK, SiteSound, SiteNext PROVE SiteSound'
  OBVIOUS
<1>1. \A r \in released : r \in released' /\ (~Followed(r)' => ~Followed(r))
  BY StaysFollowed
<1>2. ASSUME NEW r \in Revisions, StoreFiles(r) \/ DeployWorker(r) PROVE SiteSound'
  BY <1>1, <1>2 DEF StoreFiles, DeployWorker, SiteSound
<1>3. ASSUME NEW r \in Revisions, RetireWorker(r) PROVE SiteSound'
  BY <1>1, <1>3 DEF RetireWorker, SiteSound
<1>4. ASSUME NEW r \in Revisions, PruneFiles(r) PROVE SiteSound'
  BY <1>1, <1>4 DEF PruneFiles, SiteSound
<1>5. ASSUME NEW r \in Revisions, Activate(r) PROVE SiteSound'
  <2>1. site'.active = r /\ site'.worker = IF Serverless THEN r ELSE None
    BY <1>5 DEF Activate
  <2>2. released' = released \cup {r} /\ r \in files' /\ files' = files /\ workers' = workers
        /\ (Serverless => r \in workers)
    BY <1>5 DEF Activate
  <2>3. \A t \in released' : ~Followed(t)' => t \in files'
    BY <1>1, <2>2 DEF SiteSound
  <2> QED
    BY <2>1, <2>2, <2>3 DEF SiteSound
<1>6. ASSUME NEW status \in {"active", "suspended"}, Suspend(status) PROVE SiteSound'
  <2>1. site'.active = site.active /\ site'.worker = site.worker
    BY <1>6 DEF Suspend, SiteTypeOK
  <2> QED
    BY <1>1, <1>6, <2>1 DEF Suspend, SiteSound
<1> QED
  BY <1>2, <1>3, <1>4, <1>5, <1>6 DEF SiteNext

\* A worker changes hands only at a cutover, and that overtakes its readers.
LEMMA PublishKeeps == ASSUME ServingInv, Publish PROVE ServingInv'
<1>1. SiteTypeOK /\ SiteSound /\ SiteNext /\ cap' = cap
  BY DEF ServingInv, ServingTypeOK, Publish
<1>2. SiteTypeOK' /\ SiteSound'
  BY <1>1, SiteKeepsType, SiteStaysSound
<1>3. \A r \in released : r \in released' /\ (Followed(r) => Followed(r)')
  BY <1>1, StaysFollowed
<1>4. site'.active = site.active => site'.worker = site.worker
  BY <1>1, <1>2 DEF SiteSound
<1>5. ASSUME NEW v \in Visitors
      PROVE  visit'[v] \in VisitLocals /\ VisitSound(visit[v])'
  <2> DEFINE q == visit[v]
             s == visit'[v]
  <2>1. q \in VisitLocals /\ VisitSound(q)
    BY DEF ServingInv, ServingTypeOK
  <2>2. s = IF q.pc \in UnderWay /\ site'.active # site.active THEN [q EXCEPT !.moved = TRUE]
            ELSE q
    BY DEF Publish, Overtaken
  <2>3. /\ s \in VisitLocals /\ s.pc = q.pc /\ s.route = q.route /\ s.revision = q.revision
        /\ s.worker = q.worker /\ s.outcome = q.outcome /\ (q.moved => s.moved)
        /\ (q.pc \in UnderWay /\ site'.active # site.active => s.moved)
    BY <2>1, <2>2 DEF VisitLocals
  <2> HIDE DEF s
  <2>4. Consistent(visit[v])'
    <3>1. q.pc = "answered" /\ q.route # "preview" => q.revision \in released
      BY <2>1 DEF VisitSound
    <3>2. Consistent(q)
      BY <2>1 DEF VisitSound
    <3> QED
      BY <1>3, <2>3, <3>1, <3>2 DEF s, Consistent, Followed
  <2>5. q.pc = "worker" /\ site'.active = site.active =>
          s.worker # None /\ (s.worker = site'.worker \/ s.moved)
    BY <1>1, <1>2, <1>4, <2>1, <2>3 DEF VisitSound, SiteSound, UnderWay
  <2> QED
    BY <1>3, <2>1, <2>3, <2>4, <2>5 DEF s, VisitSound, UnderWay
<1>6. visit' \in [Visitors -> VisitLocals]
  BY <1>5 DEF Publish
<1> QED
  BY <1>1, <1>2, <1>5, <1>6 DEF ServingInv, ServingTypeOK

LEMMA ServingStep == ServingInv /\ [ServingNext]_servingVars => ServingInv'
<1> SUFFICES ASSUME ServingInv, [ServingNext]_servingVars PROVE ServingInv'
  OBVIOUS
<1>1. CASE Publish
  BY <1>1, PublishKeeps
<1>2. CASE GrantPreview \/ ExpirePreview \/ UNCHANGED servingVars
  <2>1. UNCHANGED <<site, released, newer, files, workers, visit>>
    BY <1>2 DEF GrantPreview, ExpirePreview, servingVars, siteVars
  <2>2. cap' \in {"none", "valid", "expired"}
    BY <1>2 DEF GrantPreview, ExpirePreview, servingVars, ServingInv, ServingTypeOK
  <2> QED
    BY <2>1, <2>2
       DEF ServingInv, ServingTypeOK, SiteTypeOK, SiteSound, VisitSound, Consistent, Followed
<1>3. ASSUME NEW v \in Visitors,
             ServeTenant(v) \/ MountHome(v) \/ ReadManifest(v) \/ ShowSchema(v) \/ RunTool(v)
      PROVE  ServingInv'
  BY <1>3, FindSiteKeeps DEF ServeTenant, MountHome, ReadManifest, ShowSchema, RunTool, Routes
<1>4. ASSUME NEW v \in Visitors, NEW revision \in Revisions, ReadRelease(v, revision)
      PROVE  ServingInv'
  BY <1>4, ReadReleaseKeeps
<1>5. ASSUME NEW v \in Visitors, ReadObject(v) \/ Dispatch(v) \/ RunWorker(v) PROVE ServingInv'
  BY <1>5, ReadObjectKeeps, DispatchKeeps, RunWorkerKeeps
<1>6. ASSUME NEW v \in Visitors, Close(v) PROVE ServingInv'
  BY <1>6, IdleVisitSound, VisitStep DEF Close
<1>7. ASSUME NEW v \in Visitors, ReadPreview(v) \/ ReadDraft(v) PROVE ServingInv'
  BY <1>7, PreviewKeeps
<1> QED
  BY <1>1, <1>2, <1>3, <1>4, <1>5, <1>6, <1>7 DEF ServingNext

(***************************************************************************)
(* No release lacks a file before Keep others have followed it, the active *)
(* worker is there, and a reader under way holds a revision that was       *)
(* released and is shown unless it was overtaken.                          *)
(***************************************************************************)
THEOREM ServingSound == ServingSpec => []ServingInv
<1>1. ServingInv /\ [ServingNext]_servingVars => ServingInv'
  BY ServingStep
<1> QED
  BY <1>1, ServingStarts, PTL DEF ServingSpec

(* assets.ts, dispatcher.ts and the Worker's site routes: a reader of an   *)
(* active site misses a file only of a release that Keep others have       *)
(* followed, and a worker only if another revision was activated.          *)
THEOREM ServesConsistently == ServingSpec => []ServedConsistently
<1>1. ServingInv => ServedConsistently
  BY DEF ServingInv, VisitSound, Consistent, ServedConsistently
<1> QED
  BY <1>1, ServingSound, PTL

-----------------------------------------------------------------------------
(***************************************************************************)
(* The services together.  Every step of MCServices is a step of one       *)
(* service and leaves the tables, records and calls of the others alone:   *)
(* whatever holds of a service alone holds of it among the others.         *)
(***************************************************************************)
LEMMA EachStarts ==
  Init => /\ SocialInit /\ FeedInit /\ DmInit /\ MediaInit
          /\ SessionInit /\ AccountInit /\ ServingInit /\ EgressInit
BY DEF Init

LEMMA EachSteps ==
  [Next]_<<scope, socialVars, feedVars, dmVars, mediaVars, sessionVars, accountVars,
           servingVars, egressVars>> =>
    /\ [SocialNext]_socialVars /\ [FeedNext]_feedVars
    /\ [DmNext]_dmVars /\ [MediaNext]_mediaVars
    /\ [SessionNext]_sessionVars /\ [AccountNext]_accountVars
    /\ [ServingNext]_servingVars /\ [EgressNext]_egressVars
BY DEF Next

LEMMA ServicesAreEach ==
  Spec => /\ SocialSpec /\ FeedSpec /\ DmSpec /\ MediaSpec
          /\ SessionSpec /\ AccountSpec /\ ServingSpec /\ EgressSpec
BY EachStarts, EachSteps, PTL DEF Spec, SocialSpec, FeedSpec, DmSpec, MediaSpec, SessionSpec,
   AccountSpec, ServingSpec, EgressSpec

\* The states of all services are of their types, for any number of requests,
\* readers, browsers, editors and visitors (src/apps/web/src/server).
THEOREM ServicesTyped == Spec => []ServicesTypeOK
<1>1. SocialInv /\ FeedInv /\ DmInv /\ MediaInv => SocialTypeOK /\ FeedTypeOK /\ DmTypeOK /\ MediaTypeOK
  BY DEF SocialInv, FeedInv, DmInv, MediaInv
<1>2. SessionInv /\ AccountInv /\ ServingInv => SessionTypeOK /\ AccountTypeOK /\ ServingTypeOK
  BY DEF SessionInv, AccountInv, ServingInv
<1>3. SocialTypeOK /\ FeedTypeOK /\ DmTypeOK /\ MediaTypeOK /\ SessionTypeOK /\ AccountTypeOK
      /\ ServingTypeOK /\ EgressTypeOK => ServicesTypeOK
  BY DEF ServicesTypeOK
<1> QED
  BY <1>1, <1>2, <1>3, ServicesAreEach, SocialSound, FeedSound, DmSound, MediaSound,
     SessionSound, AccountSound, ServingSound, EgressStaysTyped, PTL

\* What each service promises holds while all of them run: answers, feed,
\* deliveries, media, sessions, edits, pages and egress (each as stated above).
THEOREM ServicesHold ==
  Spec => [](/\ AnswerIsTruth /\ PublishedShown /\ DeletedBounded /\ DeliveredOnce
             /\ ReadyIsWhole /\ SessionsBacked /\ EditsKept
             /\ ServedConsistently /\ EgressConfined)
BY ServicesAreEach, AnswersAreTrue, PublishedIsShown, DeletedIsBounded, MessagesDeliveredOnce,
   ReadyMediaIsWhole, SessionsAreBacked, AcceptedEditsKept, ServesConsistently,
   EgressIsConfined, PTL
=============================================================================

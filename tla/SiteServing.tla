------------------------------ MODULE SiteServing ------------------------------
(***************************************************************************)
(* Serving one site while it is published again, suspended and restored:   *)
(* the tenant origin and the preview origin (site-runtime assets.ts), the  *)
(* runtime dispatcher (dispatcher.ts), and the Worker's home mount, tool   *)
(* manifest, tool execution and schema routes.  Each of them reads the     *)
(* site's row, then release files or the tenant's worker.  Publication is  *)
(* what PublishedSite says of it.  Every revision here has a page and a    *)
(* manifest.  Before the first publication the schema route shows the      *)
(* draft (SiteService.ts:300-316); the site here has been published.       *)
(***************************************************************************)
EXTENDS ServiceConstants, PublishedSite

VARIABLES cap,      \* the preview capability: none, valid or expired
          visit     \* visit[v]: a request between its awaits

servingVars == <<siteVars, cap, visit>>

Routes == {"page", "mount", "manifest", "release", "schema", "api", "tool", "preview"}
UnderWay == {"object", "runtime", "worker"}

(* The revision and the worker that were read; whether another revision    *)
(* has been activated since.                                               *)
VisitLocals ==
    [pc : {"idle", "answered"} \cup UnderWay, route : Routes, revision : Revisions \cup {None},
     worker : Revisions \cup {None}, moved : BOOLEAN,
     outcome : {"none", "served", "missing", "failed"}]

IdleVisit == [pc |-> "idle", route |-> "page", revision |-> None, worker |-> None,
              moved |-> FALSE, outcome |-> "none"]

ServingTypeOK ==
    /\ SiteTypeOK
    /\ cap \in {"none", "valid", "expired"}
    /\ visit \in [Visitors -> VisitLocals]

ServingInit ==
    /\ SiteInit
    /\ cap = "none"
    /\ visit = [v \in Visitors |-> IdleVisit]

-------------------------------------------------------------------------------
(* A step of the site; it overtakes the requests under way when it shows   *)
(* another revision.                                                       *)
Overtaken(q) ==
    IF q.pc \in UnderWay /\ site'.active # site.active THEN [q EXCEPT !.moved = TRUE] ELSE q

Publish ==
    /\ SiteNext
    /\ visit' = [v \in Visitors |-> Overtaken(visit[v])]
    /\ UNCHANGED cap

VisitTo(v, s) == visit' = [visit EXCEPT ![v] = s]
End(v, outcome) == VisitTo(v, [visit[v] EXCEPT !.pc = "answered", !.outcome = outcome])
RestOfSite == UNCHANGED <<siteVars, cap>>
SiteActive == site.status = "active" /\ site.active # None

(* The row is read; a site that is not active or has nothing published is  *)
(* a refusal.                                                              *)
FindSite(v, route, pc) ==
    /\ visit[v].pc = "idle"
    /\ SiteActive
    /\ VisitTo(v, [IdleVisit EXCEPT !.pc = pc, !.route = route, !.revision = site.active,
                                    !.worker = site.worker])
    /\ RestOfSite

(* The tenant origin: /api/ needs the row only to name the site to the     *)
(* runtime, everything else is a release file.                             *)
ServeTenant(v) == FindSite(v, "page", "object") \/ FindSite(v, "api", "runtime")

(* GET /api/home/mount: the authored home is the site's index or home.     *)
MountHome(v) == FindSite(v, "mount", "object")

(* GET /api/sites/manifest, SiteService.getPublicPageSchema: one file.     *)
ReadManifest(v) == FindSite(v, "manifest", "object")
ShowSchema(v) == FindSite(v, "schema", "object")

(* POST /api/__webmcp: a site without a worker has no tools; the manifest  *)
(* of the moment has to name the tool before it is called.                 *)
RunTool(v) == site.worker # None /\ FindSite(v, "tool", "object")

(* Phase-1 links name a revision; it has to be the active one.             *)
ReadRelease(v, revision) ==
    /\ visit[v].pc = "idle"
    /\ SiteActive /\ site.active = revision
    /\ VisitTo(v, [IdleVisit EXCEPT !.pc = "object", !.route = "release", !.revision = revision])
    /\ RestOfSite

(* The release file is read: page, index.html of the mount, manifest.  It  *)
(* can be missing only from a release that lacks some file.  A tool is     *)
(* called through the runtime once the manifest has named it.              *)
ReadObject(v) ==
    /\ visit[v].pc = "object" /\ visit[v].route # "preview"
    /\ \/ visit[v].revision \notin files /\ End(v, "missing")
       \/ visit[v].route = "tool" /\ VisitTo(v, [visit[v] EXCEPT !.pc = "runtime"])
       \/ visit[v].route # "tool" /\ End(v, "served")
    /\ RestOfSite

(* dispatcher.ts: OPTIONS, bad paths and sites over their rate are         *)
(* answered before the row is read a second time.                          *)
Dispatch(v) ==
    /\ visit[v].pc = "runtime"
    /\ \/ SiteActive /\ site.worker # None
          /\ VisitTo(v, [visit[v] EXCEPT !.pc = "worker", !.worker = site.worker])
       \/ ~(SiteActive /\ site.worker # None) /\ End(v, "missing")
       \/ VisitTo(v, IdleVisit)   \* 429, 413 or 503
    /\ RestOfSite

(* A worker that was retired meanwhile cannot be called (502).             *)
RunWorker(v) ==
    /\ visit[v].pc = "worker"
    /\ End(v, IF visit[v].worker \in workers THEN "served" ELSE "failed")
    /\ RestOfSite

Close(v) ==
    /\ visit[v].pc = "answered"
    /\ VisitTo(v, IdleVisit)
    /\ RestOfSite

-------------------------------------------------------------------------------
(* POST /api/sites/preview-session: a capability for ten minutes, for the  *)
(* owner's draft of the moment, which no release has to hold.              *)
GrantPreview ==
    /\ cap = "none"
    /\ cap' = "valid"
    /\ UNCHANGED <<siteVars, visit>>

ExpirePreview ==
    /\ cap = "valid"
    /\ cap' = "expired"
    /\ UNCHANGED <<siteVars, visit>>

(* The preview origin takes the token as ?cap= or as a cookie, looks the   *)
(* capability up each time, and reads files of the draft it names.         *)
ReadPreview(v) ==
    /\ visit[v].pc = "idle"
    /\ cap = "valid"
    /\ VisitTo(v, [IdleVisit EXCEPT !.pc = "object", !.route = "preview"])
    /\ RestOfSite

ReadDraft(v) ==
    /\ visit[v].pc = "object" /\ visit[v].route = "preview"
    /\ \/ End(v, "served") \/ End(v, "missing")
    /\ RestOfSite

ServingNext ==
    \/ Publish
    \/ GrantPreview \/ ExpirePreview
    \/ \E v \in Visitors :
         \/ ServeTenant(v) \/ MountHome(v) \/ ReadManifest(v) \/ ShowSchema(v) \/ RunTool(v)
         \/ \E revision \in Revisions : ReadRelease(v, revision)
         \/ ReadObject(v) \/ Dispatch(v) \/ RunWorker(v) \/ Close(v)
         \/ ReadPreview(v) \/ ReadDraft(v)

ServingSpec == ServingInit /\ [][ServingNext]_servingVars

(***************************************************************************)
(* A reader that found the site active misses a file of the release only   *)
(* if Keep others have followed that release meanwhile, and its worker     *)
(* only if another revision was activated; and a tool is run by the worker *)
(* of the release whose manifest allowed it, unless one was (assets.ts     *)
(* 200-230, dispatcher.ts, SiteService.ts:551-577).                        *)
(***************************************************************************)
ServedConsistently ==
    \A v \in Visitors :
        LET q == visit[v]
        IN q.pc = "answered" =>
             /\ q.outcome = "missing" /\ q.route \in Routes \ {"preview", "api", "tool"}
                  => Followed(q.revision)
             /\ q.outcome = "failed" => q.moved
             /\ q.outcome = "served" /\ q.route = "tool" => q.worker = q.revision \/ q.moved
===============================================================================

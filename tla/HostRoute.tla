------------------------------- MODULE HostRoute -------------------------------
(***************************************************************************)
(* The route shown by the host: every navigation starts a syncRoute, which *)
(* waits for the session, the zone and the embedded pages; older runs are  *)
(* still under way, and so are the live updates of the page before.  A     *)
(* zone is named by its path.                                              *)
(***************************************************************************)
EXTENDS Naturals, FiniteSets

CONSTANTS Paths,      \* pages, all the constants below among them
          Zones,      \* those with a zone
          Framed,     \* those with an embedded page: /, /district/:slug, /studio
          Polled,     \* those with the town square: / and /town
          MaxGen, MaxVersion

(* A zone's page has no town square, and logout goes to /.                 *)
ASSUME PathsAssumption ==
    /\ Zones \subseteq Paths /\ Framed \subseteq Paths /\ Polled \subseteq Paths
    /\ Zones \cap Polled = {}
    /\ "/" \in Paths /\ "" \notin Paths

ASSUME RouteBoundsAssumption == MaxGen \in Nat \ {0} /\ MaxVersion \in Nat \ {0}

VARIABLES path,       \* location.pathname
          gen,        \* state.routeGeneration
          sync,       \* the runs of syncRoute: pc, pathname, session, zone answer, page it embeds
          signed,     \* the session at the gateway
          logout,     \* the bridge's logout is under way
          cached,     \* state.cachedSession
          late,       \* an answer of before the logout was cached after it, or the logout's own was lost
          tools,      \* the generation and the session the tools were registered for
          live,       \* the poll, the socket or the reconnect timer
          hidden,     \* pagehide since the last navigation
          version,    \* of the zones, at the gateway
          latest,     \* state.latestZone
          scene,      \* what is drawn
          stray,      \* a zone answer came later than what the socket had shown
          note,       \* placeZoneNote
          frames,     \* how many iframes there are for a page
          misplaced   \* pages whose iframe came when it was not shown, or twice

routeVars == <<path, gen, sync, signed, logout, cached, late, tools, live, hidden, version,
               latest, scene, stray, note, frames, misplaced>>

Nothing == [kind |-> "none", page |-> "", at |-> 0]
At(kind, page, v) == [kind |-> kind, page |-> page, at |-> v]
NoSync == [pc |-> "none", path |-> "", who |-> "out", zone |-> 0, frame |-> ""]
Done == [NoSync EXCEPT !.pc = "done"]
NoNote == [pc |-> "none", zone |-> "", v |-> 0]

RouteTypeOK ==
    /\ path \in Paths
    /\ gen \in 1 .. MaxGen
    /\ \A g \in DOMAIN sync :
         sync[g].pc \in {"none", "session", "cached", "fetched", "zone", "read", "mounts", "done"}
    /\ {signed, cached} \subseteq {"none", "in", "out"}
    /\ live.kind \in {"none", "poll", "socket", "timer"}
    /\ version \in [Zones -> 1 .. MaxVersion]
    /\ frames \in [Framed -> 0 .. MaxGen]
    /\ latest.at <= MaxVersion /\ scene.at <= MaxVersion
    /\ note.pc \in {"none", "fetching", "placing", "placed", "read"}

Starting(p) ==
    [NoSync EXCEPT !.pc = IF cached = "none" THEN "session" ELSE "cached", !.path = p, !.who = cached]

(* As after start.ts: the first run of syncRoute waits for the session.    *)
RouteInit ==
    /\ path \in Paths
    /\ gen = 1
    /\ signed \in {"in", "out"} /\ cached = "none"
    /\ sync = [g \in 1 .. MaxGen |->
                 IF g = 1 THEN [NoSync EXCEPT !.pc = "session", !.path = path] ELSE NoSync]
    /\ logout = FALSE /\ late = FALSE /\ hidden = FALSE /\ stray = FALSE
    /\ tools = [gen |-> 0, who |-> "out"]
    /\ live = Nothing /\ latest = Nothing /\ scene = Nothing
    /\ version = [z \in Zones |-> 1]
    /\ note = NoNote
    /\ frames = [p \in Framed |-> 0] /\ misplaced = {}

session == <<signed, logout, cached, late>>
zone == <<version, latest, scene, stray, note>>
mounts == <<frames, misplaced>>

-------------------------------------------------------------------------------
(* navigate and popstate; the page may be the one that is shown.           *)
NavigateTo(p) ==
    /\ gen < MaxGen
    /\ path' = p /\ gen' = gen + 1
    /\ sync' = [sync EXCEPT ![gen + 1] = Starting(p)]
    /\ hidden' = FALSE
    /\ UNCHANGED <<session, tools, live, zone, mounts>>

(* /api/session is answered; no answer counts as signed out.               *)
ServeSession(g) ==
    /\ sync[g].pc = "session"
    /\ \/ sync' = [sync EXCEPT ![g].pc = "fetched", ![g].who = signed]
       \/ sync' = [sync EXCEPT ![g].pc = "cached", ![g].who = "out"]
    /\ UNCHANGED <<path, gen, session, tools, live, hidden, zone, mounts>>

\* Mutant: an iframe is removed without a look whether there is one.
RemovedBlindly == [p \in Framed |-> frames[p] - 1]

(* The embedded pages: each resolver removes its iframe, if there is one   *)
(* (one, even if there are two), and the one of the location shown is      *)
(* awaited; the studio's only when signed in.                              *)
Removed == [p \in Framed |-> IF frames[p] = 0 THEN 0 ELSE frames[p] - 1]

Awaited == IF path \in Framed THEN path ELSE ""

EnterMounts(g, s) ==
    /\ sync' = [sync EXCEPT ![g] = [s EXCEPT !.pc = "mounts", !.zone = 0, !.frame = Awaited]]
    /\ frames' = Removed
    /\ misplaced' = {p \in misplaced : Removed[p] > 0}

(* The rest of getSession and what follows it: the cache is written even   *)
(* by a run that is overtaken.                                             *)
Cache(s) ==
    IF s.pc = "fetched"
    THEN /\ cached' = s.who
         /\ late' = (late \/ (s.who = "in" /\ signed = "out" /\ ~logout))
    ELSE UNCHANGED <<cached, late>>

Resume(g) ==
    LET s == sync[g]
    IN /\ s.pc \in {"cached", "fetched"}
       /\ Cache(s)
       /\ IF g # gen
          THEN /\ sync' = [sync EXCEPT ![g] = Done]
               /\ UNCHANGED <<tools, scene, mounts>>
          ELSE /\ tools' = [gen |-> g, who |-> s.who]
               /\ IF s.path \in Zones
                  THEN sync' = [sync EXCEPT ![g].pc = "zone", ![g].who = "out"]
                       /\ UNCHANGED <<scene, mounts>>
                  ELSE scene' = Nothing /\ EnterMounts(g, [s EXCEPT !.who = "out"])
       /\ UNCHANGED <<path, gen, signed, logout, live, hidden, version, latest, stray, note>>

ServeZone(g) ==
    /\ sync[g].pc = "zone"
    /\ sync' = [sync EXCEPT ![g].pc = "read", ![g].zone = version[sync[g].path]]
    /\ UNCHANGED <<path, gen, session, tools, live, hidden, zone, mounts>>

(* The answer of a zone request is shown whatever the page is by then.     *)
refreshZone(z, v) ==
    /\ latest' = At("zone", z, v) /\ scene' = latest'
    /\ stray' = (stray \/ live.kind # "socket" \/ live.page # z \/ v < live.at)

ZoneRead(g) ==
    /\ sync[g].pc = "read"
    /\ refreshZone(sync[g].path, sync[g].zone) \/ UNCHANGED <<latest, scene, stray>>
    /\ EnterMounts(g, sync[g])
    /\ UNCHANGED <<path, gen, session, tools, live, hidden, version, note>>

(* The iframe is appended, wherever the page is by then, or there is none. *)
AppendFrame(g) ==
    /\ sync[g].pc = "mounts" /\ sync[g].frame # ""
    /\ sync' = [sync EXCEPT ![g].frame = ""]
    /\ LET p == sync[g].frame
       IN \/ /\ frames' = [frames EXCEPT ![p] = @ + 1]
             /\ misplaced' = misplaced \cup (IF path # p \/ frames[p] > 0 THEN {p} ELSE {})
          \/ UNCHANGED mounts
    /\ UNCHANGED <<path, gen, session, tools, live, hidden, zone>>

(* startLiveUpdates; stopLiveUpdates before it forgets the zone shown.  A  *)
(* socket is at the version before its snapshot.                           *)
connectZoneSocket(z) == IF path = z THEN At("socket", z, version[z] - 1) ELSE Nothing
startLiveUpdates(p) ==
    CASE p \in Polled -> At("poll", p, 0)
      [] p \in Zones -> connectZoneSocket(p)
      [] OTHER -> Nothing

\* Mutant: the generation is not looked at again at the end.
FinishAlways(g) ==
    /\ sync[g].pc = "mounts" /\ sync[g].frame = ""
    /\ sync' = [sync EXCEPT ![g] = Done]
    /\ live' = startLiveUpdates(sync[g].path) /\ latest' = Nothing
    /\ UNCHANGED <<path, gen, session, tools, hidden, version, scene, stray, note, mounts>>

Finish(g) ==
    /\ sync[g].pc = "mounts" /\ sync[g].frame = ""
    /\ sync' = [sync EXCEPT ![g] = Done]
    /\ IF g = gen
       THEN live' = startLiveUpdates(sync[g].path) /\ latest' = Nothing
       ELSE UNCHANGED <<live, latest>>
    /\ UNCHANGED <<path, gen, session, tools, hidden, version, scene, stray, note, mounts>>

-------------------------------------------------------------------------------
\* Mutant: only mutations are shown, not the snapshot a socket begins with.
MessageOfMutation ==
    /\ live.kind = "socket" /\ live.at < version[live.page]
    /\ live' = [live EXCEPT !.at = @ + 1]
    /\ IF latest.kind = "none"
       THEN UNCHANGED <<latest, scene, stray>>
       ELSE latest' = At("zone", live.page, live.at + 1) /\ scene' = latest' /\ stray' = FALSE
    /\ UNCHANGED <<path, gen, sync, session, tools, hidden, version, note, mounts>>

(* A snapshot or a mutation, in order.                                     *)
Message ==
    /\ live.kind = "socket" /\ live.at < version[live.page]
    /\ live' = [live EXCEPT !.at = @ + 1]
    /\ latest' = At("zone", live.page, live.at + 1) /\ scene' = latest' /\ stray' = FALSE
    /\ UNCHANGED <<path, gen, sync, session, tools, hidden, version, note, mounts>>

(* The window is resized: what is drawn again are the objects of the zone  *)
(* shown last, or none (0) if it was another one or is forgotten.          *)
Resize ==
    /\ scene.kind = "zone"
    /\ scene' = [scene EXCEPT !.at = IF latest.page = scene.page THEN latest.at ELSE 0]
    /\ UNCHANGED <<path, gen, sync, session, tools, live, hidden, version, latest, stray, note, mounts>>

(* onclose, and the timer it sets.                                         *)
SocketCloses ==
    /\ live.kind = "socket"
    /\ live' = IF path = live.page THEN At("timer", live.page, 0) ELSE Nothing
    /\ UNCHANGED <<path, gen, sync, session, tools, hidden, zone, mounts>>

Reconnect ==
    /\ live.kind = "timer"
    /\ live' = connectZoneSocket(live.page)
    /\ UNCHANGED <<path, gen, sync, session, tools, hidden, zone, mounts>>

(* The page goes to the back/forward cache, from which it may be resumed.  *)
PageHide ==
    /\ ~hidden
    /\ hidden' = TRUE
    /\ live' = Nothing /\ latest' = Nothing
    /\ tools' = [gen |-> 0, who |-> "out"]
    /\ UNCHANGED <<path, gen, sync, session, version, scene, stray, note, mounts>>

(* Thirty seconds: the cached session is out of date.                      *)
CacheExpires ==
    /\ cached # "none" /\ cached' = "none"
    /\ UNCHANGED <<path, gen, sync, signed, logout, late, tools, live, hidden, zone, mounts>>

-------------------------------------------------------------------------------
(* The bridge's logout.                                                    *)
ServeLogout ==
    /\ signed = "in" /\ ~logout
    /\ signed' = "out" /\ logout' = TRUE
    /\ UNCHANGED <<path, gen, sync, cached, late, tools, live, hidden, zone, mounts>>

LogoutDone ==
    /\ logout /\ gen < MaxGen
    /\ logout' = FALSE /\ cached' = "none"
    /\ path' = "/" /\ gen' = gen + 1
    /\ sync' = [sync EXCEPT ![gen + 1] = [NoSync EXCEPT !.pc = "session", !.path = "/"]]
    /\ hidden' = FALSE
    /\ UNCHANGED <<signed, late, tools, live, zone, mounts>>

LogoutLost ==
    /\ logout /\ logout' = FALSE /\ late' = TRUE
    /\ UNCHANGED <<path, gen, sync, signed, cached, tools, live, hidden, zone, mounts>>

(* placeZoneNote takes the version shown, or asks for it.                  *)
PlaceNote(z) ==
    /\ note.pc = "none" /\ path = z
    /\ note' = IF latest.page = z THEN [pc |-> "placing", zone |-> z, v |-> latest.at]
                                  ELSE [pc |-> "fetching", zone |-> z, v |-> 0]
    /\ UNCHANGED <<path, gen, sync, session, tools, live, hidden, version, latest, scene, stray, mounts>>

NoteStep ==
    /\ \/ /\ note.pc = "fetching"
          /\ note' = [note EXCEPT !.pc = "placing", !.v = version[note.zone]]
          /\ UNCHANGED <<version, latest, scene, stray>>
       \/ /\ note.pc = "placing" /\ note.v = version[note.zone] /\ version[note.zone] < MaxVersion
          /\ version' = [version EXCEPT ![note.zone] = @ + 1]
          /\ note' = [note EXCEPT !.pc = "placed"]
          /\ UNCHANGED <<latest, scene, stray>>
       \/ /\ note.pc = "placing" /\ note.v # version[note.zone]
          /\ note' = NoNote
          /\ UNCHANGED <<version, latest, scene, stray>>
       \/ /\ note.pc = "placed"
          /\ note' = [note EXCEPT !.pc = "read", !.v = version[note.zone]]
          /\ UNCHANGED <<version, latest, scene, stray>>
       \/ /\ note.pc = "read"
          /\ note' = NoNote
          /\ refreshZone(note.zone, note.v) \/ UNCHANGED <<latest, scene, stray>>
          /\ UNCHANGED version
    /\ UNCHANGED <<path, gen, sync, session, tools, live, hidden, mounts>>

(* Another visitor's mutation.                                             *)
Mutation(z) ==
    /\ version[z] < MaxVersion
    /\ version' = [version EXCEPT ![z] = @ + 1]
    /\ UNCHANGED <<path, gen, sync, session, tools, live, hidden, latest, scene, stray, note, mounts>>

RouteNext ==
    \/ \E p \in Paths : NavigateTo(p)
    \/ \E g \in 1 .. gen : \/ ServeSession(g) \/ Resume(g) \/ ServeZone(g) \/ ZoneRead(g)
                           \/ AppendFrame(g) \/ Finish(g)
    \/ Message \/ Resize \/ SocketCloses \/ Reconnect \/ PageHide \/ CacheExpires
    \/ ServeLogout \/ LogoutDone \/ LogoutLost
    \/ \E z \in Zones : PlaceNote(z) \/ Mutation(z)
    \/ NoteStep

RouteSpec == RouteInit /\ [][RouteNext]_routeVars

-------------------------------------------------------------------------------
Settled == sync[gen].pc = "done" /\ ~hidden /\ ~logout

(* Live updates are those of the page, the tools those of the newest run   *)
(* and of a session that is still there, and no page is left embedded,     *)
(* save one whose iframe came too late or twice.                           *)
RouteSettled ==
    Settled =>
        /\ path \in Polled => live.kind = "poll"
        /\ path \in Zones => live.kind \in {"socket", "timer"} /\ live.page = path
        /\ path \notin Polled \cup Zones => live.kind = "none"
        /\ tools.gen = gen
        /\ tools.who = "in" => signed = "in" \/ late
        /\ \A p \in Framed : frames[p] > 0 => p = path \/ p \in misplaced

(* Once the socket has caught up the zone shown is the zone there is,      *)
(* save when a slower answer was shown over what the socket had said.      *)
ZoneCurrent ==
    Settled /\ live.kind = "socket" /\ live.at = version[live.page] =>
        stray \/ (latest = At("zone", path, version[path]) /\ scene = latest)
===============================================================================

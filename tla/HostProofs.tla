-------------------------------- MODULE HostProofs --------------------------------
(***************************************************************************)
(* Proofs about the page's own side: HostRoute and HostComposers, one      *)
(* after the other, the types of HostCalls, and the three together.  They  *)
(* share no state; each part begins with its argument.  HostCalls has no   *)
(* constants: what else it promises its run checks exhaustively.           *)
(***************************************************************************)
EXTENDS MCHost, SequenceTheorems, FiniteSetTheorems, TLAPS

-----------------------------------------------------------------------------
(***************************************************************************)
(* Proofs about HostRoute for any pages and any number of navigations and  *)
(* zone versions.  The invariant has one part per thing the page keeps in  *)
(* step with its route: the runs of syncRoute, the live updates, the tools *)
(* and their session, the iframes, and the zone drawn.  Each part says     *)
(* what holds from the moment the newest run gets that far; an older run   *)
(* that is still under way must not take it back.                          *)
(***************************************************************************)

Gens == 1..MaxGen
Versions == 0..MaxVersion
Sessions == {"none", "in", "out"}
Syncs == [pc : {"none", "session", "cached", "fetched", "zone", "read", "mounts", "done"},
          path : Paths \cup {""}, who : Sessions, zone : Versions, frame : Framed \cup {""}]
Lives == [kind : {"none", "poll", "socket", "timer"}, page : Paths \cup {""}, at : Versions]
Shown == [kind : {"none", "zone"}, page : Zones \cup {""}, at : Versions]
Notes == [pc : {"none", "fetching", "placing", "placed", "read"}, zone : Zones \cup {""},
          v : Versions]

RouteTyped ==
    /\ path \in Paths /\ gen \in Gens
    /\ sync \in [Gens -> Syncs]
    /\ signed \in {"in", "out"} /\ cached \in Sessions
    /\ logout \in BOOLEAN /\ late \in BOOLEAN /\ hidden \in BOOLEAN /\ stray \in BOOLEAN
    /\ tools \in [gen : 0..MaxGen, who : Sessions]
    /\ live \in Lives /\ latest \in Shown /\ scene \in Shown
    /\ version \in [Zones -> 1..MaxVersion]
    /\ note \in Notes
    /\ frames \in [Framed -> Nat] /\ misplaced \subseteq Framed

\* Versions read are versions the zone had.
Reads ==
    /\ \A g \in Gens : sync[g].pc \in {"zone", "read"} => sync[g].path \in Zones
    /\ \A g \in Gens : sync[g].pc = "read" => sync[g].zone <= version[sync[g].path]
    /\ note.pc # "none" => note.zone \in Zones
    /\ note.pc = "read" => note.v <= version[note.zone]
    /\ live.kind \in {"socket", "timer"} => live.page \in Zones
    /\ live.kind = "socket" => live.at <= version[live.page]

\* The newest run is the one of the page shown, and the last one there is.
Newest ==
    /\ \A g \in Gens : g > gen => sync[g].pc = "none"
    /\ sync[gen].pc # "none"
    /\ sync[gen].pc # "done" => sync[gen].path = path
    /\ tools.gen <= gen

RouteBase == RouteTyped /\ Reads /\ Newest

\* All other runs are where they were.
OnlyRun(g) == \A h \in Gens \ {g} : sync'[h] = sync[h]

LEMMA VersionFacts ==
    0 \in Versions /\ (\A v \in 1..MaxVersion : v \in Versions) /\ \A v \in Versions : v \in Nat
BY RouteBoundsAssumption DEF Versions

LEMMA NothingTyped ==
    /\ NoSync \in Syncs /\ NoSync.pc = "none"
    /\ Done \in Syncs /\ Done.pc = "done" /\ Done.frame = ""
    /\ Nothing \in Lives /\ Nothing \in Shown /\ Nothing.kind = "none"
    /\ NoNote \in Notes /\ NoNote.pc = "none"
<1>1. 0 \in Versions
  BY RouteBoundsAssumption DEF Versions
<1>2. NoSync \in Syncs /\ NoSync.pc = "none" /\ NoSync.frame = ""
  BY <1>1 DEF NoSync, Syncs, Sessions
<1>3. Done \in Syncs /\ Done.pc = "done" /\ Done.frame = ""
  BY <1>2 DEF Done, Syncs
<1>4. Nothing \in Lives /\ Nothing \in Shown /\ Nothing.kind = "none"
  BY <1>1 DEF Nothing, Lives, Shown
<1>5. NoNote \in Notes /\ NoNote.pc = "none"
  BY <1>1 DEF NoNote, Notes
<1> QED
  BY <1>2, <1>3, <1>4, <1>5

LEMMA ShownTyped ==
    ASSUME NEW z \in Zones, NEW v \in Versions
    PROVE  /\ At("zone", z, v) \in Shown
           /\ At("zone", z, v).kind = "zone" /\ At("zone", z, v).page = z
           /\ At("zone", z, v).at = v
BY DEF At, Shown

LEMMA StartingTyped ==
    ASSUME RouteTyped, NEW p \in Paths
    PROVE  /\ Starting(p) \in Syncs /\ Starting(p).path = p
           /\ Starting(p).pc \in {"session", "cached"}
           /\ Starting(p).pc = "cached" => Starting(p).who = cached /\ cached # "none"
<1>1. NoSync \in Syncs
  BY NothingTyped
<1>2. cached \in Sessions
  BY DEF RouteTyped
<1> QED
  BY <1>1, <1>2 DEF Starting, Syncs

-----------------------------------------------------------------------------
(* What each step of a run does to the runs.                               *)

LEMMA NavigateToDoes ==
    ASSUME RouteBase, NEW p \in Paths, NavigateTo(p)
    PROVE  /\ gen' = gen + 1 /\ gen' \in Gens /\ path' = p /\ hidden' = FALSE
           /\ sync' \in [Gens -> Syncs] /\ OnlyRun(gen')
           /\ sync'[gen'] = Starting(p)
<1>1. gen \in Gens /\ gen < MaxGen /\ sync \in [Gens -> Syncs] /\ gen' = gen + 1
  BY DEF RouteBase, RouteTyped, NavigateTo
<1>2. gen + 1 \in Gens
  BY <1>1, RouteBoundsAssumption DEF Gens
<1>3. Starting(p) \in Syncs
  BY StartingTyped DEF RouteBase
<1> QED
  BY <1>1, <1>2, <1>3 DEF NavigateTo, OnlyRun

LEMMA LogoutDoneDoes ==
    ASSUME RouteBase, LogoutDone
    PROVE  /\ gen' = gen + 1 /\ gen' \in Gens /\ path' = "/" /\ hidden' = FALSE
           /\ sync' \in [Gens -> Syncs] /\ OnlyRun(gen')
           /\ sync'[gen'].pc = "session" /\ sync'[gen'].path = "/"
<1> DEFINE s == [NoSync EXCEPT !.pc = "session", !.path = "/"]
<1>1. gen \in Gens /\ gen < MaxGen /\ sync \in [Gens -> Syncs] /\ gen' = gen + 1
  BY DEF RouteBase, RouteTyped, LogoutDone
<1>2. gen + 1 \in Gens
  BY <1>1, RouteBoundsAssumption DEF Gens
<1>3. s \in Syncs /\ s.pc = "session" /\ s.path = "/"
  BY NothingTyped, PathsAssumption DEF Syncs
<1>4. sync' = [sync EXCEPT ![gen + 1] = s]
  BY DEF LogoutDone
<1> HIDE DEF s
<1> QED
  BY <1>1, <1>2, <1>3, <1>4 DEF LogoutDone, OnlyRun

LEMMA ServeSessionDoes ==
    ASSUME RouteBase, NEW g \in Gens, ServeSession(g)
    PROVE  /\ sync' \in [Gens -> Syncs] /\ OnlyRun(g) /\ sync[g].pc = "session"
           /\ sync'[g].pc \in {"fetched", "cached"} /\ sync'[g].who \in {signed, "out"}
           /\ sync'[g].path = sync[g].path
<1>1. sync \in [Gens -> Syncs] /\ signed \in {"in", "out"}
  BY DEF RouteBase, RouteTyped
<1>2. ASSUME NEW pc \in {"fetched", "cached"}, NEW who \in {signed, "out"},
             sync' = [sync EXCEPT ![g].pc = pc, ![g].who = who]
      PROVE  /\ sync' \in [Gens -> Syncs] /\ OnlyRun(g)
             /\ sync'[g].pc = pc /\ sync'[g].who = who /\ sync'[g].path = sync[g].path
  <2>1. who \in Sessions
    BY <1>1 DEF Sessions
  <2> QED
    BY <1>1, <1>2, <2>1 DEF OnlyRun, Syncs
<1>3. PICK pc \in {"fetched", "cached"}, who \in {signed, "out"} :
        sync' = [sync EXCEPT ![g].pc = pc, ![g].who = who]
  BY DEF ServeSession
<1> QED
  BY <1>2, <1>3 DEF ServeSession

LEMMA ServeZoneDoes ==
    ASSUME RouteBase, NEW g \in Gens, ServeZone(g)
    PROVE  /\ sync' \in [Gens -> Syncs] /\ OnlyRun(g) /\ sync[g].pc = "zone"
           /\ sync'[g].pc = "read" /\ sync[g].path \in Zones
           /\ sync'[g].path = sync[g].path /\ sync'[g].zone = version[sync[g].path]
<1>1. sync \in [Gens -> Syncs] /\ version \in [Zones -> 1..MaxVersion]
      /\ sync[g].pc = "zone" /\ sync[g].path \in Zones
  BY DEF RouteBase, RouteTyped, Reads, ServeZone
<1>2. version[sync[g].path] \in Versions
  BY <1>1, RouteBoundsAssumption DEF Versions
<1> QED
  BY <1>1, <1>2 DEF ServeZone, OnlyRun, Syncs

\* A run that reaches the embedded pages.
Entered(g, p) ==
    /\ sync' \in [Gens -> Syncs] /\ OnlyRun(g)
    /\ sync'[g].pc = "mounts" /\ sync'[g].path = p /\ sync'[g].frame = Awaited

LEMMA EnterMountsDoes ==
    ASSUME RouteTyped, NEW g \in Gens, NEW s \in Syncs, EnterMounts(g, s)
    PROVE  Entered(g, s.path)
<1> DEFINE t == [s EXCEPT !.pc = "mounts", !.zone = 0, !.frame = Awaited]
<1>1. sync \in [Gens -> Syncs] /\ 0 \in Versions
  BY RouteBoundsAssumption DEF RouteTyped, Versions
<1>a. Awaited \in Framed \cup {""}
  BY DEF Awaited
<1>2. t \in Syncs /\ t.pc = "mounts" /\ t.path = s.path /\ t.frame = Awaited
  BY <1>1, <1>a DEF Syncs
<1>3. sync' = [sync EXCEPT ![g] = t]
  BY DEF EnterMounts
<1> HIDE DEF t
<1> QED
  BY <1>1, <1>2, <1>3 DEF Entered, OnlyRun

LEMMA ResumeDoes ==
    ASSUME RouteBase, NEW g \in Gens, Resume(g)
    PROVE  /\ sync[g].pc \in {"cached", "fetched"} /\ Cache(sync[g])
           /\ sync' \in [Gens -> Syncs] /\ OnlyRun(g)
           /\ \/ /\ g # gen /\ sync'[g].pc = "done"
                 /\ UNCHANGED <<tools, scene, frames, misplaced>>
              \/ /\ g = gen /\ tools' = [gen |-> g, who |-> sync[g].who]
                 /\ sync'[g].pc = "zone" /\ sync'[g].path = sync[g].path
                 /\ sync[g].path \in Zones /\ UNCHANGED <<scene, frames, misplaced>>
              \/ /\ g = gen /\ tools' = [gen |-> g, who |-> sync[g].who]
                 /\ sync[g].path \notin Zones /\ scene' = Nothing
                 /\ EnterMounts(g, [sync[g] EXCEPT !.who = "out"])
                 /\ Entered(g, sync[g].path)
<1>1. sync \in [Gens -> Syncs] /\ sync[g] \in Syncs /\ RouteTyped
  BY DEF RouteBase, RouteTyped
<1>2. sync[g].pc \in {"cached", "fetched"} /\ Cache(sync[g])
  BY DEF Resume
<1>3. CASE g # gen
  <2>1. sync' = [sync EXCEPT ![g] = Done] /\ UNCHANGED <<tools, scene, frames, misplaced>>
    BY <1>3 DEF Resume, mounts
  <2> QED
    BY <1>1, <1>2, <1>3, <2>1, NothingTyped DEF OnlyRun
<1>4. CASE g = gen /\ sync[g].path \in Zones
  <2>1. /\ sync' = [sync EXCEPT ![g].pc = "zone", ![g].who = "out"]
        /\ tools' = [gen |-> g, who |-> sync[g].who] /\ UNCHANGED <<scene, frames, misplaced>>
    BY <1>4 DEF Resume, mounts
  <2> QED
    BY <1>1, <1>2, <1>4, <2>1 DEF OnlyRun, Syncs, Sessions
<1>5. CASE g = gen /\ sync[g].path \notin Zones
  <2> DEFINE s == [sync[g] EXCEPT !.who = "out"]
  <2>1. /\ EnterMounts(g, s) /\ scene' = Nothing
        /\ tools' = [gen |-> g, who |-> sync[g].who]
    BY <1>5 DEF Resume
  <2>2. s \in Syncs /\ s.path = sync[g].path
    BY <1>1 DEF Syncs, Sessions
  <2>3. Entered(g, sync[g].path)
    BY <1>1, <2>1, <2>2, EnterMountsDoes
  <2> QED
    BY <1>2, <1>5, <2>1, <2>3 DEF Entered
<1> QED
  BY <1>3, <1>4, <1>5

LEMMA ZoneReadDoes ==
    ASSUME RouteBase, NEW g \in Gens, ZoneRead(g)
    PROVE  /\ sync[g].pc = "read" /\ Entered(g, sync[g].path) /\ EnterMounts(g, sync[g])
           /\ sync[g].path \in Zones /\ sync[g].zone \in Versions
           /\ sync[g].zone <= version[sync[g].path]
<1>1. sync[g] \in Syncs /\ RouteTyped /\ sync[g].pc = "read" /\ EnterMounts(g, sync[g])
  BY DEF RouteBase, RouteTyped, ZoneRead
<1>2. sync[g].zone \in Versions
  BY <1>1 DEF Syncs
<1> QED
  BY <1>1, <1>2, EnterMountsDoes DEF RouteBase, Reads

LEMMA AppendFrameDoes ==
    ASSUME RouteBase, NEW g \in Gens, AppendFrame(g)
    PROVE  /\ sync' \in [Gens -> Syncs] /\ OnlyRun(g)
           /\ sync[g].pc = "mounts" /\ sync[g].frame \in Framed
           /\ sync'[g].pc = "mounts" /\ sync'[g].frame = "" /\ sync'[g].path = sync[g].path
<1>1. sync \in [Gens -> Syncs] /\ sync[g].pc = "mounts" /\ sync[g].frame # ""
      /\ sync' = [sync EXCEPT ![g].frame = ""]
  BY DEF RouteBase, RouteTyped, AppendFrame
<1> QED
  BY <1>1 DEF OnlyRun, Syncs

LEMMA FinishDoes ==
    ASSUME RouteBase, NEW g \in Gens, Finish(g)
    PROVE  /\ sync' \in [Gens -> Syncs] /\ OnlyRun(g)
           /\ sync[g].pc = "mounts" /\ sync[g].frame = ""
           /\ sync'[g].pc = "done" /\ sync'[g].frame = ""
           /\ g = gen => live' = startLiveUpdates(path) /\ latest' = Nothing
           /\ g # gen => UNCHANGED <<live, latest>>
<1>1. sync \in [Gens -> Syncs] /\ sync' = [sync EXCEPT ![g] = Done] /\ sync[g].pc = "mounts"
  BY DEF RouteBase, RouteTyped, Finish
<1>2. Done \in Syncs /\ Done.pc = "done" /\ Done.frame = ""
  BY NothingTyped
<1>3. g = gen => sync[g].path = path
  BY <1>1 DEF RouteBase, Newest
<1> QED
  BY <1>1, <1>2, <1>3 DEF Finish, OnlyRun

LEMMA StartLiveDoes ==
    ASSUME RouteTyped
    PROVE  /\ startLiveUpdates(path) \in Lives
           /\ path \in Polled => startLiveUpdates(path).kind = "poll"
           /\ path \in Zones =>
                /\ startLiveUpdates(path).kind = "socket" /\ startLiveUpdates(path).page = path
                /\ startLiveUpdates(path).at < version[path]
           /\ path \notin Polled \cup Zones => startLiveUpdates(path).kind = "none"
<1>1. CASE path \in Polled
  <2>1. path \notin Zones
    BY <1>1, PathsAssumption, Zenon
  <2>2. startLiveUpdates(path) = At("poll", path, 0)
    BY <1>1, <2>1 DEF startLiveUpdates
  <2>3. path \in Paths
    BY DEF RouteTyped
  <2>4. 0 \in Versions
    BY RouteBoundsAssumption DEF Versions
  <2>5. At("poll", path, 0) \in Lives /\ At("poll", path, 0).kind = "poll"
    BY <2>3, <2>4 DEF At, Lives
  <2> QED
    BY <1>1, <2>1, <2>2, <2>5
<1>2. CASE path \in Zones
  <2>1. path \notin Polled
    BY <1>2, PathsAssumption
  <2>2. startLiveUpdates(path) = At("socket", path, version[path] - 1)
    BY <1>2, <2>1 DEF startLiveUpdates, connectZoneSocket
  <2>3. version[path] \in 1..MaxVersion
    BY <1>2 DEF RouteTyped
  <2>4. version[path] - 1 \in Versions /\ version[path] - 1 < version[path]
    BY <2>3, RouteBoundsAssumption DEF Versions
  <2>5. path \in Paths
    BY DEF RouteTyped
  <2> DEFINE v == version[path] - 1
  <2>6. /\ At("socket", path, v) \in Lives /\ At("socket", path, v).kind = "socket"
        /\ At("socket", path, v).page = path /\ At("socket", path, v).at = v
    <3> HIDE DEF v
    <3> QED
      BY <2>4, <2>5 DEF At, Lives, v
  <2> QED
    BY <1>2, <2>1, <2>2, <2>4, <2>6
<1>3. CASE path \notin Polled \cup Zones
  <2>1. startLiveUpdates(path) = Nothing
    BY <1>3 DEF startLiveUpdates
  <2> QED
    BY <1>3, <2>1, NothingTyped
<1> QED
  BY <1>1, <1>2, <1>3

(* What the other steps do.                                                *)

LEMMA GensFacts == ASSUME RouteBase PROVE gen \in Gens /\ \A g \in 1..gen : g \in Gens
BY RouteBoundsAssumption DEF RouteBase, RouteTyped, Gens

LEMMA RefreshDoes ==
    ASSUME RouteBase, NEW z \in Zones, NEW v \in Versions, refreshZone(z, v)
    PROVE  /\ latest' \in Shown /\ scene' \in Shown /\ stray' \in BOOLEAN
           /\ scene' = latest' /\ latest' = At("zone", z, v)
           /\ stray' = (stray \/ live.kind # "socket" \/ live.page # z \/ v < live.at)
BY ShownTyped DEF refreshZone

LEMMA MessageDoes ==
    ASSUME RouteBase, Message
    PROVE  /\ live.kind = "socket" /\ live.page \in Zones /\ live.at + 1 <= version[live.page]
           /\ live' \in Lives /\ live'.kind = "socket" /\ live'.page = live.page
           /\ live'.at = live.at + 1 /\ stray' = FALSE
           /\ latest' \in Shown /\ scene' \in Shown /\ scene' = latest'
           /\ latest' = At("zone", live.page, live.at + 1)
<1>1. live \in Lives /\ live.kind = "socket" /\ live.page \in Zones /\ live.at \in Versions
  BY DEF RouteBase, RouteTyped, Reads, Message, Lives
<1>2. version[live.page] \in 1..MaxVersion /\ live.at < version[live.page]
  BY <1>1 DEF RouteBase, RouteTyped, Message
<1>3. live.at + 1 \in Versions /\ live.at + 1 <= version[live.page]
  BY <1>1, <1>2, RouteBoundsAssumption DEF Versions
<1>4. live' = [live EXCEPT !.at = live.at + 1]
  BY DEF Message
<1>5. /\ latest' = At("zone", live.page, live.at + 1) /\ scene' = latest' /\ stray' = FALSE
  BY DEF Message
<1>6. live' \in Lives /\ live'.kind = "socket" /\ live'.page = live.page
      /\ live'.at = live.at + 1
  BY <1>1, <1>3, <1>4 DEF Lives
<1> QED
  BY <1>1, <1>3, <1>5, <1>6, ShownTyped

LEMMA ResizeDoes ==
    ASSUME RouteBase, Resize
    PROVE  /\ scene' \in Shown
           /\ latest = scene => scene' = scene
<1>1. scene \in Shown /\ latest \in Shown /\ 0 \in Versions
  BY RouteBoundsAssumption DEF RouteBase, RouteTyped, Versions
<1>2. PICK v \in Versions : scene' = [scene EXCEPT !.at = v] /\ (latest = scene => v = scene.at)
  BY <1>1 DEF Resize, Shown
<1> QED
  BY <1>1, <1>2 DEF Shown

LEMMA SocketClosesDoes ==
    ASSUME RouteBase, SocketCloses
    PROVE  /\ live.kind = "socket" /\ live' \in Lives /\ live'.kind \in {"timer", "none"}
           /\ live'.kind = "timer" => live'.page \in Zones
           /\ path = live.page => live'.kind = "timer" /\ live'.page = path
<1>1. live.kind = "socket" /\ live.page \in Zones
  BY DEF RouteBase, Reads, SocketCloses
<1>2. live.page \in Paths /\ 0 \in Versions
  BY <1>1, PathsAssumption, VersionFacts
<1>3. CASE path = live.page
  <2>1. live' = At("timer", live.page, 0)
    BY <1>3 DEF SocketCloses
  <2> QED
    BY <1>1, <1>2, <1>3, <2>1 DEF At, Lives
<1>4. CASE path # live.page
  <2>1. live' = Nothing
    BY <1>4 DEF SocketCloses
  <2> QED
    BY <1>1, <1>4, <2>1, NothingTyped
<1> QED
  BY <1>3, <1>4

LEMMA ReconnectDoes ==
    ASSUME RouteBase, Reconnect
    PROVE  /\ live.kind = "timer" /\ live' \in Lives /\ live'.kind \in {"socket", "none"}
           /\ live'.kind = "socket" =>
                live'.page \in Zones /\ live'.at < version[live'.page] /\ live'.page = live.page
           /\ path = live.page => live'.kind = "socket"
<1>1. live.kind = "timer" /\ live.page \in Zones
  BY DEF RouteBase, Reads, Reconnect
<1>2. live.page \in Paths /\ version[live.page] \in 1..MaxVersion
  BY <1>1, PathsAssumption DEF RouteBase, RouteTyped
<1>3. CASE path = live.page
  <2> DEFINE v == version[live.page] - 1
  <2>1. v \in Versions /\ v < version[live.page]
    BY <1>2, RouteBoundsAssumption DEF Versions
  <2>2. live' = At("socket", live.page, v)
    BY <1>3 DEF Reconnect, connectZoneSocket
  <2> HIDE DEF v
  <2>3. live' \in Lives /\ live'.kind = "socket" /\ live'.page = live.page /\ live'.at = v
    BY <1>2, <2>1, <2>2 DEF At, Lives
  <2> QED
    BY <1>1, <2>1, <2>3
<1>4. CASE path # live.page
  <2>1. live' = Nothing
    BY <1>4 DEF Reconnect, connectZoneSocket
  <2> QED
    BY <1>1, <1>4, <2>1, NothingTyped
<1> QED
  BY <1>3, <1>4

LEMMA VersionGrows ==
    ASSUME RouteBase, NEW z \in Zones, version[z] < MaxVersion,
           version' = [version EXCEPT ![z] = @ + 1]
    PROVE  /\ version' \in [Zones -> 1..MaxVersion]
           /\ version'[z] = version[z] + 1
           /\ \A y \in Zones : version'[y] >= version[y] /\ (y # z => version'[y] = version[y])
<1>1. version \in [Zones -> 1..MaxVersion]
  BY DEF RouteBase, RouteTyped
<1>2. version[z] \in 1..MaxVersion
  BY <1>1
<1>3. version[z] + 1 \in 1..MaxVersion
  BY <1>2, RouteBoundsAssumption
<1> QED
  BY <1>1, <1>2, <1>3

LEMMA MutationDoes ==
    ASSUME RouteBase, NEW z \in Zones, Mutation(z)
    PROVE  /\ version' \in [Zones -> 1..MaxVersion]
           /\ version'[z] = version[z] + 1
           /\ \A y \in Zones : version'[y] >= version[y] /\ (y # z => version'[y] = version[y])
BY VersionGrows DEF Mutation

LEMMA PlaceNoteDoes ==
    ASSUME RouteBase, NEW z \in Zones, PlaceNote(z)
    PROVE  note' \in Notes /\ note'.pc \in {"placing", "fetching"} /\ note'.zone = z
<1>1. latest.at \in Versions /\ 0 \in Versions
  BY VersionFacts DEF RouteBase, RouteTyped, Shown
<1>2. PICK pc \in {"placing", "fetching"}, v \in Versions :
        note' = [pc |-> pc, zone |-> z, v |-> v]
  BY <1>1 DEF PlaceNote
<1> QED
  BY <1>2 DEF Notes

\* Exactly one of four things happens to the zones and to what is shown.
LEMMA NoteStepDoes ==
    ASSUME RouteBase, NoteStep
    PROVE  /\ note.zone \in Zones
           /\ note' \in Notes
           /\ note'.pc # "none" => note'.zone = note.zone
           /\ \/ UNCHANGED <<version, latest, scene, stray>>
                 /\ (note'.pc = "read" => note'.v <= version[note.zone])
              \/ /\ version' \in [Zones -> 1..MaxVersion]
                 /\ version'[note.zone] = version[note.zone] + 1
                 /\ \A y \in Zones :
                      version'[y] >= version[y] /\ (y # note.zone => version'[y] = version[y])
                 /\ note'.pc # "read" /\ UNCHANGED <<latest, scene, stray>>
              \/ /\ note'.pc = "none" /\ UNCHANGED version
                 /\ note.v \in Versions /\ note.v <= version[note.zone]
                 /\ refreshZone(note.zone, note.v)
<1>1. note \in Notes /\ version \in [Zones -> 1..MaxVersion]
  BY DEF RouteBase, RouteTyped
<1>2. note.pc # "none" /\ note.zone \in Zones
  BY DEF NoteStep, RouteBase, Reads
<1>3. version[note.zone] \in Versions /\ note.v \in Versions
  BY <1>1, <1>2, VersionFacts DEF Notes
<1>4. CASE note.pc = "fetching"
  <2>1. /\ note' = [note EXCEPT !.pc = "placing", !.v = version[note.zone]]
        /\ UNCHANGED <<version, latest, scene, stray>>
    BY <1>4 DEF NoteStep
  <2>2. note' \in Notes /\ note'.pc = "placing" /\ note'.zone = note.zone
    BY <1>1, <1>3, <2>1 DEF Notes
  <2> QED
    BY <1>2, <2>1, <2>2
<1>5. CASE note.pc = "placing" /\ version[note.zone] < MaxVersion
             /\ version' = [version EXCEPT ![note.zone] = @ + 1]
             /\ note' = [note EXCEPT !.pc = "placed"] /\ UNCHANGED <<latest, scene, stray>>
  <2>1. note' \in Notes /\ note'.pc = "placed" /\ note'.zone = note.zone
    BY <1>1, <1>5 DEF Notes
  <2>2. /\ version' \in [Zones -> 1..MaxVersion] /\ version'[note.zone] = version[note.zone] + 1
        /\ \A y \in Zones :
             version'[y] >= version[y] /\ (y # note.zone => version'[y] = version[y])
    BY <1>2, <1>5, VersionGrows
  <2> QED
    BY <1>2, <1>5, <2>1, <2>2
<1>6. CASE note' = NoNote /\ UNCHANGED <<version, latest, scene, stray>>
  BY <1>2, <1>6, NothingTyped
<1>7. CASE note.pc = "placed"
  <2>1. /\ note' = [note EXCEPT !.pc = "read", !.v = version[note.zone]]
        /\ UNCHANGED <<version, latest, scene, stray>>
    BY <1>7 DEF NoteStep
  <2>2. /\ note' \in Notes /\ note'.pc = "read" /\ note'.zone = note.zone
        /\ note'.v = version[note.zone]
    BY <1>1, <1>3, <2>1 DEF Notes
  <2>3. version[note.zone] <= version[note.zone]
    BY <1>3 DEF Versions
  <2> QED
    BY <1>2, <2>1, <2>2, <2>3
<1>8. CASE note.pc = "read" /\ note' = NoNote /\ UNCHANGED version
             /\ refreshZone(note.zone, note.v)
  <2>1. note.v <= version[note.zone]
    BY <1>8 DEF RouteBase, Reads
  <2> QED
    BY <1>2, <1>3, <1>8, <2>1, NothingTyped
<1> QED
  BY <1>4, <1>5, <1>6, <1>7, <1>8 DEF NoteStep

-----------------------------------------------------------------------------
(* The types, what was read, and the newest run.                           *)

LEMMA BaseStarts == RouteInit => RouteBase
<1> SUFFICES ASSUME RouteInit PROVE RouteBase
  OBVIOUS
<1> DEFINE first == [NoSync EXCEPT !.pc = "session", !.path = path]
<1>1. first \in Syncs /\ first.pc = "session" /\ first.path = path
  BY NothingTyped DEF RouteInit, Syncs
<1> HIDE DEF first
<1>2. /\ sync = [g \in Gens |-> IF g = 1 THEN first ELSE NoSync]
      /\ gen = 1 /\ 1 \in Gens
  BY RouteBoundsAssumption DEF RouteInit, first, Gens
<1>3. sync \in [Gens -> Syncs] /\ sync[gen] = first /\ \A g \in Gens : g > gen => sync[g] = NoSync
  <2>1. \A g \in Gens : g > gen => g # 1
    BY <1>2 DEF Gens
  <2> QED
    BY <1>1, <1>2, <2>1, NothingTyped
<1>4. /\ tools \in [gen : 0..MaxGen, who : Sessions] /\ tools.gen = 0
      /\ version \in [Zones -> 1..MaxVersion] /\ frames \in [Framed -> Nat]
      /\ signed \in {"in", "out"} /\ cached \in Sessions
  BY RouteBoundsAssumption DEF RouteInit, Sessions
<1>5. RouteTyped
  BY <1>2, <1>3, <1>4, NothingTyped DEF RouteInit, RouteTyped
<1>6. Newest
  <2>1. sync[gen].pc # "none" /\ sync[gen].path = path
    BY <1>1, <1>3
  <2>2. \A g \in Gens : g > gen => sync[g].pc = "none"
    BY <1>3, NothingTyped
  <2>3. tools.gen <= gen
    BY <1>2, <1>4
  <2> QED
    BY <2>1, <2>2, <2>3 DEF Newest
<1>7. Reads
  <2>1. \A g \in Gens : sync[g].pc \in {"session", "none"}
    BY <1>1, <1>2, NothingTyped
  <2>2. note.pc = "none" /\ live.kind = "none"
    BY NothingTyped DEF RouteInit
  <2> QED
    BY <2>1, <2>2 DEF Reads
<1> QED
  BY <1>5, <1>6, <1>7 DEF RouteBase

\* A run goes on without touching what the zones and the live updates are.
LEMMA RunKeepsReads ==
    ASSUME RouteBase, NEW g \in Gens, OnlyRun(g), UNCHANGED version, UNCHANGED note,
           UNCHANGED live,
           sync'[g].pc \in {"zone", "read"} => sync'[g].path \in Zones,
           sync'[g].pc = "read" => sync'[g].zone <= version[sync'[g].path]
    PROVE  Reads'
<1>1. \A h \in Gens : h # g => sync'[h] = sync[h]
  BY DEF OnlyRun
<1> QED
  BY <1>1 DEF RouteBase, Reads

LEMMA RunKeepsNewest ==
    ASSUME RouteBase, NEW g \in Gens, g <= gen, OnlyRun(g), UNCHANGED gen, UNCHANGED path,
           tools'.gen <= gen,
           sync'[g].pc # "none", sync'[g].pc # "done" => sync'[g].path = sync[g].path,
           sync[g].pc # "done"
    PROVE  Newest'
<1>1. \A h \in Gens : h # g => sync'[h] = sync[h]
  BY DEF OnlyRun
<1>2. gen \in Gens
  BY DEF RouteBase, RouteTyped
<1>3. \A h \in Gens : h > gen => sync'[h].pc = "none"
  BY <1>1, <1>2 DEF RouteBase, Newest, Gens
<1> QED
  BY <1>1, <1>2, <1>3 DEF RouteBase, Newest

\* A new run begins.
LEMMA RunBegins ==
    ASSUME RouteBase, gen' = gen + 1, gen' \in Gens, sync' \in [Gens -> Syncs],
           OnlyRun(gen'), sync'[gen'].pc \in {"session", "cached"},
           sync'[gen'].path = path', UNCHANGED tools, UNCHANGED version, UNCHANGED note,
           UNCHANGED live
    PROVE  Newest' /\ Reads'
<1>1. \A h \in Gens : h # gen' => sync'[h] = sync[h]
  BY DEF OnlyRun
<1>2. gen \in Gens /\ tools.gen \in 0..MaxGen
  BY DEF RouteBase, RouteTyped
<1>3. Newest'
  BY <1>1, <1>2 DEF RouteBase, Newest, Gens
<1>4. Reads'
  BY <1>1 DEF RouteBase, Reads
<1> QED
  BY <1>3, <1>4

LEMMA FramesTyped ==
    ASSUME RouteTyped, NEW g \in Gens,
           \/ \E s \in Syncs : EnterMounts(g, s)
           \/ AppendFrame(g) /\ sync[g].frame \in Framed
    PROVE  frames' \in [Framed -> Nat] /\ misplaced' \subseteq Framed
<1>0. frames \in [Framed -> Nat] /\ misplaced \subseteq Framed
  BY DEF RouteTyped
<1>1. CASE \E s \in Syncs : EnterMounts(g, s)
  <2>1. /\ frames' = [p \in Framed |-> IF frames[p] = 0 THEN 0 ELSE frames[p] - 1]
        /\ misplaced' \subseteq misplaced
    BY <1>1 DEF EnterMounts, Removed
  <2> QED
    BY <1>0, <2>1
<1>2. CASE AppendFrame(g) /\ sync[g].frame \in Framed
  <2> DEFINE p == sync[g].frame
  <2>1. CASE UNCHANGED <<frames, misplaced>>
    BY <1>0, <2>1
  <2>2. CASE /\ frames' = [frames EXCEPT ![p] = @ + 1]
             /\ misplaced' \subseteq misplaced \cup {p}
    <3>1. frames[p] + 1 \in Nat
      BY <1>0, <1>2
    <3> QED
      BY <1>0, <1>2, <2>2, <3>1
  <2> QED
    BY <1>2, <2>1, <2>2 DEF AppendFrame, mounts
<1> QED
  BY <1>1, <1>2

\* A zone changes: versions only grow.
LEMMA ReadsGrow ==
    ASSUME RouteBase, version' \in [Zones -> 1..MaxVersion],
           \A y \in Zones : version'[y] >= version[y],
           UNCHANGED sync, UNCHANGED live, note' \in Notes,
           note'.pc = "read" => note' = note,
           note'.pc # "none" => note'.zone \in Zones
    PROVE  Reads'
<1>0. RouteTyped /\ \A g \in Gens : sync[g] \in Syncs
  BY DEF RouteBase, RouteTyped
<1>1. \A y \in Zones : version[y] \in Nat /\ version'[y] \in Nat
  BY <1>0 DEF RouteTyped
<1>2. \A v \in Nat, y \in Zones : v <= version[y] => v <= version'[y]
  BY <1>1
<1>3. \A g \in Gens : sync[g].zone \in Nat
  BY <1>0, VersionFacts DEF Syncs
<1>4. live.at \in Nat /\ note.v \in Nat
  BY <1>0, VersionFacts DEF RouteTyped, Lives, Notes
<1>5. \A g \in Gens : sync[g].pc = "read" => sync[g].zone <= version'[sync[g].path]
  BY <1>2, <1>3 DEF RouteBase, Reads
<1>6. live.kind = "socket" => live.at <= version'[live.page]
  BY <1>2, <1>4 DEF RouteBase, Reads
<1>7. note'.pc = "read" => note'.v <= version'[note'.zone]
  BY <1>2, <1>4 DEF RouteBase, Reads
<1> QED
  BY <1>5, <1>6, <1>7 DEF RouteBase, Reads

LEMMA BaseStep == RouteBase /\ [RouteNext]_routeVars => RouteBase'
<1> SUFFICES ASSUME RouteBase, [RouteNext]_routeVars PROVE RouteBase'
  OBVIOUS
<1>0. /\ RouteTyped /\ gen \in Gens /\ \A g \in 1..gen : g \in Gens /\ g <= gen
      /\ tools.gen <= gen
      /\ \A g \in Gens : sync[g] \in Syncs
  BY RouteBoundsAssumption DEF RouteBase, RouteTyped, Newest, Gens
<1>1. ASSUME NEW p \in Paths, NavigateTo(p) PROVE RouteBase'
  <2>1. /\ gen' = gen + 1 /\ gen' \in Gens /\ path' = p /\ hidden' = FALSE
        /\ sync' \in [Gens -> Syncs] /\ OnlyRun(gen') /\ sync'[gen'] = Starting(p)
    BY <1>1, NavigateToDoes
  <2>2. Starting(p).path = p /\ Starting(p).pc \in {"session", "cached"}
    BY <1>0, StartingTyped
  <2>3. UNCHANGED <<signed, logout, cached, late, tools, live, version, latest, scene, stray, note,
                    frames, misplaced>>
    BY <1>1 DEF NavigateTo, session, zone, mounts
  <2>4. RouteTyped'
    BY <1>0, <2>1, <2>3 DEF RouteTyped
  <2>5. Newest' /\ Reads'
    BY <2>1, <2>2, <2>3, RunBegins
  <2> QED
    BY <2>4, <2>5 DEF RouteBase
<1>2. CASE LogoutDone
  <2>1. /\ gen' = gen + 1 /\ gen' \in Gens /\ path' = "/" /\ hidden' = FALSE
        /\ sync' \in [Gens -> Syncs] /\ OnlyRun(gen')
        /\ sync'[gen'].pc = "session" /\ sync'[gen'].path = "/"
    BY <1>2, LogoutDoneDoes
  <2>2. /\ UNCHANGED <<signed, late, tools, live, version, latest, scene, stray, note, frames, misplaced>>
        /\ logout' = FALSE /\ cached' \in Sessions
    BY <1>2 DEF LogoutDone, zone, mounts, Sessions
  <2>3. path' \in Paths
    BY <2>1, PathsAssumption
  <2>4. RouteTyped'
    BY <1>0, <2>1, <2>2, <2>3 DEF RouteTyped
  <2>5. Newest' /\ Reads'
    BY <2>1, <2>2, RunBegins
  <2> QED
    BY <2>4, <2>5 DEF RouteBase
<1>3. ASSUME NEW g \in 1..gen, ServeSession(g) PROVE RouteBase'
  <2>1. /\ sync' \in [Gens -> Syncs] /\ OnlyRun(g) /\ sync[g].pc = "session"
        /\ sync'[g].pc \in {"fetched", "cached"} /\ sync'[g].path = sync[g].path
    BY <1>0, <1>3, ServeSessionDoes
  <2>2. UNCHANGED <<path, gen, signed, logout, cached, late, tools, live, hidden, version, latest,
                    scene, stray, note, frames, misplaced>>
    BY <1>3 DEF ServeSession, session, zone, mounts
  <2>3. RouteTyped'
    BY <1>0, <2>1, <2>2 DEF RouteTyped
  <2> QED
    BY <1>0, <2>1, <2>2, <2>3, RunKeepsReads, RunKeepsNewest DEF RouteBase
<1>4. ASSUME NEW g \in 1..gen, Resume(g) PROVE RouteBase'
  <2>1. /\ sync[g].pc \in {"cached", "fetched"} /\ Cache(sync[g])
        /\ sync' \in [Gens -> Syncs] /\ OnlyRun(g)
    BY <1>0, <1>4, ResumeDoes
  <2>2. UNCHANGED <<path, gen, signed, logout, live, hidden, version, latest, stray, note>>
    BY <1>4 DEF Resume
  <2>3. cached' \in Sessions /\ late' \in BOOLEAN
    <3>1. sync[g].who \in Sessions /\ cached \in Sessions /\ late \in BOOLEAN
      BY <1>0 DEF RouteTyped, Syncs
    <3>2. CASE sync[g].pc = "fetched"
      BY <2>1, <3>1, <3>2 DEF Cache
    <3>3. CASE sync[g].pc # "fetched"
      BY <2>1, <3>1, <3>3 DEF Cache
    <3> QED
      BY <3>2, <3>3
  <2>4. CASE g # gen /\ sync'[g].pc = "done" /\ UNCHANGED <<tools, scene, frames, misplaced>>
    <3>1. RouteTyped'
      BY <1>0, <2>1, <2>2, <2>3, <2>4 DEF RouteTyped
    <3> QED
      BY <1>0, <2>1, <2>2, <2>4, <3>1, RunKeepsReads, RunKeepsNewest DEF RouteBase
  <2>5. CASE /\ g = gen /\ tools' = [gen |-> g, who |-> sync[g].who]
             /\ sync'[g].pc = "zone" /\ sync'[g].path = sync[g].path
             /\ sync[g].path \in Zones /\ UNCHANGED <<scene, frames, misplaced>>
    <3>1. tools' \in [gen : 0..MaxGen, who : Sessions] /\ tools'.gen <= gen
      <4>1. sync[g].who \in Sessions
        BY <1>0 DEF Syncs
      <4>2. gen \in 0..MaxGen /\ gen <= gen
        BY <1>0 DEF Gens
      <4> QED
        BY <2>5, <4>1, <4>2
    <3>2. RouteTyped'
      BY <1>0, <2>1, <2>2, <2>3, <2>5, <3>1 DEF RouteTyped
    <3> QED
      BY <1>0, <2>1, <2>2, <2>5, <3>1, <3>2, RunKeepsReads, RunKeepsNewest DEF RouteBase
  <2>6. CASE /\ g = gen /\ tools' = [gen |-> g, who |-> sync[g].who]
             /\ sync[g].path \notin Zones /\ scene' = Nothing
             /\ EnterMounts(g, [sync[g] EXCEPT !.who = "out"])
             /\ Entered(g, sync[g].path)
    <3>1. tools' \in [gen : 0..MaxGen, who : Sessions] /\ tools'.gen <= gen
      <4>1. sync[g].who \in Sessions
        BY <1>0 DEF Syncs
      <4>2. gen \in 0..MaxGen /\ gen <= gen
        BY <1>0 DEF Gens
      <4> QED
        BY <2>6, <4>1, <4>2
    <3>2. [sync[g] EXCEPT !.who = "out"] \in Syncs
      BY <1>0 DEF Syncs, Sessions
    <3>3. frames' \in [Framed -> Nat] /\ misplaced' \subseteq Framed /\ scene' \in Shown
      BY <1>0, <2>6, <3>2, FramesTyped, NothingTyped
    <3>4. RouteTyped'
      BY <1>0, <2>1, <2>2, <2>3, <3>1, <3>3 DEF RouteTyped
    <3>5. sync'[g].pc = "mounts" /\ sync'[g].path = sync[g].path
      BY <2>6 DEF Entered
    <3> QED
      BY <1>0, <2>1, <2>2, <3>1, <3>4, <3>5, RunKeepsReads, RunKeepsNewest DEF RouteBase
  <2> QED
    BY <1>0, <1>4, <2>4, <2>5, <2>6, ResumeDoes
<1>5. ASSUME NEW g \in 1..gen, ServeZone(g) PROVE RouteBase'
  <2>1. /\ sync' \in [Gens -> Syncs] /\ OnlyRun(g) /\ sync[g].pc = "zone"
        /\ sync'[g].pc = "read" /\ sync[g].path \in Zones
        /\ sync'[g].path = sync[g].path /\ sync'[g].zone = version[sync[g].path]
    BY <1>0, <1>5, ServeZoneDoes
  <2>2. UNCHANGED <<path, gen, signed, logout, cached, late, tools, live, hidden, version, latest,
                    scene, stray, note, frames, misplaced>>
    BY <1>5 DEF ServeZone, session, zone, mounts
  <2>3. RouteTyped'
    BY <1>0, <2>1, <2>2 DEF RouteTyped
  <2>4. sync'[g].zone <= version[sync'[g].path]
    BY <1>0, <2>1 DEF RouteTyped
  <2> QED
    BY <1>0, <2>1, <2>2, <2>3, <2>4, RunKeepsReads, RunKeepsNewest DEF RouteBase
<1>6. ASSUME NEW g \in 1..gen, ZoneRead(g) PROVE RouteBase'
  <2>1. /\ sync[g].pc = "read" /\ Entered(g, sync[g].path) /\ EnterMounts(g, sync[g])
        /\ sync[g].path \in Zones /\ sync[g].zone \in Versions
    BY <1>0, <1>6, ZoneReadDoes
  <2>2. UNCHANGED <<path, gen, signed, logout, cached, late, tools, live, hidden, version, note>>
    BY <1>6 DEF ZoneRead, session
  <2>3. latest' \in Shown /\ scene' \in Shown /\ stray' \in BOOLEAN
    <3>1. CASE refreshZone(sync[g].path, sync[g].zone)
      BY <2>1, <3>1, RefreshDoes
    <3>2. CASE UNCHANGED <<latest, scene, stray>>
      BY <1>0, <3>2 DEF RouteTyped
    <3> QED
      BY <1>6, <3>1, <3>2 DEF ZoneRead
  <2>4. frames' \in [Framed -> Nat] /\ misplaced' \subseteq Framed
    BY <1>0, <2>1, FramesTyped
  <2>5. /\ sync'[g].pc = "mounts" /\ sync'[g].path = sync[g].path /\ OnlyRun(g)
        /\ sync' \in [Gens -> Syncs]
    BY <2>1 DEF Entered
  <2>6. RouteTyped'
    BY <1>0, <2>2, <2>3, <2>4, <2>5 DEF RouteTyped
  <2> QED
    BY <1>0, <2>1, <2>2, <2>5, <2>6, RunKeepsReads, RunKeepsNewest DEF RouteBase
<1>7. ASSUME NEW g \in 1..gen, AppendFrame(g) PROVE RouteBase'
  <2>1. /\ sync' \in [Gens -> Syncs] /\ OnlyRun(g)
        /\ sync[g].pc = "mounts" /\ sync[g].frame \in Framed
        /\ sync'[g].pc = "mounts" /\ sync'[g].path = sync[g].path
    BY <1>0, <1>7, AppendFrameDoes
  <2>2. UNCHANGED <<path, gen, signed, logout, cached, late, tools, live, hidden, version, latest,
                    scene, stray, note>>
    BY <1>7 DEF AppendFrame, session, zone
  <2>3. frames' \in [Framed -> Nat] /\ misplaced' \subseteq Framed
    BY <1>0, <1>7, <2>1, FramesTyped
  <2>4. RouteTyped'
    BY <1>0, <2>1, <2>2, <2>3 DEF RouteTyped
  <2> QED
    BY <1>0, <2>1, <2>2, <2>4, RunKeepsReads, RunKeepsNewest DEF RouteBase
<1>8. ASSUME NEW g \in 1..gen, Finish(g) PROVE RouteBase'
  <2>1. /\ sync' \in [Gens -> Syncs] /\ OnlyRun(g) /\ sync[g].pc = "mounts"
        /\ sync'[g].pc = "done"
        /\ g = gen => live' = startLiveUpdates(path) /\ latest' = Nothing
        /\ g # gen => UNCHANGED <<live, latest>>
    BY <1>0, <1>8, FinishDoes
  <2>2. UNCHANGED <<path, gen, signed, logout, cached, late, tools, hidden, version, scene, stray,
                    note, frames, misplaced>>
    BY <1>8 DEF Finish, session, mounts
  <2>3. live' \in Lives /\ latest' \in Shown
    BY <1>0, <2>1, StartLiveDoes, NothingTyped DEF RouteTyped
  <2>4. RouteTyped'
    BY <1>0, <2>1, <2>2, <2>3 DEF RouteTyped
  <2>5. Newest'
    BY <1>0, <2>1, <2>2, RunKeepsNewest
  <2>6. /\ live'.kind \in {"socket", "timer"} => live'.page \in Zones
        /\ live'.kind = "socket" => live'.at <= version[live'.page]
    <3>1. CASE g # gen
      BY <2>1, <3>1 DEF RouteBase, Reads
    <3>2. CASE g = gen /\ path \in Zones
      <4>1. /\ live'.kind = "socket" /\ live'.page = path /\ live'.at < version[path]
            /\ live'.at \in Versions /\ version[path] \in 1..MaxVersion
        BY <1>0, <2>1, <2>3, <3>2, StartLiveDoes DEF RouteTyped, Lives
      <4> QED
        BY <3>2, <4>1 DEF Versions
    <3>3. CASE g = gen /\ path \notin Zones
      BY <1>0, <2>1, <3>3, StartLiveDoes
    <3> QED
      BY <3>1, <3>2, <3>3
  <2>7. Reads'
    <3>1. \A h \in Gens : h # g => sync'[h] = sync[h]
      BY <2>1 DEF OnlyRun
    <3> QED
      BY <2>1, <2>2, <2>6, <3>1 DEF RouteBase, Reads
  <2> QED
    BY <2>4, <2>5, <2>7 DEF RouteBase
<1>9. CASE Message
  <2>1. UNCHANGED <<path, gen, sync, signed, logout, cached, late, tools, hidden, version, note,
                    frames, misplaced>>
    BY <1>9 DEF Message, session, mounts
  <2>2. /\ live.page \in Zones /\ live.at + 1 <= version[live.page]
        /\ live' \in Lives /\ live'.kind = "socket" /\ live'.page = live.page
        /\ live'.at = live.at + 1 /\ stray' = FALSE /\ latest' \in Shown /\ scene' \in Shown
    BY <1>9, MessageDoes
  <2> QED
    BY <1>0, <2>1, <2>2 DEF RouteBase, RouteTyped, Reads, Newest
<1>10. CASE Resize
  <2>1. UNCHANGED <<path, gen, sync, signed, logout, cached, late, tools, live, hidden, version,
                    latest, stray, note, frames, misplaced>>
    BY <1>10 DEF Resize, session, mounts
  <2>2. scene' \in Shown
    BY <1>10, ResizeDoes
  <2> QED
    BY <1>0, <2>1, <2>2 DEF RouteBase, RouteTyped, Reads, Newest
<1>11. CASE SocketCloses
  <2>1. UNCHANGED <<path, gen, sync, signed, logout, cached, late, tools, hidden, version,
                    latest, scene, stray, note, frames, misplaced>>
    BY <1>11 DEF SocketCloses, session, zone, mounts
  <2>2. /\ live' \in Lives /\ live'.kind \in {"timer", "none"}
        /\ live'.kind = "timer" => live'.page \in Zones
    BY <1>11, SocketClosesDoes
  <2> QED
    BY <1>0, <2>1, <2>2 DEF RouteBase, RouteTyped, Reads, Newest
<1>12. CASE Reconnect
  <2>1. UNCHANGED <<path, gen, sync, signed, logout, cached, late, tools, hidden, version,
                    latest, scene, stray, note, frames, misplaced>>
    BY <1>12 DEF Reconnect, session, zone, mounts
  <2>2. /\ live' \in Lives /\ live'.kind \in {"socket", "none"}
        /\ live'.kind = "socket" => live'.page \in Zones /\ live'.at < version[live'.page]
    BY <1>12, ReconnectDoes
  <2>3. live'.kind = "socket" => live'.at <= version[live'.page]
    <3>1. live'.at \in Nat
      BY <2>2, VersionFacts DEF Lives
    <3>2. live'.kind = "socket" => version[live'.page] \in 1..MaxVersion
      BY <1>0, <2>2 DEF RouteTyped
    <3> QED
      BY <2>2, <3>1, <3>2
  <2> QED
    BY <1>0, <2>1, <2>2, <2>3 DEF RouteBase, RouteTyped, Reads, Newest
<1>13. CASE PageHide
  <2>1. /\ UNCHANGED <<path, gen, sync, signed, logout, cached, late, version, scene, stray, note,
                       frames, misplaced>>
        /\ hidden' = TRUE /\ live' = Nothing /\ latest' = Nothing
        /\ tools' = [gen |-> 0, who |-> "out"]
    BY <1>13 DEF PageHide, session, mounts
  <2>2. tools' \in [gen : 0..MaxGen, who : Sessions] /\ tools'.gen <= gen
    BY <1>0, <2>1, RouteBoundsAssumption DEF Sessions, Gens
  <2> QED
    BY <1>0, <2>1, <2>2, NothingTyped DEF RouteBase, RouteTyped, Reads, Newest
<1>14. CASE CacheExpires \/ ServeLogout \/ LogoutLost
  <2>1. UNCHANGED <<path, gen, sync, tools, live, hidden, version, latest, scene, stray, note,
                    frames, misplaced>>
    BY <1>14 DEF CacheExpires, ServeLogout, LogoutLost, zone, mounts
  <2>2. signed' \in {"in", "out"} /\ cached' \in Sessions /\ logout' \in BOOLEAN /\ late' \in BOOLEAN
    BY <1>0, <1>14 DEF CacheExpires, ServeLogout, LogoutLost, RouteTyped, Sessions
  <2> QED
    BY <1>0, <2>1, <2>2 DEF RouteBase, RouteTyped, Reads, Newest
<1>15. ASSUME NEW z \in Zones, PlaceNote(z) PROVE RouteBase'
  <2>1. UNCHANGED <<path, gen, sync, signed, logout, cached, late, tools, live, hidden, version,
                    latest, scene, stray, frames, misplaced>>
    BY <1>15 DEF PlaceNote, session, mounts
  <2>2. note' \in Notes /\ note'.pc \in {"placing", "fetching"} /\ note'.zone = z
    BY <1>15, PlaceNoteDoes
  <2> QED
    BY <1>0, <2>1, <2>2 DEF RouteBase, RouteTyped, Reads, Newest
<1>17. ASSUME NEW z \in Zones, Mutation(z) PROVE RouteBase'
  <2>1. UNCHANGED <<path, gen, sync, signed, logout, cached, late, tools, live, hidden, note,
                    latest, scene, stray, frames, misplaced>>
    BY <1>17 DEF Mutation, session, mounts
  <2>2. version' \in [Zones -> 1..MaxVersion] /\ \A y \in Zones : version'[y] >= version[y]
    BY <1>17, MutationDoes
  <2>3. note'.pc # "none" => note'.zone \in Zones
    BY <2>1 DEF RouteBase, Reads
  <2>4. Reads'
    BY <1>0, <2>1, <2>2, <2>3, ReadsGrow DEF RouteTyped
  <2> QED
    BY <1>0, <2>1, <2>2, <2>4 DEF RouteBase, RouteTyped, Newest
<1>18. CASE NoteStep
  <2>1. UNCHANGED <<path, gen, sync, signed, logout, cached, late, tools, live, hidden,
                    frames, misplaced>>
    BY <1>18 DEF NoteStep, session, mounts
  <2>2. note.zone \in Zones /\ note' \in Notes /\ (note'.pc # "none" => note'.zone = note.zone)
    BY <1>18, NoteStepDoes
  <2>3. CASE UNCHANGED <<version, latest, scene, stray>>
             /\ (note'.pc = "read" => note'.v <= version[note.zone])
    BY <1>0, <2>1, <2>2, <2>3 DEF RouteBase, RouteTyped, Reads, Newest
  <2>4. CASE /\ version' \in [Zones -> 1..MaxVersion]
             /\ \A y \in Zones : version'[y] >= version[y]
             /\ note'.pc # "read" /\ UNCHANGED <<latest, scene, stray>>
    <3>1. Reads'
      BY <2>1, <2>2, <2>4, ReadsGrow
    <3> QED
      BY <1>0, <2>1, <2>2, <2>4, <3>1 DEF RouteBase, RouteTyped, Newest
  <2>5. CASE /\ note'.pc = "none" /\ UNCHANGED version
             /\ note.v \in Versions /\ refreshZone(note.zone, note.v)
    <3>1. latest' \in Shown /\ scene' \in Shown /\ stray' \in BOOLEAN
      BY <2>2, <2>5, RefreshDoes
    <3> QED
      BY <1>0, <2>1, <2>2, <2>5, <3>1 DEF RouteBase, RouteTyped, Reads, Newest
  <2> QED
    BY <1>18, <2>3, <2>4, <2>5, NoteStepDoes
<1>19. CASE UNCHANGED routeVars
  BY <1>0, <1>19 DEF routeVars, RouteBase, RouteTyped, Reads, Newest
<1> QED
  BY <1>1, <1>2, <1>3, <1>4, <1>5, <1>6, <1>7, <1>8, <1>9, <1>10, <1>11, <1>12, <1>13, <1>14,
     <1>15, <1>17, <1>18, <1>19 DEF RouteNext

-----------------------------------------------------------------------------
(* The live updates, the tools and the session they were registered for.   *)

LiveOf(p) ==
    /\ p \in Polled => live.kind = "poll"
    /\ p \in Zones => live.kind \in {"socket", "timer"} /\ live.page = p
    /\ p \notin Polled \cup Zones => live.kind = "none"

LiveFits == sync[gen].pc = "done" /\ ~hidden => LiveOf(path)

ToolsFit ==
    sync[gen].pc \in {"zone", "read", "mounts", "done"} /\ ~hidden => tools.gen = gen

\* After a logout nothing that is still to be used says "signed in".
SessionFits ==
    signed = "out" /\ ~logout /\ ~late =>
      /\ cached # "in"
      /\ sync[gen].pc \in {"cached", "fetched"} => sync[gen].who # "in"
      /\ tools.gen = gen => tools.who # "in"

\* What a run may do: the newest goes through its steps in order.
LEMMA RunDoes ==
    ASSUME RouteBase, NEW g \in 1..gen,
           ServeSession(g) \/ Resume(g) \/ ServeZone(g) \/ ZoneRead(g) \/ AppendFrame(g)
    PROVE  /\ UNCHANGED <<path, gen, signed, logout, live, hidden, version>>
           /\ g # gen => sync'[gen] = sync[gen]
           /\ g = gen => sync[gen].pc # "done" /\ sync'[gen].pc # "done"
           /\ g = gen /\ sync[gen].pc \in {"session"} =>
                sync'[gen].pc \in {"fetched", "cached"} /\ sync'[gen].who \in {signed, "out"}
           /\ g = gen /\ sync'[gen].pc \in {"cached", "fetched"} => sync[gen].pc = "session"
           /\ ~Resume(g) => UNCHANGED <<tools, cached, late>>
           /\ ~Resume(g) /\ g = gen /\ sync'[gen].pc \in {"zone", "read", "mounts"} =>
                sync[gen].pc \in {"zone", "read", "mounts"}
<1>0. g \in Gens /\ gen \in Gens
  BY GensFacts
<1>1. CASE ServeSession(g)
  <2>1. UNCHANGED <<path, gen, signed, logout, live, hidden, version, tools, cached, late>>
    BY <1>1 DEF ServeSession, session, zone, mounts
  <2> QED
    BY <1>0, <1>1, <2>1, ServeSessionDoes DEF OnlyRun
<1>2. CASE Resume(g)
  <2>1. UNCHANGED <<path, gen, signed, logout, live, hidden, version>>
    BY <1>2 DEF Resume
  <2>2. /\ sync[g].pc \in {"cached", "fetched"} /\ OnlyRun(g)
        /\ g = gen => sync'[g].pc \in {"zone", "mounts"}
    BY <1>0, <1>2, ResumeDoes DEF Entered
  <2> QED
    BY <1>0, <1>2, <2>1, <2>2 DEF OnlyRun
<1>3. CASE ServeZone(g)
  <2>1. UNCHANGED <<path, gen, signed, logout, live, hidden, version, tools, cached, late>>
    BY <1>3 DEF ServeZone, session, zone, mounts
  <2> QED
    BY <1>0, <1>3, <2>1, ServeZoneDoes DEF OnlyRun
<1>4. CASE ZoneRead(g)
  <2>1. UNCHANGED <<path, gen, signed, logout, live, hidden, version, tools, cached, late>>
    BY <1>4 DEF ZoneRead, session
  <2>2. sync[g].pc = "read" /\ OnlyRun(g) /\ sync'[g].pc = "mounts"
    BY <1>0, <1>4, ZoneReadDoes DEF Entered
  <2> QED
    BY <1>0, <1>4, <2>1, <2>2 DEF OnlyRun
<1>5. CASE AppendFrame(g)
  <2>1. UNCHANGED <<path, gen, signed, logout, live, hidden, version, tools, cached, late>>
    BY <1>5 DEF AppendFrame, session, zone
  <2> QED
    BY <1>0, <1>5, <2>1, AppendFrameDoes DEF OnlyRun
<1> QED
  BY <1>1, <1>2, <1>3, <1>4, <1>5

\* A new run is at its beginning.
LEMMA NewRunDoes ==
    ASSUME RouteBase, LogoutDone \/ \E p \in Paths : NavigateTo(p)
    PROVE  /\ gen' = gen + 1 /\ gen < gen' /\ sync'[gen'].pc \in {"session", "cached"}
           /\ sync'[gen'].pc = "cached" => sync'[gen'].who = cached /\ UNCHANGED <<cached, logout>>
           /\ UNCHANGED <<signed, late, tools, live, version, frames, misplaced>>
           /\ cached' = cached \/ cached' = "none"
           /\ logout' # logout => cached' = "none"
<1>0. gen \in Gens
  BY DEF RouteBase, RouteTyped
<1>1. CASE LogoutDone
  <2>1. /\ UNCHANGED <<signed, late, tools, live, version, frames, misplaced>> /\ cached' = "none"
    BY <1>1 DEF LogoutDone, zone, mounts
  <2> QED
    BY <1>0, <1>1, <2>1, LogoutDoneDoes DEF Gens
<1>2. ASSUME NEW p \in Paths, NavigateTo(p)
      PROVE  /\ gen' = gen + 1 /\ gen < gen' /\ sync'[gen'].pc \in {"session", "cached"}
             /\ sync'[gen'].pc = "cached" => sync'[gen'].who = cached
             /\ UNCHANGED <<signed, logout, cached, late, tools, live, version, frames, misplaced>>
  <2>1. UNCHANGED <<signed, logout, cached, late, tools, live, version, frames, misplaced>>
    BY <1>2 DEF NavigateTo, session, zone, mounts
  <2>2. gen' = gen + 1 /\ sync'[gen'] = Starting(p) /\ RouteTyped
    BY <1>2, NavigateToDoes DEF RouteBase
  <2>3. gen < gen'
    BY <1>0, <2>2 DEF Gens
  <2> QED
    BY <2>1, <2>2, <2>3, StartingTyped
<1> QED
  BY <1>1, <1>2

\* Neither a run nor what it registers is touched.
Elsewhere ==
    \/ Message \/ Resize \/ SocketCloses \/ Reconnect \/ NoteStep
    \/ \E z \in Zones : PlaceNote(z) \/ Mutation(z)
    \/ UNCHANGED routeVars

LEMMA ElsewhereDoes ==
    ASSUME RouteBase, Elsewhere
    PROVE  UNCHANGED <<path, gen, sync, signed, logout, cached, late, tools, hidden, frames, misplaced>>
BY DEF Elsewhere, Message, Resize, SocketCloses, Reconnect, NoteStep, PlaceNote, Mutation,
       routeVars, session, zone, mounts

LEMMA LiveStep == RouteBase /\ LiveFits /\ [RouteNext]_routeVars => LiveFits'
<1> SUFFICES ASSUME RouteBase, LiveFits, [RouteNext]_routeVars PROVE LiveFits'
  OBVIOUS
<1>1. CASE LogoutDone \/ \E p \in Paths : NavigateTo(p)
  BY <1>1, NewRunDoes DEF LiveFits
<1>2. ASSUME NEW g \in 1..gen,
             ServeSession(g) \/ Resume(g) \/ ServeZone(g) \/ ZoneRead(g) \/ AppendFrame(g)
      PROVE  LiveFits'
  BY <1>2, RunDoes DEF LiveFits, LiveOf
<1>3. ASSUME NEW g \in 1..gen, Finish(g) PROVE LiveFits'
  <2>0. g \in Gens /\ gen \in Gens /\ RouteTyped
    BY GensFacts DEF RouteBase
  <2>1. /\ OnlyRun(g) /\ sync'[g].pc = "done"
        /\ g = gen => live' = startLiveUpdates(path)
        /\ g # gen => UNCHANGED live
    BY <1>3, <2>0, FinishDoes
  <2>2. UNCHANGED <<path, gen, hidden>>
    BY <1>3 DEF Finish
  <2>3. CASE g = gen
    <3>1. LiveOf(path)'
      BY <2>0, <2>1, <2>2, <2>3, StartLiveDoes DEF LiveOf
    <3> QED
      BY <3>1 DEF LiveFits
  <2>4. CASE g # gen
    BY <2>0, <2>1, <2>2, <2>4 DEF OnlyRun, LiveFits, LiveOf
  <2> QED
    BY <2>3, <2>4
<1>4. CASE Elsewhere
  <2>1. UNCHANGED <<path, gen, sync, hidden>>
    BY <1>4, ElsewhereDoes
  <2>2. LiveOf(path) => LiveOf(path)'
    <3>1. CASE Message
      BY <2>1, <3>1, MessageDoes DEF LiveOf
    <3>2. CASE SocketCloses
      <4>1. live.kind = "socket" /\ (path = live.page => live'.kind = "timer" /\ live'.page = path)
        BY <3>2, SocketClosesDoes
      <4> QED
        BY <2>1, <4>1 DEF LiveOf
    <3>3. CASE Reconnect
      <4>1. /\ live.kind = "timer" /\ (path = live.page => live'.kind = "socket")
            /\ live'.kind = "socket" => live'.page = live.page
        BY <3>3, ReconnectDoes
      <4> QED
        BY <2>1, <4>1 DEF LiveOf
    <3>4. CASE live' = live
      BY <2>1, <3>4 DEF LiveOf
    <3> QED
      BY <1>4, <3>1, <3>2, <3>3, <3>4
         DEF Elsewhere, Resize, NoteStep, PlaceNote, Mutation, routeVars
  <2> QED
    BY <2>1, <2>2 DEF LiveFits
<1>5. CASE PageHide
  BY <1>5 DEF PageHide, LiveFits
<1>6. CASE CacheExpires \/ ServeLogout \/ LogoutLost
  BY <1>6 DEF CacheExpires, ServeLogout, LogoutLost, LiveFits, LiveOf
<1> QED
  BY <1>1, <1>2, <1>3, <1>4, <1>5, <1>6 DEF RouteNext, Elsewhere

LEMMA ToolsStep == RouteBase /\ ToolsFit /\ [RouteNext]_routeVars => ToolsFit'
<1> SUFFICES ASSUME RouteBase, ToolsFit, [RouteNext]_routeVars PROVE ToolsFit'
  OBVIOUS
<1>1. CASE LogoutDone \/ \E p \in Paths : NavigateTo(p)
  BY <1>1, NewRunDoes DEF ToolsFit
<1>2. ASSUME NEW g \in 1..gen,
             ServeSession(g) \/ Resume(g) \/ ServeZone(g) \/ ZoneRead(g) \/ AppendFrame(g)
      PROVE  ToolsFit'
  <2>0. g \in Gens /\ gen \in Gens
    BY GensFacts
  <2>1. CASE Resume(g)
    <3>1. /\ g # gen => UNCHANGED tools
          /\ g = gen => tools' = [gen |-> g, who |-> sync[g].who]
      BY <2>0, <2>1, ResumeDoes
    <3> QED
      BY <1>2, <3>1, RunDoes DEF ToolsFit
  <2>2. CASE ~Resume(g)
    BY <1>2, <2>2, RunDoes DEF ToolsFit
  <2> QED
    BY <2>1, <2>2
<1>3. ASSUME NEW g \in 1..gen, Finish(g) PROVE ToolsFit'
  <2>0. g \in Gens /\ gen \in Gens
    BY GensFacts
  <2>1. OnlyRun(g) /\ sync[g].pc = "mounts" /\ UNCHANGED <<gen, hidden, tools>>
    BY <1>3, <2>0, FinishDoes DEF Finish
  <2> QED
    BY <2>0, <2>1 DEF OnlyRun, ToolsFit
<1>4. CASE Elsewhere
  BY <1>4, ElsewhereDoes DEF ToolsFit
<1>5. CASE PageHide
  BY <1>5 DEF PageHide, ToolsFit
<1>6. CASE CacheExpires \/ ServeLogout \/ LogoutLost
  BY <1>6 DEF CacheExpires, ServeLogout, LogoutLost, ToolsFit
<1> QED
  BY <1>1, <1>2, <1>3, <1>4, <1>5, <1>6 DEF RouteNext, Elsewhere

LEMMA SessionStep == RouteBase /\ SessionFits /\ [RouteNext]_routeVars => SessionFits'
<1> SUFFICES ASSUME RouteBase, SessionFits, [RouteNext]_routeVars,
                    signed' = "out", ~logout', ~late'
             PROVE  /\ cached' # "in"
                    /\ sync'[gen'].pc \in {"cached", "fetched"} => sync'[gen'].who # "in"
                    /\ tools'.gen = gen' => tools'.who # "in"
  BY DEF SessionFits
<1>0. gen \in Gens /\ (\A g \in 1..gen : g \in Gens) /\ tools.gen <= gen
      /\ tools.gen \in 0..MaxGen /\ logout \in BOOLEAN
  BY GensFacts DEF RouteBase, RouteTyped, Newest
<1>1. CASE LogoutDone \/ \E p \in Paths : NavigateTo(p)
  <2>1. tools'.gen # gen'
    BY <1>0, <1>1, NewRunDoes DEF Gens
  <2>2. CASE logout' = logout
    BY <1>1, <2>1, <2>2, NewRunDoes DEF SessionFits
  <2>3. CASE logout' # logout
    BY <1>1, <2>1, <2>3, NewRunDoes DEF SessionFits
  <2> QED
    BY <2>2, <2>3
<1>2. ASSUME NEW g \in 1..gen,
             ServeSession(g) \/ Resume(g) \/ ServeZone(g) \/ ZoneRead(g) \/ AppendFrame(g)
      PROVE  /\ cached' # "in"
             /\ sync'[gen'].pc \in {"cached", "fetched"} => sync'[gen'].who # "in"
             /\ tools'.gen = gen' => tools'.who # "in"
  <2>1. CASE Resume(g)
    <3>1. Cache(sync[g]) /\ UNCHANGED <<signed, logout, gen>>
      BY <1>0, <2>1, ResumeDoes DEF Resume
    <3>2. ~late
      BY <3>1 DEF Cache
    <3>3. cached # "in" /\ (sync[gen].pc \in {"cached", "fetched"} => sync[gen].who # "in")
          /\ (tools.gen = gen => tools.who # "in")
      BY <3>1, <3>2 DEF SessionFits
    <3>4. cached' # "in"
      BY <3>1, <3>3 DEF Cache
    <3>5. CASE g # gen
      <4>1. UNCHANGED tools /\ sync'[gen] = sync[gen]
        BY <1>0, <2>1, <3>5, ResumeDoes DEF OnlyRun
      <4> QED
        BY <3>1, <3>3, <3>4, <4>1
    <3>6. CASE g = gen
      <4>1. /\ tools' = [gen |-> g, who |-> sync[g].who] /\ sync[g].pc \in {"cached", "fetched"}
            /\ sync'[gen].pc \in {"zone", "mounts"}
        BY <1>0, <2>1, <3>6, ResumeDoes DEF Entered
      <4> QED
        BY <3>1, <3>3, <3>4, <3>6, <4>1
    <3> QED
      BY <3>5, <3>6
  <2>2. CASE ~Resume(g)
    <3>1. UNCHANGED <<signed, logout, gen, tools, cached, late>>
      BY <1>2, <2>2, RunDoes
    <3> QED
      BY <1>2, <2>2, <3>1, RunDoes DEF SessionFits
  <2> QED
    BY <2>1, <2>2
<1>3. ASSUME NEW g \in 1..gen, Finish(g)
      PROVE  /\ cached' # "in"
             /\ sync'[gen'].pc \in {"cached", "fetched"} => sync'[gen'].who # "in"
             /\ tools'.gen = gen' => tools'.who # "in"
  <2>1. OnlyRun(g) /\ sync'[g].pc = "done"
    BY <1>0, <1>3, FinishDoes
  <2>2. UNCHANGED <<gen, tools, signed, logout, cached, late>>
    BY <1>3 DEF Finish, session
  <2> QED
    BY <1>0, <2>1, <2>2 DEF OnlyRun, SessionFits
<1>4. CASE Elsewhere
  BY <1>4, ElsewhereDoes DEF SessionFits
<1>5. CASE PageHide
  BY <1>0, <1>5 DEF PageHide, session, SessionFits
<1>6. CASE CacheExpires
  BY <1>6 DEF CacheExpires, SessionFits
<1>7. CASE ServeLogout
  BY <1>7 DEF ServeLogout
<1>8. CASE LogoutLost
  BY <1>8 DEF LogoutLost
<1> QED
  BY <1>1, <1>2, <1>3, <1>4, <1>5, <1>6, <1>7, <1>8 DEF RouteNext, Elsewhere

-----------------------------------------------------------------------------
(* The iframes.                                                            *)

\* From the moment the newest run gets to them, an iframe left is excused.
FramesFit ==
    /\ \A p \in Framed : frames[p] > 1 => p \in misplaced
    /\ sync[gen].pc \in {"mounts", "done"} =>
         \A p \in Framed : frames[p] > 0 => p = path \/ p \in misplaced

\* The runs that append no iframe any more.
Appended == {g \in Gens : sync[g].pc \in {"mounts", "done"} /\ sync[g].frame = ""}

FramesBounded == \A p \in Framed : frames[p] <= Cardinality(Appended)

LEMMA AppendedFinite ==
    /\ IsFiniteSet(Appended) /\ Cardinality(Appended) \in Nat
    /\ Cardinality(Appended) <= MaxGen
<1>1. IsFiniteSet(Gens) /\ Cardinality(Gens) = MaxGen
  <2>1. 1 \in Int /\ MaxGen \in Int /\ ~(1 > MaxGen) /\ MaxGen - 1 + 1 = MaxGen
    BY RouteBoundsAssumption
  <2> QED
    BY <2>1, FS_Interval DEF Gens
<1>2. Appended \in SUBSET Gens
  BY DEF Appended
<1> QED
  BY <1>1, <1>2, FS_Subset, FS_CardinalityType

LEMMA EnterKeepsFrames ==
    ASSUME RouteTyped, NEW g \in Gens, NEW s \in Syncs, EnterMounts(g, s)
    PROVE  /\ \A p \in Framed : frames'[p] <= frames[p] /\ frames'[p] \in Nat
           /\ \A p \in Framed : frames'[p] > 0 => frames[p] > 1
           /\ \A p \in Framed : frames'[p] > 0 /\ p \in misplaced => p \in misplaced'
<1>1. frames \in [Framed -> Nat] /\ misplaced \subseteq Framed
  BY DEF RouteTyped
<1>2. \A p \in Framed : frames'[p] = IF frames[p] = 0 THEN 0 ELSE frames[p] - 1
  BY DEF EnterMounts, Removed
<1>3. misplaced' = {p \in misplaced : frames'[p] > 0}
  BY <1>1 DEF EnterMounts
<1> QED
  BY <1>1, <1>2, <1>3

LEMMA AppendDoes ==
    ASSUME RouteBase, NEW g \in Gens, AppendFrame(g)
    PROVE  \/ UNCHANGED <<frames, misplaced>>
           \/ \E p \in Framed :
                /\ p = sync[g].frame /\ frames'[p] = frames[p] + 1
                /\ \A q \in Framed : q # p => frames'[q] = frames[q]
                /\ misplaced \subseteq misplaced'
                /\ path # p \/ frames[p] > 0 => p \in misplaced'
<1> DEFINE p == sync[g].frame
<1>1. p \in Framed /\ frames \in [Framed -> Nat]
  BY AppendFrameDoes DEF RouteBase, RouteTyped
<1>2. CASE UNCHANGED <<frames, misplaced>>
  BY <1>2
<1>3. CASE /\ frames' = [frames EXCEPT ![p] = @ + 1]
           /\ misplaced' = misplaced \cup (IF path # p \/ frames[p] > 0 THEN {p} ELSE {})
  BY <1>1, <1>3
<1> QED
  BY <1>2, <1>3 DEF AppendFrame, mounts

LEMMA NotYetRun ==
    ASSUME RouteBase PROVE gen + 1 \in Gens => sync[gen + 1].pc = "none"
<1>1. gen \in Gens
  BY GensFacts
<1>2. gen \in Nat
  BY <1>1, RouteBoundsAssumption DEF Gens
<1>3. gen + 1 > gen
  BY <1>2
<1> QED
  BY <1>3 DEF RouteBase, Newest

LEMMA AppendedGrows == RouteBase /\ [RouteNext]_routeVars => Appended \subseteq Appended'
<1> SUFFICES ASSUME RouteBase, [RouteNext]_routeVars, NEW h \in Gens,
                    sync[h].pc \in {"mounts", "done"}, sync[h].frame = ""
             PROVE  sync'[h].pc \in {"mounts", "done"} /\ sync'[h].frame = ""
  BY DEF Appended
<1>1. ASSUME NEW p \in Paths, NavigateTo(p)
      PROVE  sync'[h].pc \in {"mounts", "done"} /\ sync'[h].frame = ""
  <2>1. gen' = gen + 1 /\ gen' \in Gens /\ OnlyRun(gen')
    BY <1>1, NavigateToDoes
  <2>2. h # gen'
    <3>1. gen + 1 \in Gens => sync[gen + 1].pc = "none"
      BY NotYetRun
    <3> QED
      BY <2>1, <3>1
  <2> QED
    BY <2>1, <2>2 DEF OnlyRun
<1>2. CASE LogoutDone
  <2>1. gen' = gen + 1 /\ gen' \in Gens /\ OnlyRun(gen')
    BY <1>2, LogoutDoneDoes
  <2>2. h # gen'
    <3>1. gen + 1 \in Gens => sync[gen + 1].pc = "none"
      BY NotYetRun
    <3> QED
      BY <2>1, <3>1
  <2> QED
    BY <2>1, <2>2 DEF OnlyRun
<1>3. ASSUME NEW g \in Gens,
             ServeSession(g) \/ Resume(g) \/ ServeZone(g) \/ ZoneRead(g) \/ AppendFrame(g)
      PROVE  sync'[h].pc \in {"mounts", "done"} /\ sync'[h].frame = ""
  <2>1. OnlyRun(g)
    BY <1>3, ServeSessionDoes, ResumeDoes, ServeZoneDoes, ZoneReadDoes, AppendFrameDoes DEF Entered
  <2>2. g # h
    <3>1. CASE AppendFrame(g)
      BY <3>1 DEF AppendFrame
    <3>2. CASE ~AppendFrame(g)
      <4>1. sync[g].pc \in {"session", "cached", "fetched", "zone", "read"}
        BY <1>3, <3>2 DEF ServeSession, Resume, ServeZone, ZoneRead
      <4> QED
        BY <4>1
    <3> QED
      BY <3>1, <3>2
  <2> QED
    BY <2>1, <2>2 DEF OnlyRun
<1>4. ASSUME NEW g \in Gens, Finish(g)
      PROVE  sync'[h].pc \in {"mounts", "done"} /\ sync'[h].frame = ""
  BY <1>4, FinishDoes DEF OnlyRun
<1>5. CASE UNCHANGED sync
  BY <1>5
<1>6. (PageHide \/ CacheExpires \/ ServeLogout \/ LogoutLost) => UNCHANGED sync
  BY DEF PageHide, CacheExpires, ServeLogout, LogoutLost
<1> QED
  BY <1>1, <1>2, <1>3, <1>4, <1>5, <1>6, GensFacts, ElsewhereDoes DEF RouteNext, Elsewhere

LEMMA BoundStep == RouteBase /\ FramesBounded /\ [RouteNext]_routeVars => FramesBounded'
<1> SUFFICES ASSUME RouteBase, FramesBounded, [RouteNext]_routeVars PROVE FramesBounded'
  OBVIOUS
<1> DEFINE c == Cardinality(Appended)
           d == Cardinality(Appended')
<1>0. RouteTyped /\ \A p \in Framed : frames[p] \in Nat
  BY DEF RouteBase, RouteTyped
<1>1. IsFiniteSet(Appended) /\ IsFiniteSet(Appended') /\ c \in Nat /\ d \in Nat
  <2>1. (IsFiniteSet(Appended) /\ Cardinality(Appended) \in Nat)'
    BY AppendedFinite, PTL
  <2> QED
    BY <2>1, AppendedFinite
<1>2. Appended \subseteq Appended'
  BY AppendedGrows
<1>3. c <= d
  BY <1>1, <1>2, FS_Subset
<1>4. ASSUME NEW g \in Gens, AppendFrame(g) PROVE FramesBounded'
  <2>1. g \notin Appended /\ g \in Appended'
    BY <1>4, AppendFrameDoes DEF Appended, AppendFrame
  <2>2. c + 1 <= d
    <3>1. IsFiniteSet(Appended \cup {g}) /\ Cardinality(Appended \cup {g}) = c + 1
      BY <1>1, <2>1, FS_AddElement
    <3>2. Appended \cup {g} \in SUBSET Appended'
      BY <1>2, <2>1
    <3> QED
      BY <1>1, <3>1, <3>2, FS_Subset
  <2>3. \A p \in Framed : frames'[p] <= frames[p] + 1
    BY <1>0, <1>4, AppendDoes
  <2>4. \A p \in Framed : frames'[p] \in Nat
    <3>1. frames' \in [Framed -> Nat]
      BY <1>0, <1>4, FramesTyped, AppendFrameDoes
    <3> QED
      BY <3>1
  <2> HIDE DEF c, d
  <2>5. \A p \in Framed : frames'[p] <= d
    <3>1. \A p \in Framed : frames[p] <= c
      BY DEF FramesBounded, c
    <3> QED
      BY <1>0, <1>1, <2>2, <2>3, <2>4, <3>1
  <2> QED
    BY <2>5 DEF FramesBounded, d
<1>5. ASSUME \A p \in Framed : frames'[p] <= frames[p] /\ frames'[p] \in Nat PROVE FramesBounded'
  <2>1. \A p \in Framed : frames[p] <= c
    BY DEF FramesBounded
  <2> HIDE DEF c, d
  <2>2. \A p \in Framed : frames'[p] <= d
    BY <1>0, <1>1, <1>3, <1>5, <2>1
  <2> QED
    BY <2>2 DEF FramesBounded, d
<1>6. ASSUME UNCHANGED frames PROVE FramesBounded'
  <2>1. \A p \in Framed : frames'[p] <= frames[p] /\ frames'[p] \in Nat
    BY <1>0, <1>6
  <2> QED
    BY <1>5, <2>1
<1>7. ASSUME NEW g \in Gens, Resume(g) \/ ZoneRead(g) PROVE FramesBounded'
  <2>1. sync[g] \in Syncs /\ [sync[g] EXCEPT !.who = "out"] \in Syncs
    BY <1>0 DEF RouteTyped, Syncs, Sessions
  <2>2. CASE \E s \in Syncs : EnterMounts(g, s)
    BY <1>0, <1>5, <2>2, EnterKeepsFrames
  <2>3. CASE UNCHANGED frames
    BY <1>6, <2>3
  <2> QED
    BY <1>7, <2>1, <2>2, <2>3, ResumeDoes, ZoneReadDoes
<1>8. ASSUME NEW g \in Gens, ServeSession(g) \/ ServeZone(g) \/ Finish(g) PROVE FramesBounded'
  <2>1. UNCHANGED frames
    BY <1>8 DEF ServeSession, ServeZone, Finish, mounts
  <2> QED
    BY <1>6, <2>1
<1>9. (PageHide \/ CacheExpires \/ ServeLogout \/ LogoutLost) => UNCHANGED frames
  BY DEF PageHide, CacheExpires, ServeLogout, LogoutLost, mounts
<1> QED
  BY <1>4, <1>6, <1>7, <1>8, <1>9, GensFacts, ElsewhereDoes, NewRunDoes DEF RouteNext, Elsewhere

LEMMA FramesStep == RouteBase /\ FramesFit /\ [RouteNext]_routeVars => FramesFit'
<1> SUFFICES ASSUME RouteBase, FramesFit, [RouteNext]_routeVars PROVE FramesFit'
  OBVIOUS
<1>0. RouteTyped /\ \A p \in Framed : frames[p] \in Nat
  BY DEF RouteBase, RouteTyped
<1>1. CASE LogoutDone \/ \E p \in Paths : NavigateTo(p)
  BY <1>1, NewRunDoes DEF FramesFit
<1>2. ASSUME NEW g \in Gens, NEW s \in Syncs, EnterMounts(g, s), UNCHANGED <<path, gen>>
      PROVE  FramesFit'
  <2>1. \A p \in Framed : frames'[p] \in Nat /\ (frames'[p] > 0 => p \in misplaced')
    BY <1>0, <1>2, EnterKeepsFrames DEF FramesFit
  <2> QED
    BY <2>1 DEF FramesFit
<1>3. ASSUME NEW g \in 1..gen, Resume(g) \/ ZoneRead(g) PROVE FramesFit'
  <2>1. g \in Gens /\ gen \in Gens /\ UNCHANGED <<path, gen>>
    BY <1>3, GensFacts, RunDoes
  <2>2. sync[g] \in Syncs /\ [sync[g] EXCEPT !.who = "out"] \in Syncs
    BY <1>0, <2>1 DEF RouteTyped, Syncs, Sessions
  <2>3. CASE \E s \in Syncs : EnterMounts(g, s)
    BY <1>2, <2>1, <2>3
  <2>4. CASE ~(\E s \in Syncs : EnterMounts(g, s))
    <3>1. Resume(g)
      BY <1>3, <2>1, <2>2, <2>4, ZoneReadDoes
    <3>2. /\ UNCHANGED <<frames, misplaced>> /\ OnlyRun(g)
          /\ g = gen => sync'[g].pc = "zone"
      BY <2>1, <2>2, <2>4, <3>1, ResumeDoes
    <3> QED
      BY <2>1, <3>2 DEF OnlyRun, FramesFit
  <2> QED
    BY <2>3, <2>4
<1>4. ASSUME NEW g \in 1..gen, AppendFrame(g) PROVE FramesFit'
  <2>1. g \in Gens /\ gen \in Gens
    BY GensFacts
  <2>2. /\ UNCHANGED <<path, gen>>
        /\ sync'[gen].pc = sync[gen].pc
    BY <1>4, <2>1, AppendFrameDoes DEF AppendFrame, OnlyRun
  <2>3. CASE UNCHANGED <<frames, misplaced>>
    BY <2>2, <2>3 DEF FramesFit
  <2>4. CASE \E p \in Framed :
               /\ p = sync[g].frame /\ frames'[p] = frames[p] + 1
               /\ \A q \in Framed : q # p => frames'[q] = frames[q]
               /\ misplaced \subseteq misplaced'
               /\ path # p \/ frames[p] > 0 => p \in misplaced'
    <3>1. PICK p \in Framed :
            /\ frames'[p] = frames[p] + 1
            /\ \A q \in Framed : q # p => frames'[q] = frames[q]
            /\ misplaced \subseteq misplaced'
            /\ path # p \/ frames[p] > 0 => p \in misplaced'
      BY <2>4
    <3>2. \A q \in Framed : frames'[q] > 1 => q \in misplaced'
      BY <1>0, <3>1 DEF FramesFit
    <3>3. sync[gen].pc \in {"mounts", "done"} =>
            \A q \in Framed : frames'[q] > 0 => q = path \/ q \in misplaced'
      BY <1>0, <3>1 DEF FramesFit
    <3> QED
      BY <2>2, <3>2, <3>3 DEF FramesFit
  <2> QED
    BY <1>4, <2>1, <2>3, <2>4, AppendDoes
<1>5. ASSUME NEW g \in 1..gen, ServeSession(g) \/ ServeZone(g) PROVE FramesFit'
  <2>1. UNCHANGED <<path, gen, frames, misplaced>>
    BY <1>5 DEF ServeSession, ServeZone, mounts
  <2>2. sync'[gen].pc \in {"mounts", "done"} => sync[gen].pc \in {"mounts", "done"}
    BY <1>5, GensFacts, ServeSessionDoes, ServeZoneDoes DEF OnlyRun
  <2> QED
    BY <2>1, <2>2 DEF FramesFit
<1>6. ASSUME NEW g \in 1..gen, Finish(g) PROVE FramesFit'
  <2>1. UNCHANGED <<path, gen, frames, misplaced>>
    BY <1>6 DEF Finish, mounts
  <2>2. sync'[gen].pc \in {"mounts", "done"} => sync[gen].pc \in {"mounts", "done"}
    BY <1>6, GensFacts, FinishDoes DEF OnlyRun
  <2> QED
    BY <2>1, <2>2 DEF FramesFit
<1>7. CASE Elsewhere \/ PageHide \/ CacheExpires \/ ServeLogout \/ LogoutLost
  <2>1. UNCHANGED <<path, gen, sync, frames, misplaced>>
    BY <1>7, ElsewhereDoes DEF PageHide, CacheExpires, ServeLogout, LogoutLost, mounts
  <2> QED
    BY <2>1 DEF FramesFit
<1> QED
  BY <1>1, <1>3, <1>4, <1>5, <1>6, <1>7 DEF RouteNext, Elsewhere

-----------------------------------------------------------------------------
(* The zone drawn.                                                         *)

ZoneFits ==
    sync[gen].pc = "done" /\ live.kind = "socket" /\ live.at = version[live.page] =>
        stray \/ (latest = At("zone", live.page, version[live.page]) /\ scene = latest)

\* A slower answer is shown: it is the newest version, or it is stray.
LEMMA RefreshKeeps ==
    ASSUME RouteBase, ZoneFits, NEW z \in Zones, NEW v \in Versions, v <= version[z],
           refreshZone(z, v), UNCHANGED live, UNCHANGED version,
           sync'[gen'].pc = "done" => sync[gen].pc = "done"
    PROVE  ZoneFits'
<1>1. /\ scene' = latest' /\ latest' = At("zone", z, v)
      /\ stray' = (stray \/ live.kind # "socket" \/ live.page # z \/ v < live.at)
  BY RefreshDoes
<1>2. CASE live.kind = "socket" /\ live.page = z /\ live.at = version[z] /\ ~(v < live.at)
  <2>1. v \in Nat /\ version[z] \in Nat
    BY VersionFacts DEF RouteBase, RouteTyped
  <2>2. v = version[z]
    BY <1>2, <2>1
  <2> QED
    BY <1>1, <1>2, <2>2 DEF ZoneFits
<1> QED
  BY <1>1, <1>2 DEF ZoneFits

LEMMA ZoneStep == RouteBase /\ ZoneFits /\ [RouteNext]_routeVars => ZoneFits'
<1> SUFFICES ASSUME RouteBase, ZoneFits, [RouteNext]_routeVars PROVE ZoneFits'
  OBVIOUS
<1>0. RouteTyped
  BY DEF RouteBase
<1>1. CASE LogoutDone \/ \E p \in Paths : NavigateTo(p)
  BY <1>1, NewRunDoes DEF ZoneFits
<1>2. ASSUME NEW g \in 1..gen, ServeSession(g) \/ ServeZone(g) \/ AppendFrame(g) PROVE ZoneFits'
  <2>1. UNCHANGED <<gen, live, version, latest, scene, stray>>
    BY <1>2 DEF ServeSession, ServeZone, AppendFrame, zone
  <2> QED
    BY <1>2, <2>1, RunDoes DEF ZoneFits
<1>3. ASSUME NEW g \in 1..gen, Resume(g) PROVE ZoneFits'
  <2>0. g \in Gens /\ gen \in Gens
    BY GensFacts
  <2>1. UNCHANGED <<gen, live, version, latest, stray>>
    BY <1>3 DEF Resume
  <2>2. g # gen => UNCHANGED scene
    BY <1>3, <2>0, ResumeDoes
  <2> QED
    BY <1>3, <2>1, <2>2, RunDoes DEF ZoneFits
<1>4. ASSUME NEW g \in 1..gen, ZoneRead(g) PROVE ZoneFits'
  <2>1. /\ sync[g].path \in Zones /\ sync[g].zone \in Versions
        /\ sync[g].zone <= version[sync[g].path]
    BY <1>4, GensFacts, ZoneReadDoes
  <2>2. UNCHANGED <<gen, live, version>> /\ (sync'[gen].pc = "done" => sync[gen].pc = "done")
    BY <1>4, RunDoes
  <2>3. CASE refreshZone(sync[g].path, sync[g].zone)
    BY <2>1, <2>2, <2>3, RefreshKeeps
  <2>4. CASE UNCHANGED <<latest, scene, stray>>
    BY <2>2, <2>4 DEF ZoneFits
  <2> QED
    BY <1>4, <2>3, <2>4 DEF ZoneRead
<1>5. ASSUME NEW g \in 1..gen, Finish(g) PROVE ZoneFits'
  <2>0. g \in Gens /\ gen \in Gens
    BY GensFacts
  <2>1. /\ OnlyRun(g)
        /\ g = gen => live' = startLiveUpdates(path)
        /\ g # gen => UNCHANGED <<live, latest>>
    BY <1>5, <2>0, FinishDoes
  <2>2. UNCHANGED <<path, gen, version, scene, stray>>
    BY <1>5 DEF Finish
  <2>3. CASE g # gen
    BY <2>0, <2>1, <2>2, <2>3 DEF OnlyRun, ZoneFits
  <2>4. CASE g = gen /\ path \in Zones
    <3>1. /\ live'.page = path /\ live'.at < version[path]
          /\ live'.at \in Nat /\ version[path] \in Nat
      <4>1. live' \in Lives /\ live'.page = path /\ live'.at < version[path]
        BY <1>0, <2>1, <2>4, StartLiveDoes
      <4> QED
        BY <1>0, <2>4, <4>1, VersionFacts DEF RouteTyped, Lives
    <3>2. live'.at # version'[live'.page]
      BY <2>2, <3>1
    <3> QED
      BY <3>2 DEF ZoneFits
  <2>5. CASE g = gen /\ path \notin Zones
    <3>1. live'.kind # "socket"
      BY <1>0, <2>1, <2>5, StartLiveDoes
    <3> QED
      BY <3>1 DEF ZoneFits
  <2> QED
    BY <2>3, <2>4, <2>5
<1>6. CASE Message
  <2>1. UNCHANGED <<gen, sync, version>>
    BY <1>6 DEF Message
  <2>2. /\ live'.page = live.page /\ live'.at = live.at + 1
        /\ scene' = latest' /\ latest' = At("zone", live.page, live.at + 1)
    BY <1>6, MessageDoes
  <2> QED
    BY <2>1, <2>2 DEF ZoneFits
<1>7. CASE Resize
  <2>1. UNCHANGED <<gen, sync, live, version, latest, stray>>
    BY <1>7 DEF Resize
  <2>2. latest = scene => scene' = scene
    BY <1>7, ResizeDoes
  <2> QED
    BY <2>1, <2>2 DEF ZoneFits
<1>8. CASE SocketCloses
  BY <1>8, SocketClosesDoes DEF ZoneFits
<1>9. CASE Reconnect
  <2>1. /\ live' \in Lives /\ version' = version
        /\ live'.kind = "socket" => live'.page \in Zones /\ live'.at < version[live'.page]
    BY <1>9, ReconnectDoes DEF Reconnect, zone
  <2>2. live'.kind = "socket" => live'.at # version'[live'.page]
    <3>1. live'.at \in Nat /\ (live'.kind = "socket" => version[live'.page] \in Nat)
      BY <1>0, <2>1, VersionFacts DEF RouteTyped, Lives
    <3> QED
      BY <2>1, <3>1
  <2> QED
    BY <2>2 DEF ZoneFits
<1>10. CASE PageHide
  <2>1. live'.kind = "none"
    BY <1>10, NothingTyped DEF PageHide
  <2> QED
    BY <2>1 DEF ZoneFits
<1>11. CASE CacheExpires \/ ServeLogout \/ LogoutLost
  <2>1. UNCHANGED <<gen, sync, live, version, latest, scene, stray>>
    BY <1>11 DEF CacheExpires, ServeLogout, LogoutLost, zone
  <2> QED
    BY <2>1 DEF ZoneFits
<1>12. ASSUME NEW z \in Zones, PlaceNote(z) PROVE ZoneFits'
  BY <1>12 DEF PlaceNote, ZoneFits
<1>13. ASSUME NEW z \in Zones, version'[z] = version[z] + 1,
              \A y \in Zones : y # z => version'[y] = version[y],
              UNCHANGED <<gen, sync, live, latest, scene, stray>>
       PROVE  ZoneFits'
  <2>1. CASE live.kind = "socket" /\ live.page = z
    <3>1. live.at <= version[z] /\ live.at \in Nat /\ version[z] \in Nat
      BY <1>0, <2>1, VersionFacts DEF RouteBase, RouteTyped, Reads, Lives
    <3>2. live.at # version'[live.page]
      BY <1>13, <2>1, <3>1
    <3> QED
      BY <1>13, <3>2 DEF ZoneFits
  <2>2. CASE live.kind = "socket" /\ live.page # z
    <3>1. live.page \in Zones
      BY <2>2 DEF RouteBase, Reads
    <3> QED
      BY <1>13, <2>2, <3>1 DEF ZoneFits
  <2>3. CASE live.kind # "socket"
    BY <1>13, <2>3 DEF ZoneFits
  <2> QED
    BY <2>1, <2>2, <2>3
<1>14. ASSUME NEW z \in Zones, Mutation(z) PROVE ZoneFits'
  <2>1. UNCHANGED <<gen, sync, live, latest, scene, stray>>
    BY <1>14 DEF Mutation
  <2> QED
    BY <1>13, <1>14, <2>1, MutationDoes
<1>15. CASE NoteStep
  <2>1. UNCHANGED <<gen, sync, live>> /\ note.zone \in Zones
    BY <1>15, NoteStepDoes DEF NoteStep
  <2>2. CASE UNCHANGED <<version, latest, scene, stray>>
    BY <2>1, <2>2 DEF ZoneFits
  <2>3. CASE /\ version'[note.zone] = version[note.zone] + 1
             /\ \A y \in Zones : y # note.zone => version'[y] = version[y]
             /\ UNCHANGED <<latest, scene, stray>>
    <3>1. PICK z \in Zones : z = note.zone
      BY <2>1
    <3> QED
      BY <1>13, <2>1, <2>3, <3>1
  <2>4. CASE /\ UNCHANGED version /\ note.v \in Versions /\ note.v <= version[note.zone]
             /\ refreshZone(note.zone, note.v)
    BY <2>1, <2>4, RefreshKeeps
  <2> QED
    BY <1>15, <2>2, <2>3, <2>4, NoteStepDoes
<1>16. CASE UNCHANGED routeVars
  BY <1>16 DEF routeVars, ZoneFits
<1> QED
  BY <1>1, <1>2, <1>3, <1>4, <1>5, <1>6, <1>7, <1>8, <1>9, <1>10, <1>11, <1>12, <1>14, <1>15,
     <1>16 DEF RouteNext

-----------------------------------------------------------------------------
RouteInv ==
    /\ RouteBase /\ LiveFits /\ ToolsFit /\ SessionFits
    /\ FramesFit /\ FramesBounded /\ ZoneFits

LEMMA RouteStarts == RouteInit => RouteInv
<1> SUFFICES ASSUME RouteInit PROVE RouteInv
  OBVIOUS
<1>1. RouteBase
  BY BaseStarts
<1>2. sync[gen].pc = "session"
  <2>1. NoSync \in Syncs
    BY NothingTyped
  <2>2. [NoSync EXCEPT !.pc = "session", !.path = path].pc = "session"
    BY <2>1 DEF Syncs
  <2>3. gen = 1 /\ 1 \in 1..MaxGen
    BY RouteBoundsAssumption DEF RouteInit
  <2> QED
    BY <2>2, <2>3 DEF RouteInit
<1>3. tools.gen # gen /\ cached # "in"
  BY DEF RouteInit
<1>4. \A p \in Framed : frames[p] = 0
  BY DEF RouteInit
<1>5. FramesBounded
  BY <1>4, AppendedFinite DEF FramesBounded
<1> QED
  BY <1>1, <1>2, <1>3, <1>4, <1>5
     DEF RouteInv, LiveFits, ToolsFit, SessionFits, FramesFit, ZoneFits

(***************************************************************************)
(* The invariant of the route: the runs of syncRoute, the live updates,    *)
(* the tools, the iframes and the zone drawn, with what was read of them.  *)
(***************************************************************************)
THEOREM RouteSound == RouteSpec => []RouteInv
<1>1. RouteInv /\ [RouteNext]_routeVars => RouteInv'
  BY BaseStep, LiveStep, ToolsStep, SessionStep, FramesStep, BoundStep, ZoneStep DEF RouteInv
<1> QED
  BY <1>1, RouteStarts, PTL DEF RouteSpec

(* The state of the route has its type, with at most MaxGen iframes each.  *)
THEOREM RouteTypeCorrect == RouteSpec => []RouteTypeOK
<1>1. RouteInv => RouteTypeOK
  <2> SUFFICES ASSUME RouteInv PROVE RouteTypeOK
    OBVIOUS
  <2>0. RouteTyped
    BY DEF RouteInv, RouteBase
  <2>1. frames \in [Framed -> 0..MaxGen]
    <3>1. \A p \in Framed : frames[p] \in Nat /\ frames[p] <= Cardinality(Appended)
      BY <2>0 DEF RouteInv, FramesBounded, RouteTyped
    <3>2. \A p \in Framed : frames[p] \in 0..MaxGen
      BY <3>1, AppendedFinite, RouteBoundsAssumption
    <3> QED
      BY <2>0, <3>2 DEF RouteTyped
  <2>2. latest.at <= MaxVersion /\ scene.at <= MaxVersion
    <3>1. latest.at \in Versions /\ scene.at \in Versions
      BY <2>0 DEF RouteTyped, Shown
    <3> QED
      BY <3>1, RouteBoundsAssumption DEF Versions
  <2>3. \A g \in DOMAIN sync :
          sync[g].pc \in {"none", "session", "cached", "fetched", "zone", "read", "mounts", "done"}
    BY <2>0 DEF RouteTyped, Syncs
  <2> QED
    BY <2>0, <2>1, <2>2, <2>3 DEF RouteTypeOK, RouteTyped, Gens, Sessions, Lives, Notes
<1> QED
  BY <1>1, RouteSound, PTL

(* syncRoute: once the newest navigation has settled, live updates, tools  *)
(* and iframes are those of the page and of a session that is still there, *)
(* whatever older runs did meanwhile.                                      *)
THEOREM RouteSettles == RouteSpec => []RouteSettled
<1>1. RouteInv => RouteSettled
  BY DEF RouteInv, LiveFits, LiveOf, ToolsFit, SessionFits, FramesFit, RouteSettled, Settled,
         RouteBase, RouteTyped
<1> QED
  BY <1>1, RouteSound, PTL

(* liveUpdates.ts: when the socket has caught up, the zone drawn is the    *)
(* zone there is, unless a slower answer was shown over it.                *)
THEOREM ZoneIsCurrent == RouteSpec => []ZoneCurrent
<1>1. RouteInv => ZoneCurrent
  <2> SUFFICES ASSUME RouteInv, Settled, live.kind = "socket", live.at = version[live.page]
               PROVE  stray \/ (latest = At("zone", path, version[path]) /\ scene = latest)
    BY DEF ZoneCurrent
  <2>1. path \in Zones /\ live.page = path
    BY DEF RouteInv, LiveFits, LiveOf, Settled
  <2> QED
    BY <2>1 DEF RouteInv, ZoneFits, Settled
<1> QED
  BY <1>1, RouteSound, PTL

-----------------------------------------------------------------------------
(***************************************************************************)
(* Proofs about HostComposers for any number of handlers at a time.  What  *)
(* a handler still has to do is a sequence of words; the invariant says of *)
(* each lane that its script fits its spinner and its composer, of each    *)
(* composer how often its text can have been accepted, and of each spinner *)
(* who still owes the status that ends it.                                 *)
(***************************************************************************)

States == {"busy", "success", "error"}
Words == States \cup {"ask", "send", "go"}

(* A status that is not "busy" is to come; at most one call is a sending   *)
(* one, and it was not made yet; an error ends the script.                 *)
Owes(left) == \E i \in 1..Len(left) : left[i] \in {"success", "error"}
Underway(left) == \E i \in 1..Len(left) : left[i] = "send"
SendsOnce(left) == \A i, j \in 1..Len(left) : left[i] = "send" /\ left[j] = "send" => i = j
EndsOnError(left) == \A i \in 1..Len(left) : left[i] = "error" => i = Len(left)

ActionOf(spinner) ==
    CASE spinner = "replying" -> "post"
      [] spinner = "dmSending" -> "message"
      [] spinner = "searching" -> "search"
      [] spinner = "profileSaving" -> "profile"
      [] OTHER -> "none"

SpinnerOf(c) == IF c = "reply" THEN "replying" ELSE "dmSending"

Tasks == [composer : Composers \cup {"none"}, spinner : Spinners \cup {"none"},
          action : Actions \cup {"none"}, left : Seq(Words), own : BOOLEAN, accepted : BOOLEAN]

TaskSound(task) ==
    /\ task.spinner # "none" => task.action = ActionOf(task.spinner)
    /\ task.composer \in {"post", "note"} => task.spinner = "none"
    /\ task.own => task.composer \in Counted /\ SendsOnce(task.left) /\ EndsOnError(task.left)
    /\ task.own /\ Underway(task.left) => ~task.accepted

(***************************************************************************)
(* The scripts of the bridge, handler by handler.                          *)
(***************************************************************************)
Fits(h) ==
    h.action \in Actions \cup {"none"} =>
    /\ Running(h) \in Tasks
    /\ TaskSound(Running(h))
    /\ Spinner(h) # "none" => Owes(Running(h).left)

IsMove(s) == Step(s) \in Words
IsScript(steps) == \E T : steps \in Seq(T) /\ \A s \in T : IsMove(s)

LEMMA MoveWords ==
    /\ Step(Busy) = "busy" /\ Step(Success) = "success" /\ Step(Say("error")) = "error"
    /\ \A p : Step(Go(p)) = "go"
    /\ \A m, p, f : Step(Ask(m, p, f)) = IF p \in Sends THEN "send" ELSE "ask"
<1>1. Step(Busy) = "busy" /\ Step(Success) = "success" /\ Step(Say("error")) = "error"
  BY DEF Step, Say, Busy, Success
<1>2. ASSUME NEW p PROVE Step(Go(p)) = "go"
  BY DEF Step, Go
<1>3. ASSUME NEW m, NEW p, NEW f
      PROVE  Step(Ask(m, p, f)) = IF p \in Sends THEN "send" ELSE "ask"
  BY DEF Step, Ask, Call
<1> QED
  BY <1>1, <1>2, <1>3

LEMMA MoveKinds ==
    /\ IsMove(Busy) /\ IsMove(Success) /\ IsMove(Say("error"))
    /\ \A p : IsMove(Go(p))
    /\ \A m, p, f : IsMove(Ask(m, p, f))
BY MoveWords DEF IsMove, Words, States

LEMMA ScriptOf ==
    ASSUME NEW steps, NEW T, steps \in Seq(T), \A s \in T : IsMove(s)
    PROVE  IsScript(steps)
BY DEF IsScript

LEMMA Scripts ==
    /\ IsScript(<<>>)
    /\ \A a : IsMove(a) => IsScript(<<a>>)
    /\ \A a, b : IsMove(a) /\ IsMove(b) => IsScript(<<a, b>>)
    /\ \A a, b, c : IsMove(a) /\ IsMove(b) /\ IsMove(c) => IsScript(<<a, b, c>>)
    /\ \A a, b, c, d :
         IsMove(a) /\ IsMove(b) /\ IsMove(c) /\ IsMove(d) => IsScript(<<a, b, c, d>>)
<1>1. IsScript(<<>>)
  <2> DEFINE s == <<>>
             T == {}
  <2>1. s \in Seq(T) /\ \A m \in T : IsMove(m)
    OBVIOUS
  <2> HIDE DEF s, T
  <2>2. IsScript(s)
    BY <2>1, ScriptOf
  <2> QED
    BY <2>2 DEF s
<1>2. ASSUME NEW a, IsMove(a) PROVE IsScript(<<a>>)
  <2> DEFINE s == <<a>>
             T == {a}
  <2>1. s \in Seq(T) /\ \A m \in T : IsMove(m)
    BY <1>2
  <2> HIDE DEF s, T
  <2>2. IsScript(s)
    BY <2>1, ScriptOf
  <2> QED
    BY <2>2 DEF s
<1>3. ASSUME NEW a, NEW b, IsMove(a), IsMove(b) PROVE IsScript(<<a, b>>)
  <2> DEFINE s == <<a, b>>
             T == {a, b}
  <2>1. s \in Seq(T) /\ \A m \in T : IsMove(m)
    BY <1>3
  <2> HIDE DEF s, T
  <2>2. IsScript(s)
    BY <2>1, ScriptOf
  <2> QED
    BY <2>2 DEF s
<1>4. ASSUME NEW a, NEW b, NEW c, IsMove(a), IsMove(b), IsMove(c) PROVE IsScript(<<a, b, c>>)
  <2> DEFINE s == <<a, b, c>>
             T == {a, b, c}
  <2>1. s \in Seq(T) /\ \A m \in T : IsMove(m)
    BY <1>4
  <2> HIDE DEF s, T
  <2>2. IsScript(s)
    BY <2>1, ScriptOf
  <2> QED
    BY <2>2 DEF s
<1>5. ASSUME NEW a, NEW b, NEW c, NEW d, IsMove(a), IsMove(b), IsMove(c), IsMove(d)
       PROVE  IsScript(<<a, b, c, d>>)
  <2> DEFINE s == <<a, b, c, d>>
             T == {a, b, c, d}
  <2>1. s \in Seq(T) /\ \A m \in T : IsMove(m)
    BY <1>5
  <2> HIDE DEF s, T
  <2>2. IsScript(s)
    BY <2>1, ScriptOf
  <2> QED
    BY <2>2 DEF s
<1> QED
  BY <1>1, <1>2, <1>3, <1>4, <1>5

LEMMA ScriptsJoin ==
    ASSUME NEW s, NEW t, IsScript(s), IsScript(t)
    PROVE  IsScript(s \o t)
<1>1. PICK S : s \in Seq(S) /\ \A x \in S : IsMove(x)
  BY DEF IsScript
<1>2. PICK T : t \in Seq(T) /\ \A x \in T : IsMove(x)
  BY DEF IsScript
<1>3. s \in Seq(S \cup T) /\ t \in Seq(S \cup T)
  BY <1>1, <1>2
<1>4. s \o t \in Seq(S \cup T)
  BY <1>3
<1> QED
  BY <1>1, <1>2, <1>4 DEF IsScript

LEMMA Scripted ==
    ASSUME NEW h, IsScript(h.steps), h.action \in Actions \cup {"none"}
    PROVE  /\ Running(h).left \in Seq(Words) /\ Len(Running(h).left) = Len(h.steps)
           /\ \A i \in 1..Len(h.steps) : Running(h).left[i] = Step(h.steps[i])
           /\ Running(h) \in Tasks
<1>0. PICK T : h.steps \in Seq(T) /\ \A s \in T : IsMove(s)
  BY DEF IsScript
<1>1. /\ DOMAIN h.steps = 1..Len(h.steps) /\ Len(h.steps) \in Nat
      /\ \A i \in 1..Len(h.steps) : Step(h.steps[i]) \in Words
  BY <1>0 DEF IsMove
<1>2. Running(h).left = [i \in 1..Len(h.steps) |-> Step(h.steps[i])]
  BY <1>1 DEF Running
<1>3. Running(h).left \in [1..Len(h.steps) -> Words]
  BY <1>1, <1>2
<1>4. Running(h).left \in Seq(Words) /\ Len(Running(h).left) = Len(h.steps)
  BY <1>1, <1>3
<1>5. /\ Composer(h) \in Composers \cup {"none"} /\ Spinner(h) \in Spinners \cup {"none"}
  BY DEF Composer, Spinner, Composers, Spinners
<1>6. Running(h) \in Tasks
  BY <1>4, <1>5 DEF Running, Tasks, Counted
<1> QED
  BY <1>1, <1>2, <1>4, <1>6

Named(h) == h.name \in {"reply", "sendDm", "runSearch", "updateProfile"}

(* Of a handler without a spinner it matters only that it is a script.     *)
LEMMA PlainFits ==
    ASSUME NEW h, IsScript(h.steps), ~Named(h)
    PROVE  Fits(h)
<1>1. Spinner(h) = "none" /\ Composer(h) \notin Counted
  BY DEF Named, Spinner, Composer, Counted
<1>2. Running(h).spinner = "none" /\ ~Running(h).own
  BY <1>1 DEF Running
<1> QED
  BY <1>1, <1>2, Scripted DEF Fits, TaskSound

LEMMA PlainHandler ==
    ASSUME NEW name, NEW sends, NEW needs, NEW action, NEW steps, IsScript(steps),
           name # "reply", name # "sendDm", name # "runSearch", name # "updateProfile"
    PROVE  Fits(Handler(name, sends, needs, action, steps))
<1> DEFINE h == Handler(name, sends, needs, action, steps)
<1>1. h.name = name /\ h.action = action /\ h.steps = steps
  BY DEF Handler
<1> HIDE DEF h
<1>2. ~Named(h)
  BY <1>1 DEF Named
<1>3. Fits(h)
  BY <1>1, <1>2, PlainFits
<1> QED
  BY <1>3 DEF h

(* One handler after the other: scripts without a spinner first.           *)
LEMMA PageFits == \A h \in PageHandlers : Fits(h)
BY PlainHandler, Scripts, MoveKinds DEF PageHandlers

LEMMA ChatFits ==
    \A h \in startConversation \cup ChatHandlers \cup reactDm \cup deleteDmForSelf : Fits(h)
BY PlainHandler, Scripts, MoveKinds
   DEF startConversation, ChatHandlers, reactDm, deleteDmForSelf, ShowMessages

LEMMA ThreadFits == \A h \in ThreadHandlers \cup SettingsHandlers \cup {markConvoRead} : Fits(h)
BY PlainHandler, Scripts, MoveKinds DEF ThreadHandlers, SettingsHandlers, markConvoRead

LEMMA GraphFits == \A h \in GraphHandlers : Fits(h)
BY PlainHandler, Scripts, MoveKinds DEF GraphHandlers, ShowProfile

(* The scripts of the composers of posts, replies and notes.               *)
LEMMA DraftingScripts ==
    ASSUME NEW fields, NEW retries
    PROVE  \E draft : /\ Step(draft) = "ask"
                      /\ Drafting(fields, retries) = IF retries = 0 THEN <<draft>>
                                                     ELSE <<draft, draft>>
BY MoveWords DEF Drafting, Sends

LEMMA NoteFits == \A h \in placeZoneNote : Fits(h)
<1>1. ASSUME NEW a, NEW b, NEW c, NEW d, IsScript(b), IsMove(a), IsMove(c), IsMove(d)
      PROVE  IsScript(<<a>> \o b \o <<c, Success, d>>)
  BY <1>1, Scripts, MoveKinds, ScriptsJoin
<1> QED
  BY <1>1, PlainHandler, Scripts, MoveKinds DEF placeZoneNote

LEMMA PublishingScript ==
    \E send : Step(send) = "send" /\ Publishing = <<Busy, send, Success>>
BY MoveWords DEF Publishing, Sends

LEMMA SheetFits == \A h \in SheetActions : Fits(h)
<1>1. IsScript(Tail(Publishing))
  <2>1. PICK send : Step(send) = "send" /\ Publishing = <<Busy, send, Success>>
    BY PublishingScript
  <2>2. Tail(<<Busy, send, Success>>) = <<send, Success>>
    OBVIOUS
  <2>3. IsMove(send)
    BY <2>1 DEF IsMove, Words
  <2> QED
    BY <2>1, <2>2, <2>3, Scripts, MoveKinds
<1>2. ASSUME NEW fields PROVE IsScript(Drafting(fields, 0) \o Tail(Publishing))
  <2>1. PICK draft : Step(draft) = "ask" /\ Drafting(fields, 0) = <<draft>>
    BY DraftingScripts
  <2>2. IsMove(draft)
    BY <2>1 DEF IsMove, Words
  <2>3. IsScript(<<draft>>)
    BY <2>2, Scripts
  <2> QED
    BY <1>1, <2>1, <2>3, ScriptsJoin
<1> QED
  BY <1>2, PlainHandler, Scripts, MoveKinds DEF SheetActions

(* A post, or a reply: drafting once or twice, publishing, showing again.  *)
LEMMA PostScript ==
    ASSUME NEW fields, NEW retries \in {0, 1}, NEW refresh, Step(refresh) = "ask"
    PROVE  LET steps == <<Busy>> \o Drafting(fields, retries) \o Publishing \o <<refresh>>
               k == retries
           IN  /\ IsScript(steps)
               /\ Len(steps) = 6 + k
               /\ \A i \in 1..(6 + k) : Step(steps[i]) # "error"
               /\ Step(steps[5 + k]) = "success"
               /\ \A i \in 1..(6 + k) : Step(steps[i]) = "send" => i = 4 + k
<1>1. PICK send : Step(send) = "send" /\ Publishing = <<Busy, send, Success>>
  BY PublishingScript
<1>2. PICK draft : /\ Step(draft) = "ask"
                   /\ Drafting(fields, retries) = IF retries = 0 THEN <<draft>>
                                                  ELSE <<draft, draft>>
  BY DraftingScripts
<1>3. IsMove(send) /\ IsMove(draft) /\ IsMove(refresh)
  BY <1>1, <1>2 DEF IsMove, Words
<1>4. IsScript(<<Busy>> \o Drafting(fields, retries) \o Publishing \o <<refresh>>)
  <2>1. IsScript(Publishing) /\ IsScript(Drafting(fields, retries)) /\ IsScript(<<refresh>>)
        /\ IsScript(<<Busy>>)
    BY <1>1, <1>2, <1>3, MoveKinds, Scripts
  <2> QED
    BY <2>1, ScriptsJoin
<1>5. CASE retries = 0
  <2> DEFINE s == <<Busy>> \o <<draft>> \o <<Busy, send, Success>> \o <<refresh>>
  <2>2. /\ Len(s) = 6 /\ s[1] = Busy /\ s[2] = draft /\ s[3] = Busy /\ s[4] = send
        /\ s[5] = Success /\ s[6] = refresh
    OBVIOUS
  <2>3. s = <<Busy>> \o Drafting(fields, retries) \o Publishing \o <<refresh>>
    BY <1>1, <1>2, <1>5
  <2> HIDE DEF s
  <2>4. /\ \A i \in 1..6 : Step(s[i]) # "error"
        /\ \A i \in 1..6 : Step(s[i]) = "send" => i = 4
    BY <1>1, <1>2, <2>2, MoveWords
  <2> QED
    BY <1>4, <1>5, <2>2, <2>3, <2>4, MoveWords
<1>6. CASE retries = 1
  <2> DEFINE s == <<Busy>> \o <<draft, draft>> \o <<Busy, send, Success>> \o <<refresh>>
  <2>2. /\ Len(s) = 7 /\ s[1] = Busy /\ s[2] = draft /\ s[3] = draft /\ s[4] = Busy
        /\ s[5] = send /\ s[6] = Success /\ s[7] = refresh
    OBVIOUS
  <2>3. s = <<Busy>> \o Drafting(fields, retries) \o Publishing \o <<refresh>>
    BY <1>1, <1>2, <1>6
  <2> HIDE DEF s
  <2>4. /\ \A i \in 1..7 : Step(s[i]) # "error"
        /\ \A i \in 1..7 : Step(s[i]) = "send" => i = 5
    BY <1>1, <1>2, <2>2, MoveWords
  <2> QED
    BY <1>4, <1>6, <2>2, <2>3, <2>4, MoveWords
<1> QED
  BY <1>5, <1>6

LEMMA SpinnerFits ==
    ASSUME NEW h, IsScript(h.steps), h.action = ActionOf(Spinner(h)),
           Composer(h) \notin {"post", "note"},
           \E i \in 1..Len(h.steps) : Step(h.steps[i]) \in {"success", "error"},
           \A i, j \in 1..Len(h.steps) :
               Step(h.steps[i]) = "send" /\ Step(h.steps[j]) = "send" => i = j,
           \A i \in 1..Len(h.steps) : Step(h.steps[i]) = "error" => i = Len(h.steps)
    PROVE  Fits(h)
<1> SUFFICES ASSUME h.action \in Actions \cup {"none"} PROVE Fits(h)
  BY DEF Fits
<1>1. /\ Running(h).left \in Seq(Words) /\ Len(Running(h).left) = Len(h.steps)
      /\ \A i \in 1..Len(h.steps) : Running(h).left[i] = Step(h.steps[i])
      /\ Running(h) \in Tasks
  BY Scripted
<1>2. /\ Owes(Running(h).left) /\ SendsOnce(Running(h).left) /\ EndsOnError(Running(h).left)
  BY <1>1 DEF Owes, SendsOnce, EndsOnError
<1>3. /\ Running(h).spinner = Spinner(h) /\ Running(h).composer = Composer(h)
      /\ Running(h).action = h.action /\ ~Running(h).accepted
      /\ Running(h).own => Composer(h) \in Counted
  BY DEF Running
<1>4. TaskSound(Running(h))
  BY <1>2, <1>3 DEF TaskSound
<1> QED
  BY <1>1, <1>2, <1>4 DEF Fits

LEMMA PostFits == \A h \in postMessage : Fits(h)
<1>1. ASSUME NEW retries \in {0, 1}
      PROVE  Fits(Handler("postMessage", {"text", "destination"}, {"text"}, "post",
                 <<Busy>> \o Drafting({}, retries) \o Publishing \o PostRefresh))
  BY PostScript, MoveWords, PlainHandler DEF PostRefresh, Sends
<1>2. ASSUME NEW cid, NEW retries \in {0, 1}
      PROVE  Fits(Handler("reply", {"text", "destination", "replyToUri"} \cup cid, {"text"}, "post",
                 <<Busy>> \o Drafting({"replyToUri"} \cup cid, retries) \o Publishing
                     \o ReplyRefresh))
  <2> DEFINE steps == <<Busy>> \o Drafting({"replyToUri"} \cup cid, retries) \o Publishing
                          \o ReplyRefresh
             h == Handler("reply", {"text", "destination", "replyToUri"} \cup cid, {"text"},
                          "post", steps)
  <2>1. PICK refresh : Step(refresh) = "ask" /\ ReplyRefresh = <<refresh>>
    BY MoveWords DEF ReplyRefresh, Sends
  <2>2. /\ IsScript(steps) /\ Len(steps) = 6 + retries
        /\ \A i \in 1..(6 + retries) : Step(steps[i]) # "error"
        /\ Step(steps[5 + retries]) = "success"
        /\ \A i \in 1..(6 + retries) : Step(steps[i]) = "send" => i = 4 + retries
    BY <2>1, PostScript
  <2>3. h.name = "reply" /\ h.action = "post" /\ h.steps = steps
    BY DEF Handler
  <2> HIDE DEF steps, h
  <2>4. Spinner(h) = "replying" /\ Composer(h) = "reply"
    BY <2>3 DEF Spinner, Composer
  <2>5. Fits(h)
    BY <2>2, <2>3, <2>4, SpinnerFits DEF ActionOf
  <2> QED
    BY <2>5 DEF h, steps
<1> QED
  BY <1>1, <1>2 DEF postMessage

LEMMA DmFits == \A h \in sendDm : Fits(h)
<1>1. ASSUME NEW h, h.name = "sendDm", h.action = "message",
             NEW prepare, NEW send, NEW show, Step(prepare) = "ask", Step(send) = "send",
             Step(show) = "ask",
             h.steps = <<Busy, prepare, Busy, send, Success, show>>
      PROVE  Fits(h)
  <2> DEFINE s == <<Busy, prepare, Busy, send, Success, show>>
  <2>1. /\ Len(s) = 6 /\ s[1] = Busy /\ s[2] = prepare /\ s[3] = Busy /\ s[4] = send
        /\ s[5] = Success /\ s[6] = show
        /\ s \in Seq({Busy, prepare, send, Success, show})
    OBVIOUS
  <2> HIDE DEF s
  <2>2. IsScript(s)
    BY <2>1, <1>1, ScriptOf, MoveKinds DEF IsMove, Words
  <2>3. Spinner(h) = "dmSending" /\ Composer(h) = "dm" /\ h.steps = s
    BY <1>1 DEF Spinner, Composer, s
  <2>4. /\ \A i \in 1..6 : Step(s[i]) # "error"
        /\ \A i \in 1..6 : Step(s[i]) = "send" => i = 4
        /\ Step(s[5]) = "success"
    BY <1>1, <2>1, MoveWords
  <2>5. /\ IsScript(h.steps) /\ h.action = ActionOf(Spinner(h))
        /\ Composer(h) \notin {"post", "note"}
    BY <1>1, <2>2, <2>3 DEF ActionOf
  <2>6. \E i \in 1..Len(s) : Step(s[i]) \in {"success", "error"}
    <3>1. 5 \in 1..Len(s)
      BY <2>1
    <3> QED
      BY <3>1, <2>4
  <2>7. /\ \A i, j \in 1..Len(s) : Step(s[i]) = "send" /\ Step(s[j]) = "send" => i = j
        /\ \A i \in 1..Len(s) : Step(s[i]) = "error" => i = Len(s)
    BY <2>1, <2>4
  <2> QED
    BY <2>3, <2>5, <2>6, <2>7, SpinnerFits
<1>2. ASSUME NEW h, h.name = "sendDm", h.action = "message", h.steps = <<Busy, Say("error")>>
      PROVE  Fits(h)
  <2>1. IsScript(h.steps) /\ Len(h.steps) = 2 /\ h.steps[1] = Busy /\ h.steps[2] = Say("error")
    BY <1>2, Scripts, MoveKinds
  <2>2. Spinner(h) = "dmSending" /\ Composer(h) = "dm"
    BY <1>2 DEF Spinner, Composer
  <2>3. Step(h.steps[1]) = "busy" /\ Step(h.steps[2]) = "error"
    BY <2>1, MoveWords
  <2>4. /\ \E i \in 1..Len(h.steps) : Step(h.steps[i]) \in {"success", "error"}
        /\ \A i, j \in 1..Len(h.steps) :
             Step(h.steps[i]) = "send" /\ Step(h.steps[j]) = "send" => i = j
        /\ \A i \in 1..Len(h.steps) : Step(h.steps[i]) = "error" => i = Len(h.steps)
    BY <2>1, <2>3
  <2>5. h.action = ActionOf(Spinner(h)) /\ Composer(h) \notin {"post", "note"}
    BY <1>2, <2>2 DEF ActionOf
  <2> QED
    BY <2>1, <2>4, <2>5, SpinnerFits
<1>3. ASSUME NEW h \in sendDm PROVE Fits(h)
  <2>1. /\ Step(Ask("POST", "/api/dms/prepare", {"convoId", "recipientDids", "text"})) = "ask"
        /\ Step(Ask("POST", "/api/dms/send", {"revision"})) = "send"
        /\ Step(ShowMessages) = "ask"
    BY MoveWords DEF Sends, ShowMessages
  <2>2. h.name = "sendDm" /\ h.action = "message"
    BY DEF sendDm, Handler
  <2>3. \/ h.steps = <<Busy, Say("error")>>
        \/ h.steps = <<Busy, Ask("POST", "/api/dms/prepare", {"convoId", "recipientDids", "text"}),
                       Busy, Ask("POST", "/api/dms/send", {"revision"}), Success, ShowMessages>>
    BY DEF sendDm, Handler
  <2> QED
    BY <1>1, <1>2, <2>1, <2>2, <2>3
<1> QED
  BY <1>3

LEMMA SearchFits == \A h \in runSearch : Fits(h)
<1>1. ASSUME NEW h \in runSearch PROVE Fits(h)
  <2>1. PICK p \in {"/api/search/posts", "/api/search/actors", "/api/search/feeds"} :
            h = Handler("runSearch", {"kind", "query"}, {"kind", "query"}, "search",
                        <<Busy, Ask("GET", p, {"q"}), Success>>)
    BY DEF runSearch
  <2>2. h.name = "runSearch" /\ h.action = "search"
        /\ h.steps = <<Busy, Ask("GET", p, {"q"}), Success>>
    BY <2>1 DEF Handler
  <2>3. /\ Len(h.steps) = 3 /\ h.steps[1] = Busy /\ h.steps[2] = Ask("GET", p, {"q"})
        /\ h.steps[3] = Success
    BY <2>2
  <2>4. IsScript(h.steps) /\ Step(Ask("GET", p, {"q"})) = "ask"
    BY <2>1, <2>2, Scripts, MoveKinds, MoveWords DEF Sends
  <2>5. Spinner(h) = "searching" /\ Composer(h) = "none"
    BY <2>2 DEF Spinner, Composer
  <2> QED
    BY <2>2, <2>3, <2>4, <2>5, SpinnerFits, MoveWords DEF ActionOf
<1> QED
  BY <1>1

LEMMA ProfileFits == \A h \in ProfileHandlers : Fits(h)
<1>1. ASSUME NEW h, h.name = "updateProfile", h.action = "profile",
             NEW put, NEW get, NEW show, Step(put) = "ask", Step(get) = "ask", Step(show) = "ask",
             h.steps = <<Busy, put, Success, get, show>>
      PROVE  Fits(h)
  <2> DEFINE s == <<Busy, put, Success, get, show>>
  <2>1. /\ Len(s) = 5 /\ s[1] = Busy /\ s[2] = put /\ s[3] = Success /\ s[4] = get /\ s[5] = show
        /\ s \in Seq({Busy, put, get, Success, show})
    OBVIOUS
  <2> HIDE DEF s
  <2>2. IsScript(s)
    BY <2>1, <1>1, ScriptOf, MoveKinds DEF IsMove, Words
  <2>3. Spinner(h) = "profileSaving" /\ Composer(h) = "none" /\ h.steps = s
    BY <1>1 DEF Spinner, Composer, s
  <2>4. /\ \A i \in 1..5 : Step(s[i]) # "error" /\ Step(s[i]) # "send"
        /\ Step(s[3]) = "success"
    BY <1>1, <2>1, MoveWords
  <2> QED
    BY <1>1, <2>1, <2>2, <2>3, <2>4, SpinnerFits DEF ActionOf
<1>2. ASSUME NEW h, h.name = "updateProfile", h.action = "profile",
             h.steps = <<Busy, Ask("PUT", "/api/profile", {"displayName", "description"}), Success,
                         Ask("GET", "/api/session", {}), ShowProfile>>
      PROVE  Fits(h)
  <2>1. /\ Step(Ask("PUT", "/api/profile", {"displayName", "description"})) = "ask"
        /\ Step(Ask("GET", "/api/session", {})) = "ask"
        /\ Step(ShowProfile) = "ask"
    BY MoveWords DEF Sends, ShowProfile
  <2> QED
    BY <1>1, <1>2, <2>1
<1>3. Fits(Handler("uploadAvatar", {}, {}, "profile",
                   <<Busy, Ask("POST", "/api/profile/avatar", {"image"}), Success, ShowProfile>>))
  BY PlainHandler, Scripts, MoveKinds DEF ShowProfile
<1> QED
  BY <1>2, <1>3 DEF ProfileHandlers, Handler

LEMMA HandlersFit == \A h \in Heard : Fits(h) /\ h.action = about
BY PageFits, PostFits, NoteFits, ChatFits, DmFits, SearchFits, GraphFits, ProfileFits, ThreadFits,
   SheetFits DEF Heard, Handlers

-----------------------------------------------------------------------------
(***************************************************************************)
(* What stays true of a script that loses its first word.                  *)
(***************************************************************************)
LEMMA TailFacts ==
    ASSUME NEW left \in Seq(Words), left # <<>>
    PROVE  /\ Tail(left) \in Seq(Words) /\ Head(left) = left[1] /\ Head(left) \in Words
           /\ Len(left) \in Nat \ {0} /\ Len(Tail(left)) = Len(left) - 1
           /\ \A i \in 1..(Len(left) - 1) : Tail(left)[i] = left[i + 1]
  OBVIOUS

LEMMA TailKeeps ==
    ASSUME NEW left \in Seq(Words), left # <<>>
    PROVE  /\ SendsOnce(left) => SendsOnce(Tail(left))
           /\ EndsOnError(left) => EndsOnError(Tail(left))
           /\ Underway(Tail(left)) => Underway(left)
           /\ Owes(left) /\ Head(left) \notin {"success", "error"} => Owes(Tail(left))
           /\ SendsOnce(left) /\ Head(left) = "send" => ~Underway(Tail(left))
           /\ EndsOnError(left) /\ Head(left) = "error" => Tail(left) = <<>>
<1> DEFINE n == Len(left)
           t == Tail(left)
<1>1. /\ n \in Nat \ {0} /\ Len(t) = n - 1 /\ Head(left) = left[1]
      /\ \A i \in 1..(n - 1) : t[i] = left[i + 1]
  BY TailFacts
<1>2. \A i \in 1..(n - 1) : i + 1 \in 1..n /\ i + 1 # 1
  BY <1>1
<1>3. 1 \in 1..n
  BY <1>1
<1> HIDE DEF t
<1>4. SendsOnce(left) => SendsOnce(t)
  BY <1>1, <1>2 DEF SendsOnce
<1>5. EndsOnError(left) => EndsOnError(t)
  BY <1>1, <1>2 DEF EndsOnError
<1>6. Underway(t) => Underway(left)
  BY <1>1, <1>2 DEF Underway
<1>7. ASSUME Owes(left), Head(left) \notin {"success", "error"} PROVE Owes(t)
  <2>1. PICK i \in 1..n : left[i] \in {"success", "error"}
    BY <1>7 DEF Owes
  <2>2. i - 1 \in 1..(n - 1) /\ t[i - 1] = left[i]
    BY <1>1, <1>7, <2>1
  <2> QED
    BY <1>1, <2>1, <2>2 DEF Owes
<1>8. SendsOnce(left) /\ Head(left) = "send" => ~Underway(t)
  BY <1>1, <1>2, <1>3 DEF SendsOnce, Underway
<1>9. EndsOnError(left) /\ Head(left) = "error" => t = <<>>
  <2> SUFFICES ASSUME EndsOnError(left), Head(left) = "error" PROVE t = <<>>
    OBVIOUS
  <2>1. n = 1
    BY <1>1, <1>3 DEF EndsOnError
  <2>2. t \in Seq(Words) /\ Len(t) = 0
    BY <1>1, <2>1, TailFacts DEF t
  <2> QED
    BY <2>2
<1> QED
  BY <1>4, <1>5, <1>6, <1>7, <1>8, <1>9 DEF t

LEMMA FreeTask ==
    /\ Free \in Tasks /\ TaskSound(Free)
    /\ Free.composer = "none" /\ Free.spinner = "none" /\ ~Free.own /\ Free.left = <<>>
<1> DEFINE h == Handler("none", {}, {}, "none", <<>>)
<1>1. h.steps = <<>> /\ h.name = "none" /\ h.action = "none"
  BY DEF Handler
<1>2. IsScript(h.steps) /\ h.action \in Actions \cup {"none"}
  BY <1>1, Scripts
<1> HIDE DEF h
<1>3. Spinner(h) = "none" /\ Composer(h) = "none"
  BY <1>1 DEF Spinner, Composer
<1>4. Running(h) \in Tasks /\ Running(h).left \in Seq(Words) /\ Len(Running(h).left) = 0
  BY <1>1, <1>2, Scripted
<1>5. Running(h).composer = "none" /\ Running(h).spinner = "none" /\ ~Running(h).own
  BY <1>3 DEF Running, Counted
<1>6. TaskSound(Running(h))
  BY <1>5 DEF TaskSound
<1>7. Free = Running(h)
  BY DEF Free, h
<1> QED
  BY <1>4, <1>5, <1>6, <1>7

(* The error is a script of its own.                                       *)
LEMMA ErrorScript ==
    /\ <<"error">> \in Seq(Words) /\ <<"error">> # <<>> /\ Owes(<<"error">>)
    /\ SendsOnce(<<"error">>) /\ EndsOnError(<<"error">>) /\ ~Underway(<<"error">>)
<1> DEFINE e == <<"error">>
<1>1. e \in Seq(Words) /\ Len(e) = 1 /\ e[1] = "error" /\ e # <<>>
  BY DEF Words, States
<1> HIDE DEF e
<1>2. Owes(e) /\ SendsOnce(e) /\ EndsOnError(e) /\ ~Underway(e)
  BY <1>1 DEF Owes, SendsOnce, EndsOnError, Underway
<1> QED
  BY <1>1, <1>2 DEF e

LEMMA NoScript ==
    <<>> \in Seq(Words) /\ ~Owes(<<>>) /\ SendsOnce(<<>>) /\ EndsOnError(<<>>) /\ ~Underway(<<>>)
BY DEF Owes, SendsOnce, EndsOnError, Underway

(* A lane goes on with what is left of its script, or is free.             *)
LEMMA GoesOn ==
    ASSUME NEW l, lane[l] \in Tasks, TaskSound(lane[l]), NEW w \in Seq(Words), NEW acc \in BOOLEAN,
           lane[l].own => SendsOnce(w) /\ EndsOnError(w),
           lane[l].own /\ Underway(w) => ~acc,
           NEW t, t = Going(l, w, acc)
    PROVE  /\ t \in Tasks /\ TaskSound(t)
           /\ w = <<>> => t = Free
           /\ w # <<>> => /\ t.composer = lane[l].composer /\ t.spinner = lane[l].spinner
                          /\ t.action = lane[l].action /\ t.own = lane[l].own
                          /\ t.left = w /\ t.accepted = acc
<1>1. CASE w = <<>>
  BY <1>1, FreeTask DEF Going
<1>2. CASE w # <<>>
  <2>1. t = [lane[l] EXCEPT !.left = w, !.accepted = acc]
    BY <1>2 DEF Going
  <2>2. /\ t \in Tasks
        /\ t.composer = lane[l].composer /\ t.spinner = lane[l].spinner
        /\ t.action = lane[l].action /\ t.own = lane[l].own
        /\ t.left = w /\ t.accepted = acc
    BY <2>1 DEF Tasks
  <2>3. TaskSound(t)
    BY <2>2 DEF TaskSound
  <2> QED
    BY <1>2, <2>2, <2>3
<1> QED
  BY <1>1, <1>2
-----------------------------------------------------------------------------
(***************************************************************************)
(* The invariant.  A text counts for the handler whose it still is: while  *)
(* no error misled the interface there is at most one, nothing of the text *)
(* is accepted before that handler's call is, and a text that could be     *)
(* sent again has neither been accepted nor is on its way.                 *)
(***************************************************************************)
Mine(c, l) == lane[l].own /\ lane[l].composer = c

ComposerSound(c) ==
    /\ sent[c] <= 1
    /\ \A l, m \in Lanes : Mine(c, l) /\ Mine(c, m) => l = m
    /\ \A l \in Lanes : Mine(c, l) /\ ~lane[l].accepted => sent[c] = 0
    /\ c \in typed /\ SpinnerOf(c) \notin spin =>
           sent[c] = 0 /\ \A l \in Lanes : ~Mine(c, l)

SpinnersOwed ==
    \A s \in spin \ excuse : \E l \in Lanes : lane[l].spinner = s /\ Owes(lane[l].left)

ComposersInv ==
    /\ ComposersTypeOK
    /\ lane \in [Lanes -> Tasks]
    /\ \A l \in Lanes : TaskSound(lane[l])
    /\ \A c \in Counted : c \in excuse \/ ComposerSound(c)
    /\ SpinnersOwed

LEMMA TaskFields ==
    ASSUME NEW q \in Tasks
    PROVE  /\ q.composer \in Composers \cup {"none"} /\ q.spinner \in Spinners \cup {"none"}
           /\ q.left \in Seq(Words) /\ q.own \in BOOLEAN /\ q.accepted \in BOOLEAN
BY DEF Tasks

LEMMA ComposersStart == ComposersInit => ComposersInv
<1> SUFFICES ASSUME ComposersInit PROVE ComposersInv
  OBVIOUS
<1>1. lane \in [Lanes -> Tasks] /\ \A l \in Lanes : lane[l] = Free
  BY FreeTask DEF ComposersInit
<1>2. ComposersTypeOK
  BY <1>1, FreeTask DEF ComposersInit, ComposersTypeOK, Counted
<1>3. \A c \in Counted : ComposerSound(c)
  BY <1>1, FreeTask DEF ComposersInit, ComposerSound, Mine
<1>4. SpinnersOwed
  BY DEF ComposersInit, SpinnersOwed
<1> QED
  BY <1>1, <1>2, <1>3, <1>4, FreeTask DEF ComposersInv

(***************************************************************************)
(* One lemma per action.                                                   *)
(***************************************************************************)
LEMMA TypeKeeps == ASSUME ComposersInv, NEW c \in Composers, Type(c) PROVE ComposersInv'
<1> DEFINE t(l) == IF lane[l].composer = c THEN [lane[l] EXCEPT !.own = FALSE] ELSE lane[l]
<1>1. /\ typed' = typed \cup {c} /\ excuse' = excuse \ {c} /\ last' = "none"
      /\ UNCHANGED <<about, spin>>
      /\ \A d \in Counted : sent'[d] = IF d = c THEN 0 ELSE sent[d]
      /\ sent' \in [Counted -> 0..2]
  BY DEF Type, ComposersInv, ComposersTypeOK
<1>2. lane' = [l \in Lanes |-> t(l)]
  BY DEF Type
<1>3. ASSUME NEW l \in Lanes
      PROVE  /\ lane'[l] \in Tasks /\ TaskSound(lane'[l])
             /\ lane'[l].composer = lane[l].composer /\ lane'[l].spinner = lane[l].spinner
             /\ lane'[l].left = lane[l].left /\ lane'[l].accepted = lane[l].accepted
             /\ lane'[l].own => lane[l].own /\ lane[l].composer # c
             /\ lane[l].composer # c => (lane[l].own => lane'[l].own)
  <2>1. lane'[l] = t(l) /\ lane[l] \in Tasks /\ TaskSound(lane[l])
    BY <1>2 DEF ComposersInv
  <2>2. CASE lane[l].composer = c
    <3>1. lane'[l] = [lane[l] EXCEPT !.own = FALSE]
      BY <2>1, <2>2
    <3>2. /\ lane'[l] \in Tasks /\ ~lane'[l].own
          /\ lane'[l].composer = lane[l].composer /\ lane'[l].spinner = lane[l].spinner
          /\ lane'[l].left = lane[l].left /\ lane'[l].accepted = lane[l].accepted
          /\ lane'[l].action = lane[l].action
      BY <2>1, <3>1 DEF Tasks
    <3> QED
      BY <2>1, <2>2, <3>2 DEF TaskSound
  <2>3. CASE lane[l].composer # c
    BY <2>1, <2>3
  <2> QED
    BY <2>2, <2>3
<1>4. lane' \in [Lanes -> Tasks]
  BY <1>2, <1>3
<1>5. ComposersTypeOK'
  BY <1>1, <1>3 DEF ComposersInv, ComposersTypeOK
<1>6. ASSUME NEW d \in Counted PROVE d \in excuse' \/ ComposerSound(d)'
  <2>1. CASE d = c
    <3>1. \A l \in Lanes : ~Mine(d, l)'
      BY <1>3, <2>1 DEF Mine
    <3>2. sent'[d] = 0
      BY <1>1, <2>1
    <3> QED
      BY <3>1, <3>2 DEF ComposerSound
  <2>2. CASE d # c
    <3>1. \A l \in Lanes : /\ Mine(d, l)' => Mine(d, l)
                           /\ lane'[l].accepted = lane[l].accepted
      BY <1>3, <2>2 DEF Mine
    <3>2. sent'[d] = sent[d] /\ (d \in typed' <=> d \in typed) /\ spin' = spin
          /\ (d \in excuse => d \in excuse')
      BY <1>1, <2>2
    <3>3. d \in excuse \/ ComposerSound(d)
      BY DEF ComposersInv
    <3> QED
      BY <3>1, <3>2, <3>3 DEF ComposerSound
  <2> QED
    BY <2>1, <2>2
<1>7. SpinnersOwed'
  <2>1. ASSUME NEW s \in spin' \ excuse' PROVE s \in spin \ excuse
    BY <1>1 DEF ComposersInv, ComposersTypeOK, Spinners, Composers
  <2>2. \A l \in Lanes : lane'[l].spinner = lane[l].spinner /\ lane'[l].left = lane[l].left
    BY <1>3
  <2> QED
    BY <2>1, <2>2 DEF ComposersInv, SpinnersOwed
<1> QED
  BY <1>3, <1>4, <1>5, <1>6, <1>7 DEF ComposersInv

LEMMA ClickKeeps ==
    ASSUME ComposersInv, NEW l \in Lanes, NEW h \in Heard, Click(l, h)
    PROVE  ComposersInv'
<1> DEFINE q == Running(h)
<1>1. /\ lane[l] = Free /\ lane' = [lane EXCEPT ![l] = q]
      /\ Idle(h) /\ Composer(h) \in typed \cup {"none"}
      /\ spin' = spin \cup ({Spinner(h)} \ {"none"})
      /\ UNCHANGED <<about, typed, sent, excuse, last>>
  BY DEF Click
<1>2. /\ Fits(h) /\ h.action \in Actions
  BY HandlersFit DEF ComposersInv, ComposersTypeOK
<1>3. /\ q \in Tasks /\ TaskSound(q) /\ q.composer = Composer(h) /\ q.spinner = Spinner(h)
      /\ (q.own <=> Composer(h) \in Counted)
      /\ Spinner(h) # "none" => Owes(q.left)
      /\ Spinner(h) \in Spinners \cup {"none"}
  BY <1>2, TaskFields DEF Fits, Running
<1> HIDE DEF q
<1>4. lane \in [Lanes -> Tasks] /\ lane' \in [Lanes -> Tasks]
      /\ lane'[l] = q /\ \A m \in Lanes : m # l => lane'[m] = lane[m]
  BY <1>1, <1>3 DEF ComposersInv
<1>5. /\ \A m \in Lanes : TaskSound(lane'[m])
      /\ \A m \in Lanes : lane'[m].composer \in Composers \cup {"none"}
  BY <1>3, <1>4, TaskFields DEF ComposersInv
<1>6. ComposersTypeOK'
  BY <1>1, <1>3, <1>5 DEF ComposersInv, ComposersTypeOK
<1>7. ASSUME NEW c \in Counted PROVE c \in excuse' \/ ComposerSound(c)'
  <2>0. c \in excuse \/ ComposerSound(c)
    BY DEF ComposersInv
  <2>1. CASE c = Composer(h)
    <3>1. c \in typed /\ Spinner(h) = SpinnerOf(c) /\ SpinnerOf(c) \notin spin
          /\ SpinnerOf(c) \in spin'
      BY <1>1, <2>1 DEF Composer, Spinner, SpinnerOf, Idle, Counted
    <3>2. c \in excuse \/ (sent[c] = 0 /\ \A m \in Lanes : ~Mine(c, m))
      BY <2>0, <3>1 DEF ComposerSound
    <3>3. \A m \in Lanes : m # l => (Mine(c, m)' <=> Mine(c, m))
      BY <1>4 DEF Mine
    <3> QED
      BY <1>1, <3>1, <3>2, <3>3 DEF ComposerSound
  <2>2. CASE c # Composer(h)
    <3>1. ~Mine(c, l)' /\ \A m \in Lanes : m # l => (Mine(c, m)' <=> Mine(c, m))
      BY <1>3, <1>4, <2>2 DEF Mine
    <3>2. SpinnerOf(c) \in spin => SpinnerOf(c) \in spin'
      BY <1>1
    <3> QED
      BY <1>1, <1>4, <2>0, <3>1, <3>2 DEF ComposerSound
  <2> QED
    BY <2>1, <2>2
<1>8. SpinnersOwed'
  <2> SUFFICES ASSUME NEW s \in spin' \ excuse'
               PROVE  \E m \in Lanes : lane'[m].spinner = s /\ Owes(lane'[m].left)
    BY DEF SpinnersOwed
  <2>1. CASE s = Spinner(h) /\ s # "none"
    BY <1>3, <1>4, <2>1
  <2>2. CASE s \in spin \ excuse
    <3>1. PICK m \in Lanes : lane[m].spinner = s /\ Owes(lane[m].left)
      BY <2>2 DEF ComposersInv, SpinnersOwed
    <3>2. s # "none"
      BY <2>2 DEF ComposersInv, ComposersTypeOK, Spinners
    <3>3. m # l
      BY <1>1, <3>1, <3>2, FreeTask
    <3> QED
      BY <1>4, <3>1, <3>3
  <2> QED
    BY <1>1, <2>1, <2>2
<1> QED
  BY <1>4, <1>5, <1>6, <1>7, <1>8 DEF ComposersInv

(* The lanes after one of them went on.                                    *)
LEMMA LaneMoves ==
    ASSUME ComposersInv, NEW l \in Lanes, NEW t \in Tasks, TaskSound(t),
           t = Free \/ (t.composer = lane[l].composer /\ (t.own => lane[l].own)),
           lane' = [lane EXCEPT ![l] = t]
    PROVE  /\ lane' \in [Lanes -> Tasks] /\ lane'[l] = t
           /\ \A m \in Lanes : m # l => lane'[m] = lane[m]
           /\ \A m \in Lanes : TaskSound(lane'[m])
           /\ \A m \in Lanes : lane'[m].composer \in Composers \cup {"none"}
           /\ \A c \in Counted, m \in Lanes : Mine(c, m)' => Mine(c, m)
<1>1. lane \in [Lanes -> Tasks] /\ \A m \in Lanes : TaskSound(lane[m])
  BY DEF ComposersInv
<1>2. lane' \in [Lanes -> Tasks] /\ lane'[l] = t /\ \A m \in Lanes : m # l => lane'[m] = lane[m]
  BY <1>1
<1>3. \A m \in Lanes : TaskSound(lane'[m]) /\ lane'[m].composer \in Composers \cup {"none"}
  BY <1>1, <1>2, TaskFields
<1>4. \A c \in Counted, m \in Lanes : Mine(c, m)' => Mine(c, m)
  BY <1>2, FreeTask DEF Mine
<1> QED
  BY <1>2, <1>3, <1>4

(* A call of a lane was accepted, perhaps without an answer.               *)
LEMMA SentKeeps ==
    ASSUME ComposersInv, NEW l \in Lanes, lane[l].left # <<>>,
           Head(lane[l].left) \in {"ask", "send"}, sent' \in {sent, Once(l)},
           NEW t \in Tasks, TaskSound(t),
           \/ t = Free
           \/ t.composer = lane[l].composer /\ (t.own => lane[l].own)
              /\ (t.accepted <=> lane[l].accepted \/ sent' # sent),
           lane' = [lane EXCEPT ![l] = t],
           spin' \subseteq spin, spin \ {"searching"} \subseteq spin',
           UNCHANGED <<typed, excuse>>
    PROVE  /\ sent' \in [Counted -> 0..2]
           /\ \A c \in Counted : c \in excuse' \/ ComposerSound(c)'
<1> DEFINE q == lane[l]
<1>0. /\ q \in Tasks /\ TaskSound(q) /\ q.left \in Seq(Words)
      /\ q.composer \in Composers \cup {"none"}
      /\ sent \in [Counted -> 0..2]
  BY TaskFields DEF ComposersInv, ComposersTypeOK
<1>1. /\ \A m \in Lanes : m # l => lane'[m] = lane[m]
      /\ lane'[l] = t
      /\ \A c \in Counted, m \in Lanes : Mine(c, m)' => Mine(c, m)
  BY LaneMoves
<1>2. CASE Head(q.left) = "send" /\ q.own /\ sent' = Once(l)
  <2>1. q.composer \in Counted
    BY <1>0, <1>2 DEF TaskSound
  <2>2. Underway(q.left)
    BY <1>0, <1>2, TailFacts DEF Underway
  <2>3. ~q.accepted
    BY <1>0, <1>2, <2>2 DEF TaskSound
  <2>4. sent' = [sent EXCEPT ![q.composer] = IF @ = 2 THEN 2 ELSE @ + 1]
    BY <1>2 DEF Once
  <2>5. /\ sent' \in [Counted -> 0..2]
        /\ sent'[q.composer] = IF sent[q.composer] = 2 THEN 2 ELSE sent[q.composer] + 1
        /\ \A c \in Counted : c # q.composer => sent'[c] = sent[c]
    BY <1>0, <2>1, <2>4
  <2>6. ASSUME NEW c \in Counted, c \notin excuse PROVE ComposerSound(c)'
    <3>1. ComposerSound(c)
      BY <2>6 DEF ComposersInv
    <3>2. CASE c = q.composer
      <4>1. Mine(c, l)
        BY <1>2, <3>2 DEF Mine
      <4>2. sent[c] = 0 /\ ~(c \in typed /\ SpinnerOf(c) \notin spin)
        BY <2>3, <3>1, <4>1 DEF ComposerSound
      <4>3. sent'[c] = 1 /\ sent' # sent
        BY <2>5, <3>2, <4>2
      <4>4. \A m \in Lanes : Mine(c, m)' => m = l
        BY <1>1, <3>1, <4>1 DEF ComposerSound
      <4>5. Mine(c, l)' => lane'[l].accepted
        BY <1>1, <4>3, FreeTask DEF Mine
      <4>6. ~(c \in typed' /\ SpinnerOf(c) \notin spin')
        BY <4>2 DEF SpinnerOf
      <4> QED
        BY <4>3, <4>4, <4>5, <4>6 DEF ComposerSound
    <3>3. CASE c # q.composer
      <4>1. ~Mine(c, l)
        BY <3>3 DEF Mine
      <4>2. SpinnerOf(c) \in spin => SpinnerOf(c) \in spin'
        BY DEF SpinnerOf
      <4> QED
        BY <1>1, <2>5, <3>1, <3>3, <4>1, <4>2 DEF ComposerSound
    <3> QED
      BY <3>2, <3>3
  <2> QED
    BY <2>5, <2>6
<1>3. CASE sent' = sent
  <2>1. ASSUME NEW c \in Counted, c \notin excuse PROVE ComposerSound(c)'
    <3>1. ComposerSound(c)
      BY <2>1 DEF ComposersInv
    <3>2. SpinnerOf(c) \in spin => SpinnerOf(c) \in spin'
      BY DEF SpinnerOf
    <3>3. Mine(c, l)' => (lane'[l].accepted <=> lane[l].accepted)
      BY <1>1, <1>3, FreeTask DEF Mine
    <3>4. \A m \in Lanes : Mine(c, m)' /\ ~lane'[m].accepted => Mine(c, m) /\ ~lane[m].accepted
      BY <1>1, <3>3
    <3> QED
      BY <1>1, <1>3, <3>1, <3>2, <3>4 DEF ComposerSound
  <2> QED
    BY <1>0, <1>3, <2>1
<1> QED
  BY <1>2, <1>3 DEF Once

(* A word that ends no spinner was done with.                              *)
LEMMA OwedKeeps ==
    ASSUME ComposersInv, NEW l \in Lanes, NEW t \in Tasks,
           lane' \in [Lanes -> Tasks], lane'[l] = t,
           \A m \in Lanes : m # l => lane'[m] = lane[m],
           spin' \subseteq spin, (excuse \cap spin') \subseteq excuse',
           lane[l].spinner \in spin' \ excuse' /\ Owes(lane[l].left) =>
               t.spinner = lane[l].spinner /\ Owes(t.left)
    PROVE  SpinnersOwed'
<1> SUFFICES ASSUME NEW s \in spin' \ excuse'
             PROVE  \E m \in Lanes : lane'[m].spinner = s /\ Owes(lane'[m].left)
  BY DEF SpinnersOwed
<1>1. s \in spin \ excuse
  BY DEF ComposersInv, ComposersTypeOK
<1>2. PICK m \in Lanes : lane[m].spinner = s /\ Owes(lane[m].left)
  BY <1>1 DEF ComposersInv, SpinnersOwed
<1> QED
  BY <1>2

LEMMA AnswerKeeps == ASSUME ComposersInv, NEW l \in Lanes, Answer(l) PROVE ComposersInv'
<1> DEFINE w == Tail(lane[l].left)
<1>1. /\ lane[l].left # <<>> /\ Head(lane[l].left) \in {"ask", "send"} /\ sent' = Once(l)
      /\ lane' = [lane EXCEPT ![l] = Going(l, w, Took(l))]
      /\ spin' = spin \ ({lane[l].spinner} \cap {"searching"})
      /\ last' \in {"none", last}
      /\ UNCHANGED <<about, typed, excuse>>
  BY DEF Answer, Asking, Elapsed
<1>2. /\ lane[l] \in Tasks /\ TaskSound(lane[l])
      /\ lane[l].left \in Seq(Words) /\ lane[l].accepted \in BOOLEAN
  BY TaskFields DEF ComposersInv
<1>3. /\ Took(l) \in BOOLEAN /\ (Took(l) <=> lane[l].accepted \/ sent' # sent)
      /\ Took(l) => lane[l].accepted \/ Head(lane[l].left) = "send"
  BY <1>1, <1>2 DEF Took, Once
<1>4. /\ w \in Seq(Words)
      /\ lane[l].own => SendsOnce(w) /\ EndsOnError(w)
      /\ lane[l].own /\ Underway(w) => ~Took(l)
      /\ Owes(lane[l].left) => Owes(w)
  BY <1>1, <1>2, <1>3, TailFacts, TailKeeps DEF TaskSound
<1> HIDE DEF w
<1>5. PICK t : t = Going(l, w, Took(l))
  OBVIOUS
<1>6. /\ t \in Tasks /\ TaskSound(t)
      /\ w = <<>> => t = Free
      /\ w # <<>> =>
           /\ t.composer = lane[l].composer /\ t.spinner = lane[l].spinner
           /\ t.own = lane[l].own /\ t.left = w /\ t.accepted = Took(l)
  BY <1>2, <1>3, <1>4, <1>5, GoesOn
<1>7. lane' = [lane EXCEPT ![l] = t]
  BY <1>1, <1>5
<1>8. \/ t = Free
      \/ t.composer = lane[l].composer /\ (t.own => lane[l].own)
         /\ (t.accepted <=> lane[l].accepted \/ sent' # sent)
  BY <1>3, <1>6
<1>9. Owes(lane[l].left) => t.spinner = lane[l].spinner /\ Owes(t.left)
  BY <1>4, <1>6, NoScript
<1>10. /\ lane' \in [Lanes -> Tasks] /\ lane'[l] = t
       /\ \A m \in Lanes : m # l => lane'[m] = lane[m]
       /\ \A m \in Lanes : TaskSound(lane'[m])
       /\ \A m \in Lanes : lane'[m].composer \in Composers \cup {"none"}
  BY <1>6, <1>7, <1>8, LaneMoves
<1>11. spin' \subseteq spin /\ spin \ {"searching"} \subseteq spin'
  BY <1>1
<1>12. /\ sent' \in [Counted -> 0..2]
       /\ \A c \in Counted : c \in excuse' \/ ComposerSound(c)'
  BY <1>1, <1>6, <1>7, <1>8, <1>11, SentKeeps
<1>13. SpinnersOwed'
  BY <1>1, <1>6, <1>9, <1>10, <1>11, OwedKeeps
<1>14. ComposersTypeOK'
  BY <1>1, <1>10, <1>11, <1>12 DEF ComposersInv, ComposersTypeOK
<1> QED
  BY <1>10, <1>12, <1>13, <1>14 DEF ComposersInv

LEMMA FailKeeps == ASSUME ComposersInv, NEW l \in Lanes, Fail(l) PROVE ComposersInv'
<1> DEFINE w == IF Quiet(l) THEN <<>> ELSE <<"error">>
<1>1. /\ lane[l].left # <<>> /\ Head(lane[l].left) \in {"ask", "send"} /\ sent' \in {sent, Once(l)}
      /\ lane' = [lane EXCEPT ![l] = Going(l, w, Took(l))]
      /\ last' \in {"none", last}
      /\ UNCHANGED <<about, typed, spin, excuse>>
  BY DEF Fail, Asking, Elapsed
<1>2. /\ lane[l] \in Tasks /\ TaskSound(lane[l]) /\ lane[l].accepted \in BOOLEAN
  BY TaskFields DEF ComposersInv
<1>3. Took(l) \in BOOLEAN /\ (Took(l) <=> lane[l].accepted \/ sent' # sent)
  BY <1>2 DEF Took
<1>4. /\ w \in Seq(Words) /\ SendsOnce(w) /\ EndsOnError(w) /\ ~Underway(w)
      /\ ~Quiet(l) => w # <<>> /\ Owes(w)
  BY ErrorScript, NoScript
<1> HIDE DEF w
<1>5. PICK t : t = Going(l, w, Took(l))
  OBVIOUS
<1>6. /\ t \in Tasks /\ TaskSound(t)
      /\ w = <<>> => t = Free
      /\ w # <<>> => /\ t.composer = lane[l].composer /\ t.spinner = lane[l].spinner
                     /\ t.own = lane[l].own /\ t.left = w /\ t.accepted = Took(l)
  BY <1>2, <1>3, <1>4, <1>5, GoesOn
<1>7. lane' = [lane EXCEPT ![l] = t]
  BY <1>1, <1>5
<1>8. \/ t = Free
      \/ t.composer = lane[l].composer /\ (t.own => lane[l].own)
         /\ (t.accepted <=> lane[l].accepted \/ sent' # sent)
  BY <1>3, <1>6
<1>9. lane[l].spinner # "none" => t.spinner = lane[l].spinner /\ Owes(t.left)
  BY <1>2, <1>4, <1>6 DEF Quiet, TaskSound
<1>10. /\ lane' \in [Lanes -> Tasks] /\ lane'[l] = t
       /\ \A m \in Lanes : m # l => lane'[m] = lane[m]
       /\ \A m \in Lanes : TaskSound(lane'[m])
       /\ \A m \in Lanes : lane'[m].composer \in Composers \cup {"none"}
  BY <1>6, <1>7, <1>8, LaneMoves
<1>11. /\ sent' \in [Counted -> 0..2]
       /\ \A c \in Counted : c \in excuse' \/ ComposerSound(c)'
  BY <1>1, <1>6, <1>7, <1>8, SentKeeps
<1>12. "none" \notin spin'
  BY <1>1 DEF ComposersInv, ComposersTypeOK, Spinners
<1>13. SpinnersOwed'
  BY <1>1, <1>6, <1>9, <1>10, <1>12, OwedKeeps
<1>14. ComposersTypeOK'
  BY <1>1, <1>10, <1>11 DEF ComposersInv, ComposersTypeOK
<1> QED
  BY <1>10, <1>11, <1>13, <1>14 DEF ComposersInv

LEMMA Statuses ==
    /\ \A action, state : Ended(action, state) \subseteq Spinners
    /\ \A action, state, c : c \in Counted /\ SpinnerOf(c) \in Ended(action, state) =>
           /\ state # "busy" /\ action = IF c = "reply" THEN "post" ELSE "message"
           /\ state = "success" => c \in Cleared(action, state)
    /\ \A s, state : s \in Spinners /\ state # "busy" => s \in Ended(ActionOf(s), state)
    /\ \A c \in Counted : c \notin Spinners /\ SpinnerOf(c) \in Spinners
<1>1. \A action, state : Ended(action, state) \subseteq Spinners
  BY DEF Ended, Spinners
<1>2. ASSUME NEW action, NEW state, NEW c \in Counted, SpinnerOf(c) \in Ended(action, state)
      PROVE  /\ state # "busy" /\ action = IF c = "reply" THEN "post" ELSE "message"
             /\ state = "success" => c \in Cleared(action, state)
  BY <1>2 DEF Ended, Cleared, SpinnerOf, Counted
<1>3. \A s, state : s \in Spinners /\ state # "busy" => s \in Ended(ActionOf(s), state)
  BY DEF Ended, ActionOf, Spinners
<1>4. \A c \in Counted : c \notin Spinners /\ SpinnerOf(c) \in Spinners
  BY DEF Counted, Spinners, SpinnerOf
<1> QED
  BY <1>1, <1>2, <1>3, <1>4

(* Where a lane is after a status or a navigation.                         *)
LEMMA WordDone ==
    ASSUME ComposersInv, NEW l \in Lanes, lane[l].left # <<>>,
           NEW t, t = Going(l, Tail(lane[l].left), lane[l].accepted),
           Head(lane[l].left) # "send"
    PROVE  /\ t \in Tasks /\ TaskSound(t)
           /\ \/ t = Free
              \/ /\ t.composer = lane[l].composer /\ (t.own => lane[l].own)
                 /\ t.accepted = lane[l].accepted
           /\ Owes(lane[l].left) /\ Head(lane[l].left) \notin {"success", "error"} =>
                  t.spinner = lane[l].spinner /\ Owes(t.left)
           /\ lane[l].own /\ Head(lane[l].left) = "error" => t = Free
<1> DEFINE w == Tail(lane[l].left)
<1>1. /\ lane[l] \in Tasks /\ TaskSound(lane[l])
      /\ lane[l].left \in Seq(Words) /\ lane[l].accepted \in BOOLEAN
  BY TaskFields DEF ComposersInv
<1>2. /\ w \in Seq(Words)
      /\ lane[l].own => SendsOnce(w) /\ EndsOnError(w)
      /\ lane[l].own /\ Underway(w) => ~lane[l].accepted
      /\ Owes(lane[l].left) /\ Head(lane[l].left) \notin {"success", "error"} => Owes(w)
      /\ lane[l].own /\ Head(lane[l].left) = "error" => w = <<>>
  BY <1>1, TailFacts, TailKeeps DEF TaskSound
<1>3. t = Going(l, w, lane[l].accepted)
  OBVIOUS
<1> HIDE DEF w
<1>4. /\ t \in Tasks /\ TaskSound(t)
      /\ w = <<>> => t = Free
      /\ w # <<>> => /\ t.composer = lane[l].composer /\ t.spinner = lane[l].spinner
                     /\ t.own = lane[l].own /\ t.left = w /\ t.accepted = lane[l].accepted
  BY <1>1, <1>2, <1>3, GoesOn
<1> QED
  BY <1>2, <1>4, NoScript

LEMMA StatusKeeps == ASSUME ComposersInv, NEW l \in Lanes, StatusSaid(l) PROVE ComposersInv'
<1> DEFINE action == lane[l].action
           said == Head(lane[l].left)
<1>1. /\ lane[l].left # <<>> /\ said \in States
      /\ lane' = [lane EXCEPT ![l] = Going(l, Tail(lane[l].left), lane[l].accepted)]
      /\ UNCHANGED <<about, sent>>
  BY DEF StatusSaid, States
<1>2. \/ /\ typed' = typed \ Cleared(action, said) /\ spin' = spin \ Ended(action, said)
         /\ excuse' = (excuse \ Ended(action, said)) \cup Misled(l, said)
         /\ last' = l
      \/ /\ excuse' = excuse \cup Ended(action, said) \cup (Cleared(action, said) \cap Counted)
         /\ UNCHANGED <<typed, spin, last>>
  BY DEF StatusSaid
<1>3. PICK t : t = Going(l, Tail(lane[l].left), lane[l].accepted)
  OBVIOUS
<1>4. lane' = [lane EXCEPT ![l] = t]
  BY <1>1, <1>3
<1>5. /\ t \in Tasks /\ TaskSound(t)
      /\ \/ t = Free
         \/ /\ t.composer = lane[l].composer /\ (t.own => lane[l].own)
            /\ t.accepted = lane[l].accepted
      /\ Owes(lane[l].left) /\ said \notin {"success", "error"} =>
             t.spinner = lane[l].spinner /\ Owes(t.left)
      /\ lane[l].own /\ said = "error" => t = Free
  BY <1>1, <1>3, WordDone DEF States
<1>6. lane[l] \in Tasks /\ TaskSound(lane[l]) /\ lane[l].spinner \in Spinners \cup {"none"}
  BY TaskFields DEF ComposersInv
<1> HIDE DEF action, said
<1>7. /\ lane' \in [Lanes -> Tasks] /\ lane'[l] = t
      /\ \A m \in Lanes : m # l => lane'[m] = lane[m]
      /\ \A m \in Lanes : TaskSound(lane'[m])
      /\ \A m \in Lanes : lane'[m].composer \in Composers \cup {"none"}
      /\ \A c \in Counted, m \in Lanes : Mine(c, m)' => Mine(c, m)
  BY <1>4, <1>5, LaneMoves
<1>8. spin' \subseteq spin /\ typed' \subseteq typed
      /\ excuse \cap spin' \subseteq excuse' /\ excuse \cap Counted \subseteq excuse'
  <2>1. \A c \in Counted : c \notin Ended(action, said)
    BY Statuses
  <2> QED
    BY <1>2, <2>1
<1>9. lane[l].spinner \in spin' \ excuse' => said \notin {"success", "error"}
  <2> SUFFICES ASSUME lane[l].spinner \in spin' \ excuse', said \in {"success", "error"}
               PROVE  FALSE
    OBVIOUS
  <2>1. lane[l].spinner \in Spinners
    BY <1>8 DEF ComposersInv, ComposersTypeOK
  <2>2. action = ActionOf(lane[l].spinner)
    BY <1>6, <2>1 DEF TaskSound, action, Spinners
  <2>3. lane[l].spinner \in Ended(action, said)
    BY <2>1, <2>2, Statuses
  <2> QED
    BY <1>2, <2>3
<1>10. ASSUME NEW c \in Counted, c \notin excuse' PROVE ComposerSound(c)'
  <2>1. ComposerSound(c)
    BY <1>8, <1>10 DEF ComposersInv
  <2>2. \A m \in Lanes : Mine(c, m)' /\ ~lane'[m].accepted => Mine(c, m) /\ ~lane[m].accepted
    BY <1>5, <1>7, FreeTask DEF Mine
  <2>3. ASSUME c \in typed', SpinnerOf(c) \notin spin'
        PROVE  sent[c] = 0 /\ \A m \in Lanes : ~Mine(c, m)'
    <3>1. CASE SpinnerOf(c) \notin spin
      BY <1>7, <1>8, <2>1, <2>3, <3>1 DEF ComposerSound
    <3>2. CASE SpinnerOf(c) \in spin
      <4>1. /\ SpinnerOf(c) \in Ended(action, said)
            /\ typed' = typed \ Cleared(action, said) /\ c \notin Misled(l, said)
        BY <1>2, <1>10, <2>3, <3>2
      <4>2. /\ said # "busy" /\ action = IF c = "reply" THEN "post" ELSE "message"
            /\ said = "success" => c \in Cleared(action, said)
        BY <4>1, Statuses
      <4>3. said = "error"
        BY <1>1, <2>3, <4>1, <4>2 DEF States
      <4>4. Mine(c, l) /\ ~lane[l].accepted
        BY <4>1, <4>2, <4>3 DEF Misled, Mine, action
      <4>5. t = Free
        BY <1>5, <4>3, <4>4 DEF Mine
      <4>6. ASSUME NEW m \in Lanes PROVE ~Mine(c, m)'
        <5>1. Mine(c, m)' => m = l
          BY <1>7, <2>1, <4>4 DEF ComposerSound
        <5>2. ~Mine(c, l)'
          BY <1>7, <4>5, FreeTask DEF Mine
        <5> QED
          BY <5>1, <5>2
      <4> QED
        BY <2>1, <4>4, <4>6 DEF ComposerSound
    <3> QED
      BY <3>1, <3>2
  <2> QED
    BY <1>1, <1>7, <2>1, <2>2, <2>3 DEF ComposerSound
<1>11. SpinnersOwed'
  BY <1>5, <1>7, <1>8, <1>9, OwedKeeps
<1>12. ComposersTypeOK'
  <2>1. excuse' \subseteq Counted \cup Spinners
    BY <1>2, Statuses DEF ComposersInv, ComposersTypeOK, Misled
  <2>2. last' \in Lanes \cup {"none", "others"}
    BY <1>2 DEF ComposersInv, ComposersTypeOK
  <2> QED
    BY <1>1, <1>7, <1>8, <2>1, <2>2 DEF ComposersInv, ComposersTypeOK
<1> QED
  BY <1>7, <1>10, <1>11, <1>12 DEF ComposersInv

LEMMA LeaveKeeps == ASSUME ComposersInv, NEW l \in Lanes, Leave(l) PROVE ComposersInv'
<1>1. /\ lane[l].left # <<>> /\ Head(lane[l].left) = "go"
      /\ lane' = [lane EXCEPT ![l] = Going(l, Tail(lane[l].left), lane[l].accepted)]
      /\ UNCHANGED <<about, typed, spin, sent, excuse, last>>
  BY DEF Leave
<1>2. PICK t : t = Going(l, Tail(lane[l].left), lane[l].accepted)
  OBVIOUS
<1>3. lane' = [lane EXCEPT ![l] = t]
  BY <1>1, <1>2
<1>4. /\ t \in Tasks /\ TaskSound(t)
      /\ \/ t = Free
         \/ /\ t.composer = lane[l].composer /\ (t.own => lane[l].own)
            /\ t.accepted = lane[l].accepted
      /\ Owes(lane[l].left) => t.spinner = lane[l].spinner /\ Owes(t.left)
  BY <1>1, <1>2, WordDone
<1>5. /\ lane' \in [Lanes -> Tasks] /\ lane'[l] = t
      /\ \A m \in Lanes : m # l => lane'[m] = lane[m]
      /\ \A m \in Lanes : TaskSound(lane'[m])
      /\ \A m \in Lanes : lane'[m].composer \in Composers \cup {"none"}
      /\ \A c \in Counted, m \in Lanes : Mine(c, m)' => Mine(c, m)
  BY <1>3, <1>4, LaneMoves
<1>6. ASSUME NEW c \in Counted, c \notin excuse' PROVE ComposerSound(c)'
  <2>1. ComposerSound(c)
    BY <1>1, <1>6 DEF ComposersInv
  <2>2. \A m \in Lanes : Mine(c, m)' /\ ~lane'[m].accepted => Mine(c, m) /\ ~lane[m].accepted
    BY <1>4, <1>5, FreeTask DEF Mine
  <2> QED
    BY <1>1, <1>5, <2>1, <2>2 DEF ComposerSound
<1>7. SpinnersOwed'
  BY <1>1, <1>4, <1>5, OwedKeeps
<1>8. ComposersTypeOK'
  BY <1>1, <1>5 DEF ComposersInv, ComposersTypeOK
<1> QED
  BY <1>5, <1>6, <1>7, <1>8 DEF ComposersInv

LEMMA ComposersStep == ComposersInv /\ [ComposersNext]_composerVars => ComposersInv'
<1> SUFFICES ASSUME ComposersInv, [ComposersNext]_composerVars PROVE ComposersInv'
  OBVIOUS
<1>1. CASE Others
  BY <1>1 DEF Others, ComposersInv, ComposersTypeOK, ComposerSound, Mine, SpinnersOwed
<1>2. ASSUME NEW c \in Composers, Type(c) PROVE ComposersInv'
  BY <1>2, TypeKeeps
<1>3. ASSUME NEW l \in Lanes, NEW handler \in Heard, Click(l, handler) PROVE ComposersInv'
  BY <1>3, ClickKeeps
<1>4. ASSUME NEW l \in Lanes, Answer(l) PROVE ComposersInv'
  BY <1>4, AnswerKeeps
<1>5. ASSUME NEW l \in Lanes, Fail(l) PROVE ComposersInv'
  BY <1>5, FailKeeps
<1>6. ASSUME NEW l \in Lanes, StatusSaid(l) PROVE ComposersInv'
  BY <1>6, StatusKeeps
<1>7. ASSUME NEW l \in Lanes, Leave(l) PROVE ComposersInv'
  BY <1>7, LeaveKeeps
<1>8. CASE UNCHANGED composerVars
  BY <1>8 DEF composerVars, ComposersInv, ComposersTypeOK, ComposerSound, Mine, SpinnersOwed
<1> QED
  BY <1>1, <1>2, <1>3, <1>4, <1>5, <1>6, <1>7, <1>8 DEF ComposersNext

(***************************************************************************)
(* The invariant of composers and spinners, types included, for any number *)
(* of handlers that run at the same time (App.tsx:155-286).                *)
(***************************************************************************)
THEOREM ComposersSound == ComposersSpec => []ComposersInv
<1>1. ComposersInv /\ [ComposersNext]_composerVars => ComposersInv'
  BY ComposersStep
<1> QED
  BY <1>1, ComposersStart, PTL DEF ComposersSpec

(***************************************************************************)
(* A reply and a message are accepted at most once for each text that was  *)
(* typed, whatever other handlers say, unless an error was said of the     *)
(* action meanwhile (App.tsx:208-217, 277-286).                            *)
(***************************************************************************)
THEOREM TextIsSentOnce == ComposersSpec => []SentOnce
<1>1. ComposersInv => SentOnce
  BY DEF ComposersInv, ComposerSound, SentOnce
<1> QED
  BY <1>1, ComposersSound, PTL

(***************************************************************************)
(* A spinner that is on belongs to a handler that still runs, unless the   *)
(* status that ends it was lost in the millisecond of another              *)
(* (App.tsx:155-173).                                                      *)
(***************************************************************************)
THEOREM SpinnersEnd == ComposersSpec => []SpinnerEnds
<1>1. ComposersInv => SpinnerEnds
  BY DEF ComposersInv, SpinnersOwed, SpinnerEnds
<1> QED
  BY <1>1, ComposersSound, PTL

-----------------------------------------------------------------------------
(***************************************************************************)
(* Proofs about HostCalls.  Whatever runs is a script of known steps, and  *)
(* a step that navigates names a page: that is what each tool, handler and *)
(* route is looked through for.                                            *)
(***************************************************************************)
Gates == {"anyone", "signed", "publisher", "dmAgent"}
IsStep(step) == step.do = "go" => step.path \in Pages
IsSteps(steps) == \E S : steps \in Seq(S) /\ \A step \in S : IsStep(step)
IsTool(tool) == tool.gate \in Gates /\ IsSteps(tool.steps)

CallsInv ==
    /\ CallsTypeOK
    /\ run = [name |-> run.name, gate |-> run.gate, left |-> run.left]
    /\ IsSteps(run.left)

LEMMA StepsTyped ==
    /\ \A m, p, fields : IsStep(Ask(m, p, fields))
    /\ \A m, p, fields : IsStep([Ask(m, p, fields) EXCEPT !.call.csrf = FALSE])
    /\ \A p \in Pages : IsStep(Go(p))
    /\ \A said : IsStep(Say(said))
    /\ IsStep(Busy) /\ IsStep(Success)
    /\ \A reload : IsStep(Event(reload))
BY DEF Ask, Go, Say, Busy, Success, Event, IsStep

LEMMA Concatenated ==
    ASSUME NEW s, NEW t, IsSteps(s), IsSteps(t)
    PROVE  IsSteps(s \o t)
<1>1. PICK S : s \in Seq(S) /\ \A step \in S : IsStep(step)
  BY DEF IsSteps
<1>2. PICK T : t \in Seq(T) /\ \A step \in T : IsStep(step)
  BY DEF IsSteps
<1>3. s \in Seq(S \cup T) /\ t \in Seq(S \cup T)
  BY <1>1, <1>2, SeqMonotonic
<1>4. s \o t \in Seq(S \cup T)
  BY <1>3, ConcatProperties
<1> QED
  BY <1>1, <1>2, <1>4 DEF IsSteps

LEMMA Listed ==
    /\ IsSteps(<<>>)
    /\ \A a : IsStep(a) => IsSteps(<<a>>)
    /\ \A a, b : IsStep(a) /\ IsStep(b) => IsSteps(<<a, b>>)
    /\ \A a, b, c : IsStep(a) /\ IsStep(b) /\ IsStep(c) => IsSteps(<<a, b, c>>)
    /\ \A a, b, c, d :
         IsStep(a) /\ IsStep(b) /\ IsStep(c) /\ IsStep(d)
           => IsSteps(<<a, b, c, d>>)
    /\ \A a, b, c, d, e :
         IsStep(a) /\ IsStep(b) /\ IsStep(c) /\ IsStep(d) /\ IsStep(e)
           => IsSteps(<<a, b, c, d, e>>)
    /\ \A a, b, c, d, e, f :
         IsStep(a) /\ IsStep(b) /\ IsStep(c) /\ IsStep(d) /\ IsStep(e) /\ IsStep(f)
           => IsSteps(<<a, b, c, d, e, f>>)
<1>1. IsSteps(<<>>)
  <2> DEFINE q == <<>>
             S == {}
  <2>1. q \in Seq(S)
    OBVIOUS
  <2>2. \A step \in S : IsStep(step)
    OBVIOUS
  <2> HIDE DEF q, S
  <2>3. IsSteps(q)
    BY <2>1, <2>2 DEF IsSteps
  <2> QED
    BY <2>3 DEF q
<1>2. ASSUME NEW a, IsStep(a) PROVE IsSteps(<<a>>)
  <2> DEFINE q == <<a>>
             S == {a}
  <2>1. q \in Seq(S)
    OBVIOUS
  <2>2. \A step \in S : IsStep(step)
    BY <1>2
  <2> HIDE DEF q, S
  <2>3. IsSteps(q)
    BY <2>1, <2>2 DEF IsSteps
  <2> QED
    BY <2>3 DEF q
<1>3. ASSUME NEW a, NEW b, IsStep(a), IsStep(b) PROVE IsSteps(<<a, b>>)
  <2> DEFINE q == <<a, b>>
             S == {a, b}
  <2>1. q \in Seq(S)
    OBVIOUS
  <2>2. \A step \in S : IsStep(step)
    BY <1>3
  <2> HIDE DEF q, S
  <2>3. IsSteps(q)
    BY <2>1, <2>2 DEF IsSteps
  <2> QED
    BY <2>3 DEF q
<1>4. ASSUME NEW a, NEW b, NEW c, IsStep(a), IsStep(b), IsStep(c) PROVE IsSteps(<<a, b, c>>)
  <2> DEFINE q == <<a, b, c>>
             S == {a, b, c}
  <2>1. q \in Seq(S)
    OBVIOUS
  <2>2. \A step \in S : IsStep(step)
    BY <1>4
  <2> HIDE DEF q, S
  <2>3. IsSteps(q)
    BY <2>1, <2>2 DEF IsSteps
  <2> QED
    BY <2>3 DEF q
<1>5. ASSUME NEW a, NEW b, NEW c, NEW d, IsStep(a), IsStep(b), IsStep(c), IsStep(d)
      PROVE  IsSteps(<<a, b, c, d>>)
  <2> DEFINE q == <<a, b, c, d>>
             S == {a, b, c, d}
  <2>1. q \in Seq(S)
    OBVIOUS
  <2>2. \A step \in S : IsStep(step)
    BY <1>5
  <2> HIDE DEF q, S
  <2>3. IsSteps(q)
    BY <2>1, <2>2 DEF IsSteps
  <2> QED
    BY <2>3 DEF q
<1>6. ASSUME NEW a, NEW b, NEW c, NEW d, NEW e,
             IsStep(a), IsStep(b), IsStep(c), IsStep(d), IsStep(e)
      PROVE  IsSteps(<<a, b, c, d, e>>)
  <2> DEFINE q == <<a, b, c, d, e>>
             S == {a, b, c, d, e}
  <2>1. q \in Seq(S)
    OBVIOUS
  <2>2. \A step \in S : IsStep(step)
    BY <1>6
  <2> HIDE DEF q, S
  <2>3. IsSteps(q)
    BY <2>1, <2>2 DEF IsSteps
  <2> QED
    BY <2>3 DEF q
<1>7. ASSUME NEW a, NEW b, NEW c, NEW d, NEW e, NEW f,
             IsStep(a), IsStep(b), IsStep(c), IsStep(d), IsStep(e), IsStep(f)
      PROVE  IsSteps(<<a, b, c, d, e, f>>)
  <2> DEFINE q == <<a, b, c, d, e, f>>
             S == {a, b, c, d, e, f}
  <2>1. q \in Seq(S)
    OBVIOUS
  <2>2. \A step \in S : IsStep(step)
    BY <1>7
  <2> HIDE DEF q, S
  <2>3. IsSteps(q)
    BY <2>1, <2>2 DEF IsSteps
  <2> QED
    BY <2>3 DEF q
<1> QED
  BY <1>1, <1>2, <1>3, <1>4, <1>5, <1>6, <1>7

LEMMA ToolTyped ==
    ASSUME NEW name, NEW gate \in Gates, NEW steps, IsSteps(steps)
    PROVE  IsTool(Tool(name, gate, steps))
<1>1. IsSteps(steps \o <<Event(FALSE)>>)
  BY StepsTyped, Listed, Concatenated
<1> QED
  BY <1>1 DEF Tool, IsTool

LEMMA SendingTyped ==
    ASSUME NEW name, NEW gate \in Gates, NEW m, NEW p, NEW choices,
           NEW tool \in Sending(name, gate, m, p, choices)
    PROVE  IsTool(tool)
<1>1. PICK fields \in choices : tool = Tool(name, gate, <<Ask(m, p, fields)>>)
  BY DEF Sending
<1>2. IsSteps(<<Ask(m, p, fields)>>)
  BY StepsTyped, Listed
<1> QED
  BY <1>1, <1>2, ToolTyped

LEMMA LayoutsTyped ==
    ASSUME NEW layout
    PROVE  /\ IsSteps(readLayoutTarget(layout))
           /\ IsSteps(writeLayoutTarget(layout))
           /\ IsSteps(Editing(layout))
<1>1. IsSteps(readLayoutTarget(layout)) /\ IsSteps(writeLayoutTarget(layout))
  BY StepsTyped, Listed DEF readLayoutTarget, writeLayoutTarget
<1> QED
  BY <1>1, Concatenated DEF Editing

LEMMA ToolsTyped == \A tool \in Tools : IsTool(tool)
<1> DEFINE All(S) == \A tool \in S : IsTool(tool)
<1> USE StepsTyped, Listed, ToolTyped, SendingTyped DEF Gates
<1>1. All(TownTools)
  BY DEF TownTools, Pages
<1>2. All(ReadTools)
  BY DEF ReadTools, Pages
<1>3. All(PostTools)
  BY DEF PostTools
<1>4. All(SearchTools)
  BY DEF SearchTools
<1>5. All(GraphTools)
  BY DEF GraphTools
<1>6. All(HomeTools)
  BY DEF HomeTools, Pages
<1>7. \A name, layout : /\ IsTool(Tool(name, "signed", readLayoutTarget(layout)))
                        /\ IsTool(Tool(name, "signed", writeLayoutTarget(layout)))
                        /\ IsTool(Tool(name, "signed", Editing(layout)))
  BY LayoutsTyped
<1>8. All(WidgetTools)
  <2>1. \A feed \in WidgetFeeds : IsSteps(<<feed>>)
    BY DEF WidgetFeeds
  <2>2. \A name, layout : \A feed \in WidgetFeeds :
          IsTool(Tool(name, "signed", <<feed>> \o Editing(layout)))
    BY <2>1, LayoutsTyped, Concatenated
  <2>3. \A name, layout, m, p, fields :
          IsTool(Tool(name, "signed", <<Ask(m, p, fields)>> \o Editing(layout)))
    BY LayoutsTyped, Concatenated
  <2>4. ASSUME NEW tool \in WidgetTools PROVE IsTool(tool)
    <3>1. \/ \E feed \in WidgetFeeds, layout \in Layouts :
               tool = Tool("populate_feed_widget", "signed", <<feed>> \o Editing(layout))
          \/ \E layout \in Layouts :
               tool = Tool("populate_actor_showcase", "signed",
                           <<Ask("GET", "/api/profile/:actor", {})>> \o Editing(layout))
      BY ONLY <2>4 DEF WidgetTools
    <3> QED
      BY ONLY <2>2, <2>3, <3>1
  <2> QED
    BY ONLY <2>4
<1>9. All(FeedTools)
  <2>1. \A m, p, fields : IsSteps(<<[Ask(m, p, fields) EXCEPT !.call.csrf = FALSE]>>)
    OBVIOUS
  <2>2. "/profile/" \in Pages
    BY DEF Pages
  <2> QED
    BY <2>1, <2>2 DEF FeedTools
<1>10. All(ProfileTools)
  BY DEF ProfileTools, Pages
<1>11. All(SiteTools)
  BY DEF SiteTools, Pages
<1>12. All(ChatTools) /\ All(ChatAnswerTools)
  BY DEF ChatTools, ChatAnswerTools
<1>13. All(LayoutTools)
  BY ONLY <1>7 DEF LayoutTools
<1>14. All(SceneTools) /\ All(PortalTools)
  BY ONLY <1>7 DEF SceneTools, PortalTools
<1> QED
  BY <1>1, <1>2, <1>3, <1>4, <1>5, <1>6, <1>8, <1>9, <1>10, <1>11, <1>12, <1>13, <1>14 DEF Tools

LEMMA HandlersTyped == \A handler \in Handlers : IsSteps(handler.steps)
<1> DEFINE All(S) == \A handler \in S : IsSteps(handler.steps)
<1>1. ASSUME NEW name, NEW sends, NEW needs, NEW action, NEW steps, IsSteps(steps)
      PROVE  IsSteps(Handler(name, sends, needs, action, steps).steps)
  BY <1>1 DEF Handler
<1> USE <1>1, StepsTyped, Listed
<1>2. IsStep(ShowMessages) /\ IsStep(ShowProfile)
  BY DEF ShowMessages, ShowProfile
<1>3. All(PageHandlers) /\ All(startConversation)
  BY DEF PageHandlers, startConversation, Pages
<1>4. \A fields : IsSteps(Drafting(fields, 0)) /\ IsSteps(Drafting(fields, 1))
  BY DEF Drafting
<1>5. IsSteps(Publishing) /\ IsSteps(PostRefresh) /\ IsSteps(ReplyRefresh)
      /\ IsSteps(Tail(Publishing))
  BY DEF Publishing, PostRefresh, ReplyRefresh
<1>6. All(ChatHandlers) /\ All(reactDm) /\ All(runSearch)
  BY <1>2 DEF ChatHandlers, reactDm, runSearch
<1>7. All(GraphHandlers) /\ All(ThreadHandlers) /\ All(deleteDmForSelf)
  BY <1>2 DEF GraphHandlers, ThreadHandlers, deleteDmForSelf
<1>8. All(postMessage)
  BY <1>4, <1>5, Concatenated DEF postMessage
<1>9. All(placeZoneNote)
  BY Concatenated DEF placeZoneNote
<1>10. All(SheetActions)
  BY <1>4, <1>5, Concatenated DEF SheetActions
<1>11. All(sendDm)
  BY <1>2, Concatenated DEF sendDm
<1>12. All(ProfileHandlers) /\ All(SettingsHandlers)
  BY <1>2 DEF ProfileHandlers, SettingsHandlers
<1> QED
  BY <1>3, <1>6, <1>7, <1>8, <1>9, <1>10, <1>11, <1>12 DEF Handlers

LEMMA RouteReadsTyped ==
    ASSUME NEW p, NEW on
    PROVE  /\ IsSteps(MountReads(p, on)) /\ IsSteps(TownReads(p, on))
           /\ IsSteps(syncRoute(p, on))
<1> USE StepsTyped, Listed
<1>1. IsStep(ShowMessages) /\ IsStep(ShowProfile)
  BY DEF ShowMessages, ShowProfile
<1>2. IsSteps(PageReads(p, on))
  BY <1>1 DEF PageReads
<1>3. IsSteps(MountReads(p, on))
  BY DEF MountReads
<1>4. IsSteps(TownReads(p, on))
  BY Concatenated DEF TownReads, PostRefresh
<1> QED
  BY <1>2, <1>3, <1>4, Concatenated DEF syncRoute

-----------------------------------------------------------------------------
LEMMA CallsStart == CallsInit => CallsInv
<1> SUFFICES ASSUME CallsInit PROVE CallsInv
  OBVIOUS
<1>1. run = Resting /\ IsSteps(Resting.left) /\ Resting.gate = "page"
      /\ Resting = [name |-> Resting.name, gate |-> Resting.gate, left |-> Resting.left]
  BY Listed DEF CallsInit, Resting
<1>2. CallsTypeOK
  BY <1>1 DEF CallsInit, CallsTypeOK, Capabilities, NoRefusal, Pages
<1> QED
  BY <1>1, <1>2 DEF CallsInv

\* The steps of a script that is not at its end.
LEMMA ScriptSteps ==
    ASSUME NEW q, IsSteps(q), q # <<>>
    PROVE  IsStep(Head(q)) /\ IsSteps(Tail(q))
<1>1. PICK S : q \in Seq(S) /\ \A step \in S : IsStep(step)
  BY DEF IsSteps
<1>2. Head(q) \in S /\ Tail(q) \in Seq(S)
  BY <1>1, HeadTailProperties
<1> QED
  BY <1>1, <1>2 DEF IsSteps

\* The gateway answers with a verdict that is listed.
LEMMA VerdictsTyped ==
    ASSUME NEW call, NEW who
    PROVE  Verdicts(call, who) \subseteq
             {"ok", "NOT_FOUND", "AUTH_REQUIRED", "REAUTHORIZE_REQUIRED", "FORBIDDEN",
              "INVALID_INPUT", "LOCAL_PDS_REQUIRED"}
<1>1. \A route : Unauthentic(route, call, who) \in
                   {"ok", "AUTH_REQUIRED", "REAUTHORIZE_REQUIRED", "FORBIDDEN"}
  BY DEF Unauthentic
<1>2. \A route : Judgement(route, call, who) \in
                   {"ok", "AUTH_REQUIRED", "REAUTHORIZE_REQUIRED", "FORBIDDEN",
                    "INVALID_INPUT", "LOCAL_PDS_REQUIRED"}
  BY <1>1 DEF Judgement
<1> QED
  BY <1>2 DEF Verdicts

\* A step that goes on with a script, or with another one.
LEMMA RunTyped ==
    ASSUME NEW name, NEW gate, NEW left, IsSteps(left),
           run' = [name |-> name, gate |-> gate, left |-> left]
    PROVE  run' = [name |-> run'.name, gate |-> run'.gate, left |-> run'.left]
           /\ run'.gate = gate /\ IsSteps(run'.left)
OBVIOUS

LEMMA ContinueTyped ==
    ASSUME CallsInv, run.left # <<>>, NEW steps, IsSteps(steps), Continue(steps)
    PROVE  run' = [name |-> run'.name, gate |-> run'.gate, left |-> run'.left]
           /\ run'.gate = run.gate /\ IsSteps(run'.left)
<1> DEFINE left == steps \o Tail(run.left)
<1>1. IsSteps(left)
  BY ScriptSteps, Concatenated DEF CallsInv
<1>2. run' = [name |-> run.name, gate |-> run.gate, left |-> left]
  BY DEF Continue, CallsInv
<1> HIDE DEF left
<1> QED
  BY <1>1, <1>2, RunTyped

LEMMA CallsStep == CallsInv /\ [CallsNext]_callVars => CallsInv'
<1> SUFFICES ASSUME CallsInv, [CallsNext]_callVars PROVE CallsInv'
  OBVIOUS
<1> DEFINE StillRuns == run' = [name |-> run'.name, gate |-> run'.gate, left |-> run'.left]
                      /\ IsSteps(run'.left)
                      /\ run'.gate \in Gates \cup {"bridge", "page"}
<1>1. CallsTypeOK /\ run.gate \in Gates \cup {"bridge", "page"}
  BY DEF CallsInv, CallsTypeOK, Gates
<1>2. \A u : Capabilities(u) \subseteq Gates
  BY DEF Capabilities, Gates
<1>3. NoRefusal.verdict = "ok" /\ (offered # Capabilities(user)) \in BOOLEAN
  BY DEF NoRefusal
<1>4. run' = Resting => StillRuns
  BY Listed DEF Resting
<1>5. ASSUME NEW name, NEW gate \in Gates \cup {"bridge", "page"}, NEW steps, IsSteps(steps),
             Start(name, gate, steps)
      PROVE  StillRuns /\ refusal' = NoRefusal /\ ended' \in BOOLEAN
  BY <1>5, RunTyped DEF Start
<1>6. ASSUME NEW steps, IsSteps(steps), run.left # <<>>, Continue(steps) PROVE StillRuns
  BY <1>1, <1>6, ContinueTyped
<1> HIDE DEF StillRuns
<1>7. ASSUME StillRuns, user' \in Users, offered' \subseteq Gates, ended' \in BOOLEAN, page' \in Pages,
             refusal'.verdict \in {"ok", "NOT_FOUND", "AUTH_REQUIRED", "REAUTHORIZE_REQUIRED",
                                   "FORBIDDEN", "INVALID_INPUT", "LOCAL_PDS_REQUIRED"}
      PROVE  CallsInv'
  BY <1>7 DEF CallsInv, CallsTypeOK, StillRuns, Gates
<1>8. ASSUME NEW tool \in Tools, UseTool(tool) PROVE CallsInv'
  <2>1. tool.gate \in Gates /\ IsSteps(tool.steps)
    BY ToolsTyped DEF IsTool
  <2>2. StillRuns /\ refusal' = NoRefusal /\ ended' \in BOOLEAN
    BY <1>5, <1>8, <2>1 DEF UseTool
  <2> QED
    BY <1>1, <1>3, <1>7, <1>8, <2>2 DEF UseTool, CallsTypeOK, Gates
<1>9. ASSUME NEW handler \in Handlers, UseBridge(handler) PROVE CallsInv'
  <2>1. StillRuns /\ refusal' = NoRefusal /\ ended' \in BOOLEAN
    BY <1>5, <1>9, HandlersTyped DEF UseBridge
  <2> QED
    BY <1>1, <1>3, <1>7, <1>9, <2>1 DEF UseBridge, CallsTypeOK, Gates
<1>10. ASSUME NEW p \in Pages, Show(p) PROVE CallsInv'
  <2>1. IsSteps(<<Go(p)>>)
    BY StepsTyped, Listed
  <2>2. StillRuns /\ refusal' = NoRefusal /\ ended' \in BOOLEAN
    BY <1>5, <1>10, <2>1 DEF Show
  <2> QED
    BY <1>1, <1>3, <1>7, <1>10, <2>2 DEF Show, CallsTypeOK, Gates
<1>11. CASE Accept
  <2>1. StillRuns
    BY <1>4, <1>6, <1>11, Listed DEF Accept
  <2> QED
    BY <1>1, <1>7, <1>11, <2>1 DEF Accept, CallsTypeOK, Gates
<1>12. CASE Refuse
  <2>1. StillRuns
    BY <1>4, <1>6, <1>12, Listed DEF Refuse
  <2>2. PICK verdict \in Verdicts(Next1.call, user) : refusal'.verdict = verdict
    BY <1>12 DEF Refuse
  <2> QED
    BY <1>1, <1>7, <1>12, <2>1, <2>2, VerdictsTyped DEF Refuse, CallsTypeOK, Gates
<1>13. CASE Navigate
  <2>1. run.left # <<>> /\ IsStep(Next1) /\ Next1.do = "go"
    BY <1>13, ScriptSteps DEF Navigate, Next1, CallsInv
  <2>2. page' \in Pages
    BY <1>13, <2>1 DEF Navigate, IsStep
  <2>3. StillRuns
    BY <1>6, <1>13, <2>1, Listed, RouteReadsTyped DEF Navigate
  <2>4. ended' \in BOOLEAN /\ offered' \subseteq Gates
    BY <1>2, <1>13 DEF Navigate
  <2> QED
    BY <1>1, <1>7, <1>13, <2>2, <2>3, <2>4 DEF Navigate, CallsTypeOK
<1>14. CASE StateEvent
  <2>1. StillRuns /\ ended' \in BOOLEAN
    <3> DEFINE reads == TownReads(page, Signed) \o
                          (IF page = "/studio" THEN MountReads(page, Signed) ELSE <<>>)
    <3>1. IsSteps(reads) /\ IsSteps(syncRoute(page, Signed) \o reads)
      BY RouteReadsTyped, Listed, Concatenated
    <3>2. CASE Len(run.left) = 1
      <4>1. PICK left : IsSteps(left) /\ run' = [name |-> page, gate |-> "page", left |-> left]
        BY <1>14, <3>1, <3>2 DEF StateEvent
      <4> QED
        BY <1>14, <3>2, <4>1, RunTyped DEF StateEvent, StillRuns
    <3>3. CASE Len(run.left) # 1
      BY <1>1, <1>6, <1>14, <3>3, Listed DEF StateEvent, CallsTypeOK
    <3> QED
      BY <3>2, <3>3
  <2> QED
    BY <1>1, <1>7, <1>14, <2>1 DEF StateEvent, CallsTypeOK, Gates
<1>15. CASE Status
  <2>1. StillRuns
    BY <1>6, <1>15, Listed DEF Status
  <2> QED
    BY <1>1, <1>7, <1>15, <2>1 DEF Status, CallsTypeOK, Gates
<1>16. CASE SessionEnds
  <2>1. user' \in Users
    BY <1>1, <1>16 DEF SessionEnds, CallsTypeOK, Users
  <2>2. StillRuns
    BY <1>1, <1>16 DEF SessionEnds, CallsInv, StillRuns
  <2> QED
    BY <1>1, <1>7, <1>16, <2>1, <2>2 DEF SessionEnds, CallsTypeOK, Gates
<1>17. CASE UNCHANGED callVars
  BY <1>17 DEF callVars, CallsInv, CallsTypeOK
<1> QED
  BY <1>8, <1>9, <1>10, <1>11, <1>12, <1>13, <1>14, <1>15, <1>16, <1>17 DEF CallsNext

(***************************************************************************)
(* Whatever tools, handlers and pages do one after the other, each step is *)
(* one its script has, navigation ends at a page there is, and the gateway *)
(* answers with a verdict it knows (webmcp.ts, bridge.ts, router.ts).      *)
(***************************************************************************)
THEOREM CallsSound == CallsSpec => []CallsInv
BY CallsStart, CallsStep, PTL DEF CallsSpec

-----------------------------------------------------------------------------
(***************************************************************************)
(* The three together: every step of MCHost is a step of one of them and   *)
(* leaves the others alone.                                                *)
(***************************************************************************)
LEMMA PartsStart == Init => CallsInit /\ ComposersInit /\ RouteInit
BY DEF Init

LEMMA PartsStep ==
  [Next]_<<scope, callVars, composerVars, routeVars>> =>
    [CallsNext]_callVars /\ [ComposersNext]_composerVars /\ [RouteNext]_routeVars
BY DEF Next

LEMMA HostIsEach == Spec => CallsSpec /\ ComposersSpec /\ RouteSpec
BY PartsStart, PartsStep, PTL DEF Spec, CallsSpec, ComposersSpec, RouteSpec

\* The states of calls, composers and route are of their types, for any
\* pages, handlers and navigations (src/apps/lynx/src).
THEOREM HostTyped == Spec => []HostTypeOK
<1>1. CallsInv /\ ComposersInv /\ RouteTypeOK => HostTypeOK
  BY DEF CallsInv, ComposersInv, HostTypeOK
<1> QED
  BY <1>1, HostIsEach, CallsSound, ComposersSound, RouteTypeCorrect, PTL

\* What the composers and the route promise holds of the page as a whole.
THEOREM HostHolds == Spec => [](SentOnce /\ SpinnerEnds /\ RouteSettled /\ ZoneCurrent)
BY HostIsEach, TextIsSentOnce, SpinnersEnd, RouteSettles, ZoneIsCurrent, PTL
===================================================================================

------------------------------ MODULE BridgeCalls ------------------------------
(***************************************************************************)
(* What the host does for the interface (bridge.ts, mounts.ts) and for a   *)
(* route it shows (router.ts) as scripts: calls of the gateway, statuses   *)
(* said to the interface and navigation, in order.                         *)
(***************************************************************************)
EXTENDS GatewayRoutes

Say(state) == [do |-> "say", state |-> state]
Busy == Say("busy")
Success == Say("success")

(* A handler of the bridge: the arguments the interface's module passes    *)
(* (sends), those without which the call is dropped (needs), the action    *)
(* its statuses are about ("none": it has no statuses), and its steps.  A  *)
(* step that fails ends the handler with an error status, if it has any.   *)
Handler(name, sends, needs, action, steps) ==
    [name |-> name, sends |-> sends, needs |-> needs, action |-> action, steps |-> steps]

Dispatched(handler) == handler.needs \subseteq handler.sends

(* Handlers without any call of the gateway; goBack may leave to /town.    *)
PageHandlers ==
    {Handler("navigate", {"route"}, {"route"}, "none", <<Go("/")>>),
     Handler("openUrl", {"url"}, {"url"}, "none", <<>>),
     Handler("playVideo", {"playlist", "thumbnail", "alt", "key"}, {"playlist"}, "none", <<>>),
     Handler("appReady", {}, {}, "none", <<Ask("GET", "/api/session", {})>>),
     Handler("goBack", {}, {}, "none", <<Go("/town")>>),
     Handler("logout", {}, {}, "logout",
             <<Busy, Ask("POST", "/api/auth/logout", {}), Success, Go("/")>>)}

-------------------------------------------------------------------------------
(* The composer of posts and of replies.  Drafting is tried again once, on *)
(* the revision that a STALE_REVISION answer names (retries = 1).          *)
Drafting(fields, retries) ==
    LET draft == Ask("PUT", "/api/post-draft", {"text", "expectedRevision", "destination"} \cup fields)
    IN IF retries = 0 THEN <<draft>> ELSE <<draft, draft>>

Publishing == <<Busy, Ask("POST", "/api/posts/publish", {"draftRevision"}), Success>>

(* What is shown again after a post and after a reply.                     *)
PostRefresh == <<Ask("GET", "/api/feed", {"limit"})>>
ReplyRefresh == <<Ask("GET", "/api/post-thread", {"uri"})>>

postMessage ==
    {Handler("postMessage", {"text", "destination"}, {"text"}, "post",
             <<Busy>> \o Drafting({}, retries) \o Publishing \o PostRefresh) : retries \in {0, 1}}
    \cup {Handler("reply", {"text", "destination", "replyToUri"} \cup cid, {"text"}, "post",
                  <<Busy>> \o Drafting({"replyToUri"} \cup cid, retries) \o Publishing \o ReplyRefresh) :
              cid \in {{}, {"replyToCid"}}, retries \in {0, 1}}

(* The version is that of the snapshot shown, or of one fetched for it.    *)
placeZoneNote ==
    LET place == Ask("POST", "/api/zones/:zoneKey/mutations", {"expectedVersion", "operations"})
        fetch == Ask("GET", "/api/zones/:zoneKey", {})
    IN {Handler("placeZoneNote", {"zoneKey", "text"}, {"zoneKey", "text"}, "zone",
                <<Busy>> \o first \o <<place, Success, fetch>>) : first \in {<<>>, <<fetch>>}}

-------------------------------------------------------------------------------
startConversation ==
    {Handler("startConversation", {"recipient"}, {"recipient"}, "message",
             <<Busy, Ask("POST", "/api/dms/start", {"recipient"}), Success, Go("/messages/")>>)}

ShowMessages == Ask("GET", "/api/dms/messages", {"convoId"})

(* Without known recipients the error follows at once.                     *)
sendDm ==
    {Handler("sendDm", {"conversationId", "text"}, {"conversationId", "text"}, "message",
             <<Busy, Ask("POST", "/api/dms/prepare", {"convoId", "recipientDids", "text"}),
               Busy, Ask("POST", "/api/dms/send", {"revision"}), Success, ShowMessages>>),
     Handler("sendDm", {"conversationId", "text"}, {"conversationId", "text"}, "message",
             <<Busy, Say("error")>>)}

ChatHandlers ==
    {Handler("acceptDm", {"conversationId"}, {"conversationId"}, "message",
             <<Busy, Ask("POST", "/api/dms/accept", {"convoId"}), Success>>),
     Handler("muteDm", {"conversationId", "mute"}, {"conversationId", "mute"}, "message",
             <<Ask("POST", "/api/dms/mute", {"convoId", "mute"}), Success>>)}

(* Never dispatched: the module passes conversationId, the handler needs   *)
(* convoId; and the gateway knows neither emoji nor action.                *)
reactDm ==
    {Handler("reactDm", {"conversationId", "messageId", "emoji", "action"},
             {"convoId", "messageId", "emoji", "action"}, "message",
             <<Ask("POST", "/api/dms/react", {"convoId", "messageId", "emoji", "action"}), ShowMessages>>)}

deleteDmForSelf ==
    {Handler("deleteDmForSelf", {"conversationId", "messageId"}, {"conversationId", "messageId"}, "message",
             <<Ask("POST", "/api/dms/delete-for-self", {"convoId", "messageId"}), Success, ShowMessages>>)}

-------------------------------------------------------------------------------
runSearch ==
    {Handler("runSearch", {"kind", "query"}, {"kind", "query"}, "search",
             <<Busy, Ask("GET", path, {"q"}), Success>>) :
         path \in {"/api/search/posts", "/api/search/actors", "/api/search/feeds"}}

ShowProfile == Ask("GET", "/api/profile/:actor", {})

GraphHandlers ==
    {Handler(rows[1], {"actor", rows[2]}, {"actor", rows[2]}, "graph",
             <<Busy, Ask("POST", rows[3], {"actor", rows[2]}), Success, ShowProfile>>) :
         rows \in {<<"followUser", "follow", "/api/graph/follow">>,
                   <<"muteUser", "mute", "/api/graph/mute">>,
                   <<"blockUser", "block", "/api/graph/block">>}}

ProfileHandlers ==
    {Handler("uploadAvatar", {}, {}, "profile",
             <<Busy, Ask("POST", "/api/profile/avatar", {"image"}), Success, ShowProfile>>),
     Handler("updateProfile", {"inputJson"}, {"inputJson"}, "profile",
             <<Busy, Ask("PUT", "/api/profile", {"displayName", "description"}), Success,
               Ask("GET", "/api/session", {}), ShowProfile>>)}

ThreadHandlers ==
    {Handler("reactToPost", {"uri", "cid", "action"}, {"uri", "cid", "action"}, "post",
             <<Ask("POST", "/api/reactions", {"uri", "cid", "action"}), Success>>),
     Handler("loadThread", {"uri"}, {"uri"}, "post", <<Ask("GET", "/api/post-thread", {"uri"})>>)}

SettingsHandlers ==
    {Handler("updateChatDeclaration", {"allowIncoming"}, {"allowIncoming"}, "settings",
             <<Busy, Ask("PUT", "/api/settings/chat-declaration", {"allowIncoming"}), Success>>),
     Handler("setDmAgentEnabled", {"enabled"}, {"enabled"}, "settings",
             <<Busy, Ask("PUT", "/api/settings/dm-agent", {"enabled"}), Success,
               Ask("GET", "/api/session", {})>>),
     Handler("saveHomeSettings", {"mode", "activeHomePath"}, {"mode"}, "settings",
             <<Busy, Ask("PUT", "/api/home/settings", {"mode", "activeHomePath"}), Success,
               Ask("GET", "/api/home/settings", {})>>),
     Handler("markNotificationsSeen", {}, {}, "none",
             <<Ask("POST", "/api/notifications/seen", {}), Ask("GET", "/api/notifications", {})>>)}

(* The confirmed actions of an embedded page (showActionSheet).  Whatever  *)
(* they do, their statuses are about "post".                               *)
SheetActions ==
    {Handler("like-post", {}, {}, "post",
             <<Ask("POST", "/api/reactions", {"uri", "cid", "action"}), Success>>),
     Handler("toggle-follow", {}, {}, "post",
             <<Ask("POST", "/api/graph/follow", {"actor", "follow"}), Success>>)}
    \cup {Handler("reply-to-post", {}, {}, "post",
                  Drafting({"replyToUri"} \cup cid, 0) \o Tail(Publishing)) :
              cid \in {{}, {"replyToCid"}}}

Handlers ==
    PageHandlers \cup postMessage \cup placeZoneNote \cup startConversation \cup sendDm
    \cup ChatHandlers \cup reactDm \cup deleteDmForSelf \cup runSearch \cup GraphHandlers
    \cup ProfileHandlers \cup ThreadHandlers \cup SettingsHandlers \cup SheetActions

-------------------------------------------------------------------------------
(* What showing a page asks, signed in or not (loadRouteData and the tail  *)
(* of syncRoute).  A page that is not named asks nothing.                  *)
PageReads(page, signed) ==
    CASE page \in {"/", "/studio", "/dashboard"} /\ signed ->
             <<Ask("GET", "/api/home/schema", {})>>
      [] page = "/timeline" /\ signed -> <<Ask("GET", "/api/timeline", {})>>
      [] page = "/notifications" /\ signed -> <<Ask("GET", "/api/notifications", {})>>
      [] page = "/settings" /\ signed ->
             <<Ask("GET", "/api/home/settings", {}), Ask("GET", "/api/settings/chat-declaration", {})>>
      [] page = "/post/" -> <<Ask("GET", "/api/post-thread", {"uri"})>>
      [] page = "/messages" /\ signed -> <<Ask("GET", "/api/dms/conversations", {})>>
      [] page = "/messages/requests" /\ signed -> <<Ask("GET", "/api/dms/requests", {})>>
      [] page = "/messages/" /\ signed ->
             <<Ask("GET", "/api/dms/conversations", {}), ShowMessages,
               Ask("POST", "/api/dms/read", {"convoId"})>>
      [] page \in {"/profile/", "/@"} ->
             <<ShowProfile, Ask("GET", "/api/author-feed", {"actor"}),
               Ask("GET", "/api/sites/public-schema", {"slug"})>>
      [] page = "zone" -> <<Ask("GET", "/api/zones/:zoneKey", {})>>
      [] OTHER -> <<>>

(* Not awaited by the route; its only status is that it failed.            *)
markConvoRead ==
    Handler("markConvoRead", {}, {}, "message", <<Ask("POST", "/api/dms/read", {"convoId"})>>)

(* The frames of a page (mounts.ts).                                       *)
MountReads(page, signed) ==
    CASE page = "/" -> <<Ask("GET", "/api/home/mount", {}), Ask("GET", "/api/sites/manifest", {"slug"})>>
      [] page = "/district/" -> <<Ask("GET", "/api/sites/manifest", {"slug"})>>
      [] page = "/studio" /\ signed ->
             <<Ask("GET", "/api/sites/draft", {}), Ask("POST", "/api/sites/preview-session", {"revision"})>>
      [] OTHER -> <<>>

(* The polled town square, on the homepage with the followed timeline.     *)
TownReads(page, signed) ==
    (IF page \in {"/", "/town"} THEN PostRefresh ELSE <<>>)
    \o (IF page = "/" /\ signed THEN <<Ask("GET", "/api/timeline", {})>> ELSE <<>>)

Pages ==
    {"/", "/town", "/studio", "/dashboard", "/timeline", "/notifications", "/settings", "/post/",
     "/messages", "/messages/requests", "/messages/", "/profile/", "/@", "/district/", "zone"}

syncRoute(page, signed) ==
    <<Ask("GET", "/api/session", {})>> \o PageReads(page, signed) \o MountReads(page, signed)
        \o TownReads(page, signed)
===============================================================================

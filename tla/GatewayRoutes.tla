----------------------------- MODULE GatewayRoutes -----------------------------
(***************************************************************************)
(* The HTTP routes of the Worker (worker.ts) as a table: who may call a    *)
(* route, which fields it needs and which others it admits.  What a route  *)
(* does is modelled by the service modules; here its schema stands between *)
(* the code that calls it (AgentTools, BridgeCalls) and that service.      *)
(* Values are left out, but a query of more than 64 characters is a field  *)
(* of its own, "longQ".                                                    *)
(***************************************************************************)
EXTENDS Sequences

Route(method, path, auth, needs, may) ==
    [method |-> method, path |-> path, auth |-> auth, needs |-> needs, may |-> may,
     strict |-> method # "GET", local |-> FALSE]

(* A query that is parsed as a whole; a body of which fields are picked;   *)
(* a route for accounts of this PDS only.                                  *)
Strict(route) == [route EXCEPT !.strict = TRUE]
Loose(route) == [route EXCEPT !.strict = FALSE]
Local(route) == [route EXCEPT !.local = TRUE]

Get(path, needs) == Route("GET", path, "session", needs, {})
Public(path, needs) == Route("GET", path, "none", needs, {})
Optional(path, needs) == Route("GET", path, "optional", needs, {})
Post(path, needs, may) == Route("POST", path, "mutation", needs, may)
Put(path, needs, may) == Route("PUT", path, "mutation", needs, may)
Delete(path, needs) == Route("DELETE", path, "mutation", needs, {})

StaticRoutes ==
    {Public(p, {}) : p \in {"/health", "/main.web.bundle", "/host.js", "/static/*",
        "/binary/*", "/decodeWorker/*", "/common/*", "/constants.js", "/wasm.js",
        "/oauth-client-metadata.json", "/.well-known/jwks.json", "/oauth/login"}}

(* /api/session answers whoever asks, logout does not ask for a token.     *)
SessionRoutes ==
    {Public("/oauth/callback", {}), Public("/api/session", {}),
     Route("POST", "/api/auth/logout", "none", {}, {}),
     Strict(Route("GET", "/api/feed", "none", {}, {"cursor", "limit"})),
     Optional("/api/profile/:actor", {})}

PostRoutes ==
    {Put("/api/post-draft", {"text", "expectedRevision"},
         {"destination", "replyToUri", "quoteUri", "quoteCid", "languages", "mediaDraftIds"}),
     Post("/api/posts/publish", {"draftRevision"}, {}),
     Post("/api/reactions", {"uri", "cid", "action"}, {})}

GraphRoutes ==
    {Route("POST", "/api/graph/resolve", "session", {"actor"}, {}),
     Post("/api/graph/follow", {"actor", "follow"}, {}),
     Post("/api/graph/block", {"actor", "block"}, {}),
     Post("/api/graph/mute", {"actor", "mute"}, {}),
     Post("/api/moderation/report", {"subjectUri", "reasonType"}, {"subjectCid", "comment"}),
     Get("/api/timeline", {}),
     Get("/api/post-thread", {"uri"})}

MediaRoutes ==
    {Post("/api/media/image/prepare", {"mimeType", "alt", "sizeBytes"}, {"confirmNoAlt"}),
     Get("/api/feeds/saved", {}),
     Post("/api/feeds/saved", {"uri"}, {"cid", "pinned"}),
     Loose(Delete("/api/feeds/saved", {"uri"})),
     Loose(Post("/api/media/image/upload", {"draftId"}, {})),
     Loose(Post("/api/media/image/:draftId", {}, {})),
     Post("/api/media/video/prepare", {"mimeType", "sizeBytes"}, {"alt"}),
     Loose(Post("/api/media/video/chunk", {"draftId"}, {})),
     Loose(Post("/api/media/video/complete", {"draftId"}, {})),
     Get("/api/media/video/status", {"jobId"})}

ReadingRoutes ==
    {Get("/api/dms/status", {}), Get("/api/dms/conversations", {}),
     Get("/api/dms/requests", {}), Optional("/api/author-feed", {"actor"}),
     Optional("/api/post-engagement", {"uri", "kind"}),
     Loose(Put("/api/profile", {}, {})),
     Loose(Post("/api/profile/avatar", {"image"}, {})),
     Get("/api/dms/conversation", {"members"}),
     Post("/api/dms/start", {"recipient"}, {}),
     Get("/api/dms/messages", {"convoId"})}

ChatRoutes ==
    {Post("/api/dms/prepare", {"recipientDids", "text"}, {"convoId"}),
     Post("/api/dms/send", {"revision"}, {}),
     Post("/api/dms/read", {"convoId"}, {"messageId"}),
     Post("/api/dms/react", {"convoId", "messageId", "value"}, {"remove"}),
     Post("/api/dms/delete-for-self", {"convoId", "messageId"}, {}),
     Post("/api/dms/delete", {"convoId", "messageId"}, {}),
     Post("/api/dms/accept", {"convoId"}, {}),
     Post("/api/dms/mute", {"convoId", "mute"}, {}),
     Put("/api/settings/dm-agent", {"enabled"}, {}),
     Get("/api/settings/chat-declaration", {}),
     Put("/api/settings/chat-declaration", {"allowIncoming"}, {})}

SearchRoutes ==
    {Delete("/api/posts/:uri", {}), Get("/api/notifications", {}),
     Post("/api/notifications/seen", {}, {"seenAt"}),
     Optional("/api/search/posts", {"q"}), Optional("/api/search/actors", {"q"}),
     Optional("/api/search/feeds", {"q"}), Optional("/api/feed/custom", {"feed"}),
     Public("/api/zones/:zoneKey", {}), Public("/api/zones/:zoneKey/socket", {}),
     Post("/api/zones/:zoneKey/mutations", {"expectedVersion", "operations"}, {})}

SiteRoutes ==
    {Local(Get("/api/sites/draft", {})),
     Local(Strict(Route("GET", "/api/sites/file", "session", {"path"}, {"offset", "maxChars"}))),
     Local(Put("/api/sites/file", {"path", "content", "encoding", "contentType", "expectedRevision"}, {})),
     Local(Delete("/api/sites/file", {"path", "expectedRevision"})),
     Local(Loose(Post("/api/sites/preview-session", {}, {}))),
     Local(Post("/api/sites/publish", {"revision"}, {})),
     Get("/api/home/settings", {}),
     Local(Put("/api/home/settings", {"mode", "activeHomePath"}, {})),
     Optional("/api/home/schema", {}),
     Local(Loose(Put("/api/home/schema", {}, {}))),
     Local(Get("/api/sites/schema", {})),
     Local(Loose(Put("/api/sites/schema", {"schema"}, {}))),
     Public("/api/sites/public-schema", {"slug"})}

TenantRoutes ==
    {Optional("/api/home/mount", {}), Public("/api/home/bridge/:view", {}),
     Public("/api/sites/manifest", {"slug"}), Get("/api/sites/manifest", {}),
     Loose(Route("POST", "/api/__webmcp/:slug/:tool", "none", {}, {}))}

ShellRoutes ==
    {Local(Get("/api/sites/preview/:revision/*", {})),
     Loose(Post("/api/admin/sites/suspend", {"targetDid", "reason"}, {})),
     Loose(Post("/api/admin/sites/restore", {"targetDid", "reason"}, {})),
     Public("/@:slug", {}), Public("/district/:slug", {}), Public("*", {})}

Routes ==
    StaticRoutes \cup SessionRoutes \cup PostRoutes \cup GraphRoutes \cup MediaRoutes
    \cup ReadingRoutes \cup ChatRoutes \cup SearchRoutes \cup SiteRoutes
    \cup TenantRoutes \cup ShellRoutes

-------------------------------------------------------------------------------
(* A call names a route, carries fields and maybe the CSRF token; a user   *)
(* has a session ("none", "old" with a grant of former scopes, "current")  *)
(* and an account here (local) or elsewhere.                               *)
Call(method, path, sends) ==
    [method |-> method, path |-> path, sends |-> sends, csrf |-> method # "GET"]

(* authenticateRequest: the session, then the grant, then the token.       *)
Unauthentic(route, call, user) ==
    CASE route.auth \in {"none", "optional"} -> "ok"
      [] user.session = "none" -> "AUTH_REQUIRED"
      [] user.session = "old" -> "REAUTHORIZE_REQUIRED"
      [] route.auth = "mutation" /\ ~call.csrf -> "FORBIDDEN"
      [] OTHER -> "ok"

Malformed(route, call) ==
    \/ ~(route.needs \subseteq call.sends)
    \/ route.strict /\ ~(call.sends \subseteq route.needs \cup route.may)

Judgement(route, call, user) ==
    LET who == Unauthentic(route, call, user)
    IN CASE who # "ok" -> who
         [] Malformed(route, call) -> "INVALID_INPUT"
         [] route.local /\ ~user.local -> "LOCAL_PDS_REQUIRED"
         [] OTHER -> "ok"

(* The verdicts on a call; there are two where its query decides which     *)
(* branch of a handler it meets (/api/sites/manifest).                     *)
Verdicts(call, user) ==
    LET here == {route \in Routes : route.method = call.method /\ route.path = call.path}
    IN IF here = {} THEN {"NOT_FOUND"} ELSE {Judgement(route, call, user) : route \in here}

Accepted(call, user) == "ok" \in Verdicts(call, user)

(* Clients are scripts of calls, navigation and steps of their own.        *)
Ask(method, path, sends) == [do |-> "ask", call |-> Call(method, path, sends)]
Go(path) == [do |-> "go", path |-> path]
===============================================================================

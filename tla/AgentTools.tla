------------------------------ MODULE AgentTools ------------------------------
(***************************************************************************)
(* The tools a page offers to an agent (webmcp.ts) as scripts: the session *)
(* capability a tool is registered for and what it does in order, that is  *)
(* calls of the gateway and navigation.  A tool that can do one of several *)
(* things is several scripts of one name.  Input parsing and the result's  *)
(* wording are left out.                                                   *)
(***************************************************************************)
EXTENDS GatewayRoutes

(* A result is dispatched to the host as an event (wrapResult); the event  *)
(* of a written layout has the page loaded again.                          *)
Event(reload) == [do |-> "event", reload |-> reload]

Tool(name, gate, steps) ==
    [name |-> name, gate |-> gate, steps |-> steps \o <<Event(FALSE)>>]

(* One script for each of the field sets the tool may send.                *)
Sending(name, gate, method, path, choices) ==
    {Tool(name, gate, <<Ask(method, path, fields)>>) : fields \in choices}

(* Navigation first, so that the page is loading while the tool reads.     *)
TownTools ==
    {Tool("show_town_square", "anyone", <<Go("/"), Ask("GET", "/api/feed", fields)>>) :
        fields \in {{"limit"}, {"limit", "cursor"}}}
    \cup {Tool("open_chaos_gate", "anyone", <<Go("zone"), Ask("GET", "/api/zones/:zoneKey", {})>>),
          Tool("show_profile", "anyone", <<Go("/profile/"), Ask("GET", "/api/profile/:actor", {})>>)}

PostTools ==
    Sending("prepare_post", "signed", "PUT", "/api/post-draft",
            {{"text", "destination", "expectedRevision"} \cup extra : extra \in
                {{}, {"replyToUri"}, {"quoteUri", "quoteCid"}, {"languages"}, {"mediaDraftIds"}}})
    \cup Sending("publish_prepared_post", "signed", "POST", "/api/posts/publish", {{"draftRevision"}})
    \cup Sending("react_to_post", "signed", "POST", "/api/reactions", {{"uri", "cid", "action"}})
    \cup Sending("mutate_zone", "signed", "POST", "/api/zones/:zoneKey/mutations",
                 {{"expectedVersion", "operations"}})

SearchTools ==
    UNION {Sending("search_" \o kind, "signed", "GET", "/api/search/" \o kind, {{"q"}, {"q", "cursor"}}) :
               kind \in {"actors", "posts", "feeds"}}

(* These navigate once the answer is there.                                *)
ReadTools ==
    {Tool("show_post_thread", "signed", <<Ask("GET", "/api/post-thread", {"uri"}), Go("/post/")>>),
     Tool("show_timeline", "signed", <<Ask("GET", "/api/timeline", {}), Go("/timeline")>>),
     Tool("show_feed", "signed", <<Go("/town"), Ask("GET", "/api/feed/custom", {"feed"})>>),
     Tool("list_notifications", "signed", <<Ask("GET", "/api/notifications", {}), Go("/notifications")>>)}

GraphTools ==
    Sending("mark_notifications_seen", "signed", "POST", "/api/notifications/seen", {{}, {"seenAt"}})
    \cup Sending("set_follow_state", "signed", "POST", "/api/graph/follow", {{"actor", "follow"}})
    \cup Sending("set_moderation_state", "signed", "POST", "/api/graph/block", {{"actor", "block"}})
    \cup Sending("set_moderation_state", "signed", "POST", "/api/graph/mute", {{"actor", "mute"}})
    \cup Sending("report_content", "signed", "POST", "/api/moderation/report",
                 {{"subjectUri", "reasonType"} \cup extra : extra \in {{}, {"subjectCid"}, {"comment"}}})
    \cup Sending("delete_own_post", "signed", "DELETE", "/api/posts/:uri", {{}})

-------------------------------------------------------------------------------
HomeTools ==
    {Tool("show_home", "signed", <<Ask("GET", "/api/home/settings", {}), Go("/")>>),
     Tool("set_home_mode", "signed", <<Ask("PUT", "/api/home/settings", {"mode", "activeHomePath"})>>)}

(* Layouts are read, changed and written whole: the calls of a script on   *)
(* one of the two targets.                                                 *)
Layouts == {"/api/home/schema", "/api/sites/schema"}
readLayoutTarget(layout) == <<Ask("GET", layout, {})>>
writeLayoutTarget(layout) == <<Ask("PUT", layout, {"schema"}), Event(TRUE)>>
Editing(layout) == readLayoutTarget(layout) \o writeLayoutTarget(layout)

LayoutTools ==
    UNION {{Tool("get_page_layout", "signed", readLayoutTarget(layout)),
            Tool("update_page_layout", "signed", writeLayoutTarget(layout)),
            Tool("add_ui_card", "signed", Editing(layout))} : layout \in Layouts}

(* The feed a widget shows; its query may be of 200 characters.            *)
WidgetFeeds ==
    {Ask("GET", "/api/author-feed", {"actor", "limit"}), Ask("GET", "/api/feed", {"limit"}),
     Ask("GET", "/api/search/posts", {"q", "limit"}), Ask("GET", "/api/search/posts", {"longQ", "limit"})}

WidgetTools ==
    {Tool("populate_feed_widget", "signed", <<feed>> \o Editing(layout)) :
        feed \in WidgetFeeds, layout \in Layouts}
    \cup {Tool("populate_actor_showcase", "signed",
               <<Ask("GET", "/api/profile/:actor", {})>> \o Editing(layout)) : layout \in Layouts}

SceneTools ==
    {Tool(name, "signed", Editing(layout)) : layout \in Layouts,
        name \in {"populate_zone_portal_widget", "create_3d_scene"}}
    \cup {Tool("clear_ui_page", "signed", writeLayoutTarget(layout)) : layout \in Layouts}

PortalTools ==
    {Tool(name, "signed", Editing(layout)) : layout \in Layouts,
        name \in {"add_3d_object", "render_3d_portal"}}

-------------------------------------------------------------------------------
\* Mutant: a saved feed is pinned by a field the gateway does not know.
FeedToolsPinning ==
    Sending("set_saved_feed", "signed", "POST", "/api/feeds/saved", {{"uri", "pin"}})

(* Removing a saved feed goes without the CSRF header.                     *)
FeedTools ==
    {Tool("show_actor_feed", "signed", <<Ask("GET", "/api/author-feed", {"actor"}), Go("/profile/")>>)}
    \cup Sending("show_post_engagement", "signed", "GET", "/api/post-engagement", {{"uri", "kind"}})
    \cup Sending("list_saved_feeds", "signed", "GET", "/api/feeds/saved", {{}})
    \cup Sending("set_saved_feed", "signed", "POST", "/api/feeds/saved", {{"uri"}, {"uri", "cid"}})
    \cup {Tool("set_saved_feed", "signed",
               <<[Ask("DELETE", "/api/feeds/saved", {"uri"}) EXCEPT !.call.csrf = FALSE]>>)}

ProfileTools ==
    Sending("update_profile", "signed", "PUT", "/api/profile", {{}, {"displayName"}, {"description"}})
    \cup {Tool("open_personal_site", "signed", <<Go("/@")>>),
          Tool("show_district", "signed", <<Go("/district/")>>)}

SiteTools ==
    {Tool("open_site_editor", "publisher", <<Go("/studio"), Ask("GET", "/api/sites/draft", {})>>)}
    \cup Sending("read_site_file", "publisher", "GET", "/api/sites/file", {{"path", "offset", "maxChars"}})
    \cup Sending("save_site_file", "publisher", "PUT", "/api/sites/file",
                 {{"path", "content", "encoding", "contentType", "expectedRevision"}})
    \cup Sending("delete_site_file", "publisher", "DELETE", "/api/sites/file", {{"path", "expectedRevision"}})
    \cup Sending("publish_site", "publisher", "POST", "/api/sites/publish", {{"revision"}})

ChatTools ==
    Sending("list_conversations", "dmAgent", "GET", "/api/dms/conversations", {{}, {"cursor"}})
    \cup Sending("read_conversation", "dmAgent", "GET", "/api/dms/messages", {{"convoId"}, {"convoId", "cursor"}})
    \cup Sending("prepare_message", "dmAgent", "POST", "/api/dms/prepare",
                 {{"recipientDids", "text"}, {"recipientDids", "text", "convoId"}})
    \cup Sending("send_prepared_message", "dmAgent", "POST", "/api/dms/send", {{"revision"}})

ChatAnswerTools ==
    Sending("list_message_requests", "dmAgent", "GET", "/api/dms/requests", {{}, {"cursor"}})
    \cup Sending("mark_conversation_read", "dmAgent", "POST", "/api/dms/read",
                 {{"convoId"}, {"convoId", "messageId"}})
    \cup Sending("react_to_message", "dmAgent", "POST", "/api/dms/react",
                 {{"convoId", "messageId", "value", "remove"}})
    \cup Sending("delete_message_for_self", "dmAgent", "POST", "/api/dms/delete-for-self",
                 {{"convoId", "messageId"}})

Tools ==
    TownTools \cup PostTools \cup SearchTools \cup ReadTools \cup GraphTools \cup HomeTools
    \cup LayoutTools \cup WidgetTools \cup SceneTools \cup PortalTools \cup FeedTools
    \cup ProfileTools \cup SiteTools \cup ChatTools \cup ChatAnswerTools
===============================================================================

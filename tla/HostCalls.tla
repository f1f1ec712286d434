------------------------------- MODULE HostCalls -------------------------------
(***************************************************************************)
(* Everything the page asks of the gateway, one script at a time: an agent *)
(* uses a tool, the interface uses the bridge, a page is shown.  The       *)
(* session may end while a script runs or between two.                     *)
(***************************************************************************)
EXTENDS AgentTools, BridgeCalls

VARIABLES user,     \* session, local (account of this PDS), dmAgent (the user allows it)
          offered,  \* the capabilities the registered tools were offered for
          ended,    \* the session ended after that, or after the script began
          page,     \* location
          run,      \* the running script: name, gate, steps left
          refusal   \* the last refusal of this script: who asked and the verdict

callVars == <<user, offered, ended, page, run, refusal>>

Users ==
    {u \in [session : {"none", "old", "current"}, local : BOOLEAN, dmAgent : BOOLEAN] :
        u.dmAgent => u.session # "none"}

Capabilities(u) ==
    {"anyone"} \cup (IF u.session # "none" THEN {"signed"} ELSE {})
    \cup (IF u.session # "none" /\ u.local THEN {"publisher"} ELSE {})
    \cup (IF u.session = "current" /\ u.dmAgent THEN {"dmAgent"} ELSE {})

Signed == user.session # "none"
Resting == [name |-> "none", gate |-> "page", left |-> <<>>]
NoRefusal == [name |-> "none", gate |-> "page", verdict |-> "ok", ended |-> FALSE]

CallsTypeOK ==
    /\ user \in Users
    /\ offered \subseteq {"anyone", "signed", "publisher", "dmAgent"}
    /\ ended \in BOOLEAN
    /\ page \in Pages
    /\ run.gate \in {"anyone", "signed", "publisher", "dmAgent", "bridge", "page"}
    /\ refusal.verdict \in {"ok", "NOT_FOUND", "AUTH_REQUIRED", "REAUTHORIZE_REQUIRED",
                            "FORBIDDEN", "INVALID_INPUT", "LOCAL_PDS_REQUIRED"}

CallsInit ==
    /\ user \in Users
    /\ offered = Capabilities(user)
    /\ ended = FALSE
    /\ page = "/"
    /\ run = Resting
    /\ refusal = NoRefusal

Start(name, gate, steps) ==
    /\ run.left = <<>>
    /\ run' = [name |-> name, gate |-> gate, left |-> steps]
    /\ refusal' = NoRefusal
    /\ ended' = (offered # Capabilities(user))

(* A tool that was registered; a call the dispatcher knows; a navigation.  *)
UseTool(tool) ==
    /\ tool.gate \in offered
    /\ Start(tool.name, tool.gate, tool.steps)
    /\ UNCHANGED <<user, offered, page>>

UseBridge(handler) ==
    /\ Dispatched(handler)
    /\ Start(handler.name, "bridge", handler.steps)
    /\ UNCHANGED <<user, offered, page>>

Show(p) ==
    /\ Start(p, "page", <<Go(p)>>)
    /\ UNCHANGED <<user, offered, page>>

Next1 == Head(run.left)
Continue(steps) == run' = [run EXCEPT !.left = steps \o Tail(@)]

(* An accepted call may still fail in the service, which ends a tool or a  *)
(* handler; the reads of a page fail one by one.                           *)
Accept ==
    /\ run.left # <<>> /\ Next1.do = "ask" /\ Accepted(Next1.call, user)
    /\ Continue(<<>>) \/ (run.gate # "page" /\ run' = Resting)
    /\ UNCHANGED <<user, offered, ended, page, refusal>>

Refuse ==
    /\ run.left # <<>> /\ Next1.do = "ask" /\ ~Accepted(Next1.call, user)
    /\ \E verdict \in Verdicts(Next1.call, user) :
         refusal' = [name |-> run.name, gate |-> run.gate, verdict |-> verdict, ended |-> ended]
    /\ IF run.gate = "page" THEN Continue(<<>>) ELSE run' = Resting
    /\ UNCHANGED <<user, offered, ended, page>>

(* navigate: the tools are registered again for the session found.  What   *)
(* is read for the page is no part of the tool or handler that left.       *)
Navigate ==
    /\ run.left # <<>> /\ Next1.do = "go"
    /\ page' = Next1.path
    /\ offered' = Capabilities(user)
    /\ ended' = (ended /\ run.gate # "page")
    /\ IF run.gate = "page" THEN Continue(syncRoute(page', Signed)) ELSE Continue(<<>>)
    /\ UNCHANGED <<user, refusal>>

(* The host's answer to a tool's event.                                    *)
StateEvent ==
    /\ run.left # <<>> /\ Next1.do = "event"
    /\ LET reads == TownReads(page, Signed) \o
                    (IF page = "/studio" THEN MountReads(page, Signed) ELSE <<>>)
       IN IF Len(run.left) = 1
          THEN run' = [name |-> page, gate |-> "page",
                       left |-> IF Next1.reload THEN syncRoute(page, Signed) \o reads ELSE reads]
               /\ ended' = FALSE
          ELSE Continue(<<>>) /\ UNCHANGED ended
    /\ UNCHANGED <<user, offered, page, refusal>>

Status ==
    /\ run.left # <<>> /\ Next1.do = "say"
    /\ Continue(<<>>)
    /\ UNCHANGED <<user, offered, ended, page, refusal>>

(* The session ends elsewhere, or the user forbids the agent messages.     *)
SessionEnds ==
    /\ Signed
    /\ user' = [user EXCEPT !.session = "none", !.dmAgent = FALSE]
    /\ ended' = TRUE
    /\ UNCHANGED <<offered, page, run, refusal>>

CallsNext ==
    \/ \E tool \in Tools : UseTool(tool)
    \/ \E handler \in Handlers : UseBridge(handler)
    \/ \E p \in Pages : Show(p)
    \/ Accept
    \/ Refuse
    \/ Navigate
    \/ StateEvent
    \/ Status
    \/ SessionEnds

CallsSpec == CallsInit /\ [][CallsNext]_callVars

(***************************************************************************)
(* The client and the gateway agree on the routes, their fields, the token *)
(* and the capabilities: a tool is refused for want of a session only when *)
(* the session ended after it was registered, a publisher's tool never for *)
(* want of an account here, and nothing is malformed.  The exceptions are  *)
(* the code's: replies that name the CID of their parent, the removal of a *)
(* saved feed, a long feed query, and a thread opened without signing in.  *)
(***************************************************************************)
KnownRefusals ==
    {<<"reply", "INVALID_INPUT">>, <<"reply-to-post", "INVALID_INPUT">>,
     <<"set_saved_feed", "FORBIDDEN">>, <<"populate_feed_widget", "INVALID_INPUT">>,
     <<"/post/", "AUTH_REQUIRED">>}

CallsAccepted ==
    \/ refusal.verdict \in {"ok", "REAUTHORIZE_REQUIRED"}
    \/ refusal.verdict = "AUTH_REQUIRED" /\ (refusal.gate = "bridge" \/ refusal.ended)
    \/ refusal.verdict = "LOCAL_PDS_REQUIRED" /\ refusal.gate # "publisher"
    \/ <<refusal.name, refusal.verdict>> \in KnownRefusals
===============================================================================

------------------------------ MODULE MCServices ------------------------------
(***************************************************************************)
(* The services behind the Worker's routes on small instances.  They share *)
(* no state (each keeps tables, records or calls of its own), so an        *)
(* interleaving of two shows nothing that the one alone does not: `scope'  *)
(* says which of them a behaviour is about, and the others rest.           *)
(***************************************************************************)
EXTENDS SocialRecords, DirectMessages, WebSessions, AccountRecords, EgressProxy,
        TownFeed, MediaDrafts, SiteServing

VARIABLE scope

Scopes == {"social", "feed", "dm", "media", "sessions", "account", "serving", "egress"}

Init ==
    /\ scope \in Scopes
    /\ SocialInit /\ (scope # "social" => socialKind = "like" /\ records = {})
    /\ FeedInit
    /\ DmInit
    /\ MediaInit /\ (scope # "media" => \A j \in DOMAIN jobs : jobs[j].state = "none")
    /\ SessionInit
    /\ AccountInit /\ (scope # "account" => accountKind = "layout" /\ held = {})
    /\ ServingInit
    /\ EgressInit /\ (scope # "egress" => origin \in Denied /\ method = "GET" /\ ~auth)

Next ==
    \/ /\ scope = "social" /\ SocialNext
       /\ UNCHANGED <<scope, feedVars, dmVars, mediaVars,
                      sessionVars, accountVars, servingVars, egressVars>>
    \/ /\ scope = "feed" /\ FeedNext
       /\ UNCHANGED <<scope, socialVars, dmVars, mediaVars,
                      sessionVars, accountVars, servingVars, egressVars>>
    \/ /\ scope = "dm" /\ DmNext
       /\ UNCHANGED <<scope, socialVars, feedVars, mediaVars,
                      sessionVars, accountVars, servingVars, egressVars>>
    \/ /\ scope = "media" /\ MediaNext
       /\ UNCHANGED <<scope, socialVars, feedVars, dmVars,
                      sessionVars, accountVars, servingVars, egressVars>>
    \/ /\ scope = "sessions" /\ SessionNext
       /\ UNCHANGED <<scope, socialVars, feedVars, dmVars,
                      mediaVars, accountVars, servingVars, egressVars>>
    \/ /\ scope = "account" /\ AccountNext
       /\ UNCHANGED <<scope, socialVars, feedVars, dmVars,
                      mediaVars, sessionVars, servingVars, egressVars>>
    \/ /\ scope = "serving" /\ ServingNext
       /\ UNCHANGED <<scope, socialVars, feedVars, dmVars,
                      mediaVars, sessionVars, accountVars, egressVars>>
    \/ /\ scope = "egress" /\ EgressNext
       /\ UNCHANGED <<scope, socialVars, feedVars, dmVars,
                      mediaVars, sessionVars, accountVars, servingVars>>

Spec ==
    Init /\ [][Next]_<<scope, socialVars, feedVars, dmVars, mediaVars, sessionVars,
                       accountVars, servingVars, egressVars>>

(* What a state is told apart by: the others rest in one state per scope.  *)
Moving ==
    CASE scope = "social" -> <<scope, socialVars>>
      [] scope = "feed" -> <<scope, feedVars>>
      [] scope = "dm" -> <<scope, dmVars>>
      [] scope = "media" -> <<scope, mediaVars>>
      [] scope = "sessions" -> <<scope, sessionVars>>
      [] scope = "account" -> <<scope, accountVars>>
      [] scope = "serving" -> <<scope, servingVars>>
      [] scope = "egress" -> <<scope, egressVars>>

-------------------------------------------------------------------------------
(* The type invariants of the services.                                    *)
ServicesTypeOK ==
    /\ SocialTypeOK /\ FeedTypeOK /\ DmTypeOK /\ MediaTypeOK
    /\ SessionTypeOK /\ AccountTypeOK /\ ServingTypeOK /\ EgressTypeOK
===============================================================================

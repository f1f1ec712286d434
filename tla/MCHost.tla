--------------------------------- MODULE MCHost ---------------------------------
(***************************************************************************)
(* The page's own side on small instances: the calls it makes, the         *)
(* composers, and the route shown.  They share no state; `scope' says      *)
(* which a behaviour is about.  The route is looked at twice: all pages    *)
(* with the session but without changes in the zones, and the zones with   *)
(* one page beside them, signed in.                                        *)
(***************************************************************************)
EXTENDS HostCalls, HostComposers, HostRoute

CONSTANT Plain  \* pages without live updates and embedded pages

VARIABLE scope

(* The zones are interchangeable, so a behaviour may start in either.       *)
First == CHOOSE z \in Zones : TRUE

Init ==
    /\ scope \in {"calls", "composers", "pages", "zones"}
    /\ CallsInit /\ (scope # "calls" => user.session = "none" /\ ~user.local)
    /\ ComposersInit /\ (scope # "composers" => about = "post")
    /\ RouteInit
    /\ scope # "pages" => signed = "in"
    /\ IF scope = "zones" THEN path = First ELSE path \in Polled

AllPages == version' = version /\ note' = note

OnlyZones ==
    /\ signed' = signed /\ hidden' = hidden
    /\ cached # "none" => cached' # "none"
    /\ path' \in Zones \cup Plain

Next ==
    \/ scope = "calls" /\ CallsNext /\ UNCHANGED <<scope, composerVars, routeVars>>
    \/ scope = "composers" /\ ComposersNext /\ UNCHANGED <<scope, callVars, routeVars>>
    \/ scope = "pages" /\ RouteNext /\ AllPages /\ UNCHANGED <<scope, callVars, composerVars>>
    \/ scope = "zones" /\ RouteNext /\ OnlyZones /\ UNCHANGED <<scope, callVars, composerVars>>

Spec == Init /\ [][Next]_<<scope, callVars, composerVars, routeVars>>

(* What a state is told apart by: the others rest.                         *)
Moving ==
    CASE scope = "calls" -> <<scope, callVars>>
      [] scope = "composers" -> <<scope, composerVars>>
      [] OTHER -> <<scope, routeVars>>

-------------------------------------------------------------------------------
(* The type invariants of the host's modules.                              *)
HostTypeOK == CallsTypeOK /\ ComposersTypeOK /\ RouteTypeOK
===============================================================================

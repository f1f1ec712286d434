------------------------------ MODULE EgressProxy ------------------------------
(***************************************************************************)
(* The outbound proxy of tenant workers (site-runtime egress.ts): one       *)
(* request, sent with manual redirects.  Every target is checked before it  *)
(* is fetched, at most five redirects are followed.                         *)
(***************************************************************************)
EXTENDS ServiceConstants

VARIABLES pc,        \* "check", "fetched" or how the loop ended
          origin,    \* where the current request goes
          method,    \* "GET" (also HEAD), "POST" or "PUT" (any other)
          auth,      \* it carries an authorization header
          redirects, \* redirects followed
          sent       \* what has been sent: origin and whether with authorization

egressVars == <<pc, origin, method, auth, redirects, sent>>

Ends == {"response", "EGRESS_DENIED", "REDIRECT_LIMIT", "TypeError"}

EgressTypeOK ==
    /\ pc \in {"check", "fetched"} \cup Ends
    /\ origin \in Origins
    /\ method \in {"GET", "POST", "PUT"}
    /\ auth \in BOOLEAN
    /\ redirects \in 0..MaxRedirects
    /\ sent \in SUBSET (Origins \X BOOLEAN)

EgressInit ==
    /\ pc = "check"
    /\ origin \in Origins
    /\ method \in {"GET", "POST", "PUT"}
    /\ auth \in BOOLEAN
    /\ redirects = 0
    /\ sent = {}

Fetch ==
    /\ pc = "check"
    /\ IF origin \in Denied
       THEN pc' = "EGRESS_DENIED" /\ UNCHANGED sent
       ELSE pc' = "fetched" /\ sent' = sent \cup {<<origin, auth>>}
    /\ UNCHANGED <<origin, method, auth, redirects>>

(* Any other status, or a redirect without a Location.                     *)
Respond ==
    /\ pc = "fetched"
    /\ pc' = "response"
    /\ UNCHANGED <<origin, method, auth, redirects, sent>>

\* Mutant: one redirect too many is followed.
RefusedLate(target) == redirects > MaxRedirects \/ target \in Denied

Refused(target) == redirects = MaxRedirects \/ target \in Denied

Refuse(target) ==
    /\ pc = "fetched" /\ Refused(target)
    /\ pc' = IF redirects = MaxRedirects THEN "REDIRECT_LIMIT" ELSE "EGRESS_DENIED"
    /\ UNCHANGED <<origin, method, auth, redirects, sent>>

\* Mutant: the header is kept when the origin changes.
FollowWithHeader(target, status) ==
    LET toGet == status = 303 \/ (status \in {301, 302} /\ method = "POST")
    IN /\ pc = "fetched" /\ ~Refused(target)
       /\ method' = IF toGet THEN "GET" ELSE method
       /\ pc' = "check"
       /\ origin' = target
       /\ redirects' = redirects + 1
       /\ UNCHANGED <<auth, sent>>

(* 307 and 308, and 301 and 302 of other methods than POST, repeat the     *)
(* request; if it had a body, that was read when it was first sent, and    *)
(* the second request cannot be built.                                     *)
Follow(target, status) ==
    LET toGet == status = 303 \/ (status \in {301, 302} /\ method = "POST")
    IN /\ pc = "fetched" /\ ~Refused(target)
       /\ method' = IF toGet THEN "GET" ELSE method
       /\ pc' \in IF method' = "GET" THEN {"check"} ELSE {"check", "TypeError"}
       /\ auth' = (auth /\ target = origin)
       /\ origin' = target
       /\ redirects' = redirects + 1
       /\ UNCHANGED sent

EgressNext ==
    \/ Fetch
    \/ Respond
    \/ \E target \in Origins :
         \/ Refuse(target)
         \/ \E status \in {301, 302, 303, 307, 308} : Follow(target, status)

EgressSpec == EgressInit /\ [][EgressNext]_egressVars

(***************************************************************************)
(* Whatever servers answer, no denied origin is ever sent a request, and   *)
(* the authorization header reaches one origin at most: once a redirect    *)
(* has left the first origin it is not sent again, not even back there.    *)
(***************************************************************************)
EgressConfined ==
    /\ \A s \in sent : s[1] \notin Denied
    /\ \A s, t \in sent : s[2] /\ t[2] => s[1] = t[1]
    /\ auth /\ pc \in {"check", "fetched"} =>
         \A s \in sent : s[1] = origin
===============================================================================

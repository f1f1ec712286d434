--------------------------- MODULE ServiceConstants ---------------------------
(***************************************************************************)
(* The constants of the services behind the Worker's routes and what is    *)
(* assumed of them: that bounds are numbers, that a limit allows something *)
(* and that a value that stands for "none" is nothing else.                *)
(***************************************************************************)
EXTENDS Naturals

CONSTANTS
    Requests,       \* requests of one service in flight

    MaxRecords,     \* SocialRecords: bound, record keys issued

    Posts,          \* TownFeed: posts that carry #netslum
    Readers,        \* requests of GET /api/feed in flight
    FreshFor,       \* 30 s: how long a cached search counts as fresh
    KeepFor,        \* 15 min: how long it may still be served as stale,
                    \* and the life of an optimistic row
    MaxNow,         \* bound: the last moment

    Drafts,         \* DirectMessages: draft revisions that may be drawn
    MaxDeliveries,  \* bound: deliveries of one draft

    MaxJobs,        \* MediaDrafts: bound, jobs of the video service

    Browsers,       \* WebSessions: browsers that sign in to the account
    MaxTokens,      \* bound: session tokens drawn
    NoToken,        \* an empty cookie jar

    Editors,        \* AccountRecords: edits, each made once
    Other,          \* what the account held before: fields the code does not know
    MaxVersion,     \* bound: CIDs of the profile record

    Visitors,       \* SiteServing: requests of those who read a site

    Origins,        \* EgressProxy: origins a tenant may name
    Denied,         \* those deniedUrl refuses: other schemes, own and private hosts
    MaxRedirects    \* 5

ASSUME MaxRecordsAssumption == MaxRecords \in Nat \ {0}

ASSUME FeedAssumption ==
    /\ FreshFor \in Nat \ {0} /\ KeepFor \in Nat /\ MaxNow \in Nat
    /\ FreshFor < KeepFor

ASSUME DeliveriesAssumption == Drafts # {} /\ MaxDeliveries \in Nat \ {0, 1}

ASSUME JobsAssumption == MaxJobs \in Nat

ASSUME TokensAssumption == MaxTokens \in Nat /\ NoToken \notin 1..MaxTokens

ASSUME AccountAssumption == Other \notin Editors /\ MaxVersion \in Nat \ {0}

ASSUME EgressAssumption == Denied \subseteq Origins /\ MaxRedirects \in Nat
===============================================================================

----------------------------- MODULE HostComposers -----------------------------
(***************************************************************************)
(* The interface (App.tsx) against the bridge: texts in composers,         *)
(* spinners, and the statuses by which handlers that run at the same time  *)
(* say how they fare.  A status names its action and the millisecond it    *)
(* was said in, not the call it is about.                                  *)
(***************************************************************************)
EXTENDS BridgeCalls, Naturals

CONSTANT Lanes  \* bounds how many handlers run at the same time

VARIABLES about,    \* the action whose handlers are followed; the others only say statuses
          typed,    \* the composers with a text
          spin,     \* the spinners that are on
          lane,     \* the running handlers: script, whether its text is still the composer's,
                    \* whether its call was accepted
          sent,     \* how often the text of a composer was accepted
          excuse,   \* composers, spinners: a status was taken for another's, or lost
          last      \* who said the status handled in this millisecond: a lane, others

composerVars == <<about, typed, spin, lane, sent, excuse, last>>

Composers == {"post", "note", "reply", "dm"}
Counted == {"reply", "dm"}  \* those whose sends the properties count
Spinners == {"replying", "dmSending", "searching", "profileSaving"}

Composer(handler) ==
    CASE handler.name = "postMessage" -> "post"
      [] handler.name = "placeZoneNote" -> "note"
      [] handler.name = "reply" -> "reply"
      [] handler.name = "sendDm" -> "dm"
      [] OTHER -> "none"

Spinner(handler) ==
    CASE handler.name = "reply" -> "replying"
      [] handler.name = "sendDm" -> "dmSending"
      [] handler.name = "runSearch" -> "searching"
      [] handler.name = "updateProfile" -> "profileSaving"
      [] OTHER -> "none"

(* What of a handler matters here: equal ones run alike.                   *)
Sends == {"/api/posts/publish", "/api/dms/send", "/api/zones/:zoneKey/mutations"}
Step(s) ==
    CASE s.do = "say" -> s.state
      [] s.do = "ask" /\ s.call.path \in Sends -> "send"
      [] OTHER -> s.do

Running(handler) ==
    [composer |-> Composer(handler), spinner |-> Spinner(handler), action |-> handler.action,
     left |-> [i \in DOMAIN handler.steps |-> Step(handler.steps[i])],
     own |-> Composer(handler) \in Counted, accepted |-> FALSE]

Free == Running(Handler("none", {}, {}, "none", <<>>))

(* Those with statuses a composer or a spinner is sensitive to.            *)
Actions == {"post", "zone", "message", "search", "profile"}
Heard == {h \in Handlers \cup {markConvoRead} : h.action = about}

ComposersTypeOK ==
    /\ about \in Actions
    /\ typed \subseteq Composers
    /\ spin \subseteq Spinners
    /\ \A l \in Lanes : lane[l].composer \in Composers \cup {"none"}
    /\ sent \in [Counted -> 0 .. 2]
    /\ excuse \subseteq Counted \cup Spinners
    /\ last \in Lanes \cup {"none", "others"}

ComposersInit ==
    /\ about \in Actions
    /\ typed = {} /\ spin = {}
    /\ lane = [l \in Lanes |-> Free]
    /\ sent = [c \in Counted |-> 0]
    /\ excuse = {}
    /\ last = "none"

Asking(l) == lane[l].left # <<>> /\ Head(lane[l].left) \in {"ask", "send"}

(* A handler runs without interruption from one call to the next.          *)
Awaiting == \A l \in Lanes : lane[l] = Free \/ Asking(l)

(* A new text in a composer that is empty; typing takes its time.          *)
Type(c) ==
    /\ Awaiting
    /\ c \notin typed /\ \E handler \in Heard : Composer(handler) = c
    /\ typed' = typed \cup {c}
    /\ sent' = [d \in Counted |-> IF d = c THEN 0 ELSE sent[d]]
    /\ excuse' = excuse \ {c}
    /\ lane' = [l \in Lanes |-> IF lane[l].composer = c
                                THEN [lane[l] EXCEPT !.own = FALSE] ELSE lane[l]]
    /\ last' = "none"
    /\ UNCHANGED <<about, spin>>

\* Mutant: a message can be sent while one is being sent.
IdleButDm(handler) == handler.name = "reply" => "replying" \notin spin

(* sendDm and sendReply look at their spinner; runSearch, saveProfile,     *)
(* submitPost and submitNote do not.                                       *)
Idle(handler) == handler.name \in {"reply", "sendDm"} => Spinner(handler) \notin spin

Click(l, handler) ==
    /\ Awaiting /\ lane[l] = Free
    /\ Dispatched(handler) /\ Idle(handler)
    /\ Composer(handler) \in typed \cup {"none"}
    /\ spin' = spin \cup ({Spinner(handler)} \ {"none"})
    /\ lane' = [lane EXCEPT ![l] = Running(handler)]
    /\ UNCHANGED <<about, typed, sent, excuse, last>>

Going(l, left, accepted) ==
    IF left = <<>> THEN Free ELSE [lane[l] EXCEPT !.left = left, !.accepted = accepted]

Once(l) ==
    IF Head(lane[l].left) = "send" /\ lane[l].own
    THEN [sent EXCEPT ![lane[l].composer] = IF @ = 2 THEN 2 ELSE @ + 1]
    ELSE sent

Took(l) == lane[l].accepted \/ sent' # sent

Elapsed(l) == last' = IF last = l THEN "none" ELSE last

(* An answer takes its time.  What a search found ends its spinner.        *)
Answer(l) ==
    /\ Awaiting /\ Asking(l)
    /\ sent' = Once(l)
    /\ lane' = [lane EXCEPT ![l] = Going(l, Tail(lane[l].left), Took(l))]
    /\ spin' = spin \ ({lane[l].spinner} \cap {"searching"})
    /\ Elapsed(l)
    /\ UNCHANGED <<about, typed, excuse>>

(* A call fails, or was accepted and its answer is lost.  The refresh of   *)
(* the town or of a zone at the end reports nothing.                       *)
Quiet(l) == lane[l].left = <<"ask">> /\ lane[l].composer \in {"post", "note"}

Fail(l) ==
    /\ Awaiting /\ Asking(l)
    /\ sent' \in {sent, Once(l)}
    /\ lane' = [lane EXCEPT ![l] = Going(l, IF Quiet(l) THEN <<>> ELSE <<"error">>, Took(l))]
    /\ Elapsed(l)
    /\ UNCHANGED <<about, typed, spin, excuse>>

-------------------------------------------------------------------------------
\* Mutant: only success ends the spinner of a reply.
EndedBySuccess(action, state) ==
    CASE action = "post" /\ state = "success" -> {"replying"}
      [] action = "message" /\ state # "busy" -> {"dmSending"}
      [] action = "search" /\ state # "busy" -> {"searching"}
      [] action = "profile" /\ state # "busy" -> {"profileSaving"}
      [] OTHER -> {}

(* The spinners and the texts that a status ends.                          *)
Ended(action, state) ==
    CASE action = "post" /\ state # "busy" -> {"replying"}
      [] action = "message" /\ state # "busy" -> {"dmSending"}
      [] action = "search" /\ state # "busy" -> {"searching"}
      [] action = "profile" /\ state # "busy" -> {"profileSaving"}
      [] OTHER -> {}

Cleared(action, state) ==
    CASE state # "success" -> {}
      [] action = "post" -> {"post", "reply"}
      [] action = "zone" -> {"note"}
      [] action = "message" -> {"dm"}
      [] OTHER -> {}

(* An error ends the spinner of a text that is on its way in another call, *)
(* or that was accepted.                                                   *)
Misled(l, state) ==
    {c \in Counted :
        /\ state = "error"
        /\ lane[l].composer # c \/ ~lane[l].own \/ lane[l].accepted
        /\ lane[l].action = IF c = "reply" THEN "post" ELSE "message"}

(* A status is ignored when the one handled before was said in the same    *)
(* millisecond.                                                            *)
StatusSaid(l) ==
    /\ lane[l].left # <<>> /\ Head(lane[l].left) \in {"busy", "success", "error"}
    /\ LET action == lane[l].action
           state == Head(lane[l].left)
       IN \/ /\ typed' = typed \ Cleared(action, state)
             /\ spin' = spin \ Ended(action, state)
             /\ excuse' = (excuse \ Ended(action, state)) \cup Misled(l, state)
             /\ last' = l
          \/ /\ last # "none"
             /\ excuse' = excuse \cup Ended(action, state) \cup (Cleared(action, state) \cap Counted)
             /\ UNCHANGED <<about, typed, spin, last>>
    /\ lane' = [lane EXCEPT ![l] = Going(l, Tail(lane[l].left), lane[l].accepted)]
    /\ UNCHANGED <<about, sent>>

(* The handler navigates: the interface stays as it is.                    *)
Leave(l) ==
    /\ lane[l].left # <<>> /\ Head(lane[l].left) = "go"
    /\ lane' = [lane EXCEPT ![l] = Going(l, Tail(lane[l].left), lane[l].accepted)]
    /\ UNCHANGED <<about, typed, spin, sent, excuse, last>>

(* A status of another action is handled.                                  *)
Others ==
    /\ Awaiting
    /\ last' = "others"
    /\ UNCHANGED <<about, typed, spin, lane, sent, excuse>>

ComposersNext ==
    \/ Others
    \/ \E c \in Composers : Type(c)
    \/ \E l \in Lanes : \/ \E handler \in Heard : Click(l, handler)
                        \/ Answer(l) \/ Fail(l) \/ StatusSaid(l) \/ Leave(l)

ComposersSpec == ComposersInit /\ [][ComposersNext]_composerVars

-------------------------------------------------------------------------------
(* A reply and a message are accepted once for each text that was typed,   *)
(* unless an error was said of the action: by another handler, or of a     *)
(* call that had been accepted.                                            *)
SentOnce == \A c \in Counted : sent[c] <= 1 \/ c \in excuse

(* A spinner that is on belongs to a handler that still runs, unless the   *)
(* status that ends it was said in the millisecond of another.             *)
SpinnerEnds ==
    \A s \in spin : s \in excuse \/ \E l \in Lanes : lane[l].spinner = s
===============================================================================

---------------------------- MODULE DirectMessages ----------------------------
(***************************************************************************)
(* Direct messages in two phases: POST /api/dms/prepare stores an encrypted *)
(* draft (DmDraftService.prepare), POST /api/dms/send loads it, has the     *)
(* chat service deliver it and deletes it, with an await after each.  The   *)
(* other chat routes pass one call to the chat service (ChatService): each  *)
(* sets or clears one property of the conversation.                         *)
(***************************************************************************)
EXTENDS FiniteSets, ServiceConstants

VARIABLES draft,      \* draft[d]: the row of dm_draft, "unused" if never drawn
          dmRequest,    \* request[r]: a send in flight
          delivered,  \* delivered[d]: how often the chat service delivered d
          answered,   \* drafts of which a send was answered with a message id
          excused,    \* drafts whose sends overlapped, or one of which went wrong
                      \* between delivery and answer
          convo       \* what the chat service holds for the actor

dmVars == <<draft, dmRequest, delivered, answered, excused, convo>>

IdleSend == [pc |-> "idle", draft |-> CHOOSE d \in Drafts : TRUE, late |-> FALSE]

(* The calls of ChatService besides sendMessage, and what they change.     *)
ChatCalls ==
    {[sets |-> "read", to |-> TRUE],                                   \* updateRead
     [sets |-> "reacted", to |-> TRUE], [sets |-> "reacted", to |-> FALSE], \* react
     [sets |-> "hidden", to |-> TRUE],                       \* deleteMessageForSelf
     [sets |-> "accepted", to |-> TRUE],                              \* acceptConvo
     [sets |-> "muted", to |-> TRUE], [sets |-> "muted", to |-> FALSE]} \* setMuteState
Properties == {c.sets : c \in ChatCalls}

DmTypeOK ==
    /\ draft \in [Drafts -> {"unused", "held", "expired", "consumed"}]
    /\ dmRequest \in [Requests -> [pc : {"idle", "load", "send", "consume", "answer"},
                                 draft : Drafts, late : BOOLEAN]]
    /\ delivered \in [Drafts -> 0..MaxDeliveries]
    /\ answered \in SUBSET Drafts
    /\ excused \in SUBSET Drafts
    /\ convo \in [Properties -> BOOLEAN]

DmInit ==
    /\ draft = [d \in Drafts |-> "unused"]
    /\ dmRequest = [r \in Requests |-> IdleSend]
    /\ delivered = [d \in Drafts |-> 0]
    /\ answered = {}
    /\ excused = {}
    /\ convo = [p \in Properties |-> FALSE]

Goto(r, pc) == dmRequest' = [dmRequest EXCEPT ![r].pc = pc]
Sending(d) == \E r \in Requests : dmRequest[r].pc # "idle" /\ dmRequest[r].draft = d

(* A draft that passes the checks of prepare; its revision is random.      *)
Prepare(d) ==
    /\ draft[d] = "unused"
    /\ draft' = [draft EXCEPT ![d] = "held"]
    /\ UNCHANGED <<dmRequest, delivered, answered, excused, convo>>

(* Ten minutes pass.                                                       *)
Expire(d) ==
    /\ draft[d] = "held"
    /\ draft' = [draft EXCEPT ![d] = "expired"]
    /\ UNCHANGED <<dmRequest, delivered, answered, excused, convo>>

(* late: the client was told before that the message had been sent.        *)
BeginSend(r, d) ==
    /\ dmRequest[r].pc = "idle"
    /\ dmRequest' = [dmRequest EXCEPT ![r] = [pc |-> "load", draft |-> d, late |-> d \in answered]]
    /\ excused' = IF Sending(d) THEN excused \cup {d} ELSE excused
    /\ UNCHANGED <<draft, delivered, answered, convo>>

Load(r) ==
    /\ dmRequest[r].pc = "load"
    /\ Goto(r, IF draft[dmRequest[r].draft] = "held" THEN "send" ELSE "idle")
    /\ UNCHANGED <<draft, delivered, answered, excused, convo>>

(* The message is delivered and answered, delivered without an answer (the *)
(* call times out after 8 s: 503), or refused.                             *)
Send(r) ==
    LET d == dmRequest[r].draft
    IN /\ dmRequest[r].pc = "send"
       /\ \/ /\ delivered[d] < MaxDeliveries
             /\ delivered' = [delivered EXCEPT ![d] = @ + 1]
             /\ \/ Goto(r, "consume") /\ UNCHANGED excused
                \/ Goto(r, "idle") /\ excused' = excused \cup {d}
          \/ Goto(r, "idle") /\ UNCHANGED <<delivered, excused>>
       /\ UNCHANGED <<draft, answered, convo>>

\* Mutant: the draft is left to expire.
ConsumeNothing(r) ==
    /\ dmRequest[r].pc = "consume"
    /\ Goto(r, "answer")
    /\ UNCHANGED <<draft, delivered, answered, excused, convo>>

Consume(r) ==
    LET d == dmRequest[r].draft
    IN /\ dmRequest[r].pc = "consume"
       /\ draft' = [draft EXCEPT ![d] = "consumed"]
       /\ Goto(r, "answer")
       /\ UNCHANGED <<delivered, answered, excused, convo>>

AnswerSend(r) ==
    /\ dmRequest[r].pc = "answer"
    /\ answered' = answered \cup {dmRequest[r].draft}
    /\ Goto(r, "idle")
    /\ UNCHANGED <<draft, delivered, excused, convo>>

(* A call of D1 fails or the isolate stops.                                *)
StopSend(r) ==
    /\ dmRequest[r].pc # "idle"
    /\ excused' = IF dmRequest[r].pc = "consume" THEN excused \cup {dmRequest[r].draft} ELSE excused
    /\ Goto(r, "idle")
    /\ UNCHANGED <<draft, delivered, answered, convo>>

(* Any other chat route: the call takes effect, whether answered or not,   *)
(* or does not.                                                            *)
Chat(c) ==
    /\ convo' = [convo EXCEPT ![c.sets] = c.to]
    /\ UNCHANGED <<draft, dmRequest, delivered, answered, excused>>

DmNext ==
    \/ \E d \in Drafts : Prepare(d) \/ Expire(d)
    \/ \E r \in Requests :
         \/ \E d \in Drafts : BeginSend(r, d)
         \/ Load(r) \/ Send(r) \/ Consume(r) \/ AnswerSend(r) \/ StopSend(r)
    \/ \E c \in ChatCalls : Chat(c)

DmSpec == DmInit /\ [][DmNext]_dmVars

(***************************************************************************)
(* A prepared message is delivered once however often its revision is sent *)
(* again, unless two sends overlap, a delivery is not answered, or a send  *)
(* stops before it has consumed the draft.  A send that begins after the   *)
(* client has seen a message id does not reach the chat service again,     *)
(* even then.                                                              *)
(***************************************************************************)
DeliveredOnce ==
    /\ \A d \in Drafts : delivered[d] > 1 => d \in excused
    /\ \A r \in Requests : dmRequest[r].late => dmRequest[r].pc \in {"idle", "load"}
===============================================================================

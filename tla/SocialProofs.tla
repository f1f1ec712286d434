---------------------------- MODULE SocialProofs ----------------------------
(***************************************************************************)
(* Proofs about what the town's members do to each other: SocialRecords,   *)
(* DirectMessages and TownFeed, one after the other.  The three share no   *)
(* state; each part begins with its argument.                              *)
(***************************************************************************)
EXTENDS SocialRecords, DirectMessages, TownFeed, TLAPS

-----------------------------------------------------------------------------
(***************************************************************************)
(* Proofs about SocialRecords for any number of requests and records.       *)
(* The invariant says, as long as no fault has happened, what one request   *)
(* knows of the record at each of its awaits: where it is listed the        *)
(* mapping is empty, where it creates there is no record, where it deletes  *)
(* it has found the only one.  The mapping names the only record, except     *)
(* for a like that was found under the old key; that is why a like outside   *)
(* the window of the listing is still found.                                *)
(***************************************************************************)

ActionPositions == {"idle", "map?", "list", "create", "map", "delete", "unmap", "done"}
ActionLocals == [pc : ActionPositions, on : BOOLEAN, found : Keys]

\* Follows never come near the mapping.
FollowsUnmapped ==
    socialKind = "follow" =>
        /\ mapping = 0
        /\ \A r \in Requests : socialRequest[r].pc \notin {"map?", "map", "unmap"}

\* One request at a time.
Single ==
    \A r, s \in Requests : socialRequest[r].pc # "idle" /\ socialRequest[s].pc # "idle" => r = s

AtMostOne == \A a, b \in records : a = b
Settled == answer <=> records # {}
Noted == IF mapping # 0 THEN records = {mapping} ELSE socialKind = "like" => records \subseteq {Legacy}

\* What a request that is past its search knows.
Knows(q) ==
    /\ q.pc \notin {"map", "unmap", "done"} => Settled
    /\ q.pc \notin {"map", "unmap"} => Noted
    /\ q.pc = "list" => mapping = 0
    /\ q.pc = "create" => q.on /\ records = {} /\ mapping = 0
    /\ q.pc = "map" => q.on /\ q.found # 0 /\ records = {q.found}
    /\ q.pc = "delete" => ~q.on /\ q.found # 0 /\ records = {q.found}
    /\ q.pc = "unmap" => ~q.on /\ records = {}
    /\ q.pc = "done" => (q.on <=> records # {})

\* Without a fault, the request in flight, or the idle state, knows the truth.
Faultless ==
    /\ Single
    /\ AtMostOne
    /\ ~Active => Settled /\ Noted
    /\ \A r \in Requests : socialRequest[r].pc # "idle" => Knows(socialRequest[r])

SocialInv == SocialTypeOK /\ FollowsUnmapped /\ (~fault => Faultless)

\* A like may be there from before, under the old key; nothing is in flight.
LEMMA SocialStarts == SocialInit => SocialInv
<1> SUFFICES ASSUME SocialInit PROVE SocialInv
  OBVIOUS
<1> USE MaxRecordsAssumption DEF SocialInit, SocialKinds
<1>1. IdleAction \in ActionLocals /\ IdleAction.pc = "idle"
  BY DEF IdleAction, ActionLocals, ActionPositions, Keys
<1>2. 0 \in Keys /\ 1 \in Keys /\ 1 # 0
  BY DEF Keys
<1>3. records \in SUBSET {Legacy} /\ Legacy \in Keys /\ Legacy # 0 /\ keysIssued \in Keys
  BY <1>2 DEF Legacy
<1>4. SocialTypeOK
  BY <1>1, <1>2, <1>3 DEF SocialTypeOK, ActionLocals, ActionPositions
<1>5. FollowsUnmapped
  BY <1>1 DEF FollowsUnmapped
<1>6. Faultless
  BY <1>1, <1>3 DEF Faultless, Single, AtMostOne, Settled, Noted
<1> QED
  BY <1>4, <1>5, <1>6 DEF SocialInv

\* The step of a request keeps the invariant if, without a fault, it was the
\* only one and knows the truth afterwards, or leaves the truth behind.
LEMMA ActionStep ==
    ASSUME SocialInv, NEW r \in Requests, NEW q \in ActionLocals,
           socialRequest' = [socialRequest EXCEPT ![r] = q],
           UNCHANGED <<socialKind, buried>>, fault' \in BOOLEAN, ~fault' => ~fault,
           records' \in SUBSET (Keys \ {0}), mapping' \in Keys, keysIssued' \in Keys, answer' \in BOOLEAN,
           socialKind = "follow" => mapping' = 0 /\ q.pc \notin {"map?", "map", "unmap"},
           ~fault' => /\ \A s \in Requests : s # r => socialRequest[s].pc = "idle"
                      /\ AtMostOne'
                      /\ q.pc = "idle" => Settled' /\ Noted'
                      /\ q.pc # "idle" => Knows(q)'
    PROVE  SocialInv'
<1> USE DEF SocialInv
<1>1. /\ socialRequest' \in [Requests -> ActionLocals] /\ socialRequest'[r] = q
      /\ \A s \in Requests : s # r => socialRequest'[s] = socialRequest[s]
  BY DEF SocialTypeOK, ActionLocals, ActionPositions
<1>2. SocialTypeOK'
  BY <1>1 DEF SocialTypeOK, ActionLocals, ActionPositions
<1>3. FollowsUnmapped'
  BY <1>1 DEF FollowsUnmapped
<1>4. ASSUME ~fault' PROVE Faultless'
  <2>1. \A s \in Requests : s # r => socialRequest'[s].pc = "idle"
    BY <1>1, <1>4
  <2>2. Single'
    BY <2>1 DEF Single
  <2>3. ~Active' => Settled' /\ Noted'
    BY <1>1, <1>4 DEF Active
  <2>4. ASSUME NEW s \in Requests, socialRequest'[s].pc # "idle" PROVE Knows(socialRequest[s])'
    <3>1. s = r /\ socialRequest'[s] = q
      BY <1>1, <2>1, <2>4
    <3>2. Knows(q)'
      BY <1>1, <1>4, <2>4, <3>1
    <3> QED
      BY <3>1, <3>2 DEF Knows
  <2> QED
    BY <1>4, <2>2, <2>3, <2>4 DEF Faultless
<1> QED
  BY <1>2, <1>3, <1>4

\* Without a fault, a request in flight is alone and knows the truth.
LEMMA InFlight ==
    ASSUME SocialInv, ~fault, NEW r \in Requests, socialRequest[r].pc # "idle"
    PROVE  /\ \A s \in Requests : s # r => socialRequest[s].pc = "idle"
           /\ AtMostOne /\ Knows(socialRequest[r])
BY DEF SocialInv, Faultless, Single

\* A request that only moves keeps the invariant if it knows the truth.
LEMMA MoveStep ==
    ASSUME SocialInv, NEW r \in Requests, socialRequest[r].pc # "idle", NEW p \in ActionPositions, NEW key \in Keys,
           Go(r, p, key), UNCHANGED <<socialKind, records, buried, mapping, keysIssued, answer>>,
           fault' \in BOOLEAN, ~fault' => ~fault,
           socialKind = "follow" => p \notin {"map?", "map", "unmap"},
           NEW q, q = [pc |-> p, on |-> socialRequest[r].on, found |-> key],
           ~fault' => /\ p = "idle" => Settled /\ Noted
                      /\ p # "idle" => Knows(q)
    PROVE  SocialInv'
<1>1. SocialTypeOK /\ (socialKind = "follow" => mapping = 0)
  BY DEF SocialInv, FollowsUnmapped
<1>2. socialRequest' = [socialRequest EXCEPT ![r] = q] /\ q \in ActionLocals /\ q.pc = p
  BY <1>1 DEF Go, SocialTypeOK, ActionLocals, ActionPositions
<1>3. ASSUME ~fault'
      PROVE  /\ \A s \in Requests : s # r => socialRequest[s].pc = "idle"
             /\ AtMostOne'
             /\ q.pc = "idle" => Settled' /\ Noted'
             /\ q.pc # "idle" => Knows(q)'
  <2>1. (\A s \in Requests : s # r => socialRequest[s].pc = "idle") /\ AtMostOne
    BY <1>3, InFlight
  <2>2. AtMostOne'
    BY <2>1 DEF AtMostOne
  <2>3. q.pc = "idle" => Settled' /\ Noted'
    BY <1>2, <1>3 DEF Settled, Noted
  <2>4. q.pc # "idle" => Knows(q)'
    BY <1>2, <1>3 DEF Knows, Settled, Noted
  <2> QED
    BY <2>1, <2>2, <2>3, <2>4
<1>4. /\ records' \in SUBSET (Keys \ {0}) /\ mapping' \in Keys /\ keysIssued' \in Keys
      /\ answer' \in BOOLEAN
  BY <1>1 DEF SocialTypeOK
<1>5. socialKind = "follow" => mapping' = 0 /\ q.pc \notin {"map?", "map", "unmap"}
  BY <1>1, <1>2
<1> QED
  BY <1>2, <1>3, <1>4, <1>5, ActionStep

\* A request that knows whether there is a record goes on to create or delete
\* it, or is done.
LEMMA DecideStep ==
    ASSUME SocialInv, NEW r \in Requests, socialRequest[r].pc \in {"map?", "list"}, NEW key \in Keys,
           Decide(r, key), UNCHANGED <<socialKind, records, buried, mapping, keysIssued, answer>>,
           fault' \in BOOLEAN, ~fault' => ~fault,
           ~fault' => IF key = 0 THEN records = {} /\ mapping = 0 ELSE records = {key}
    PROVE  SocialInv'
<1> DEFINE p == CASE socialRequest[r].on /\ key = 0 -> "create"
                  [] ~socialRequest[r].on /\ key # 0 -> "delete"
                  [] OTHER -> "done"
           q == [pc |-> p, on |-> socialRequest[r].on, found |-> key]
<1>1. Go(r, p, key)
  BY DEF Decide
<1>2. p \in {"create", "delete", "done"}
  OBVIOUS
<1>3. /\ p = "create" => socialRequest[r].on /\ key = 0
      /\ p = "delete" => ~socialRequest[r].on /\ key # 0
      /\ p = "done" => (socialRequest[r].on <=> key # 0)
  BY DEF SocialInv, SocialTypeOK
<1> HIDE DEF p
<1>4. ASSUME ~fault' PROVE Knows(q)
  <2>1. Settled /\ Noted
    BY <1>4, InFlight DEF Knows
  <2>2. q.pc = p /\ q.on = socialRequest[r].on /\ q.found = key
    OBVIOUS
  <2> HIDE DEF q
  <2>3. records # {} <=> key # 0
    BY <1>4
  <2> QED
    BY <1>2, <1>3, <1>4, <2>1, <2>2, <2>3 DEF Knows
<1>5. p \in ActionPositions /\ p # "idle" /\ p \notin {"map?", "map", "unmap"} /\ socialRequest[r].pc # "idle"
  BY <1>2 DEF ActionPositions
<1> HIDE DEF q
<1> QED
  BY <1>1, <1>4, <1>5, MoveStep DEF q

\* A new request has the actor to itself, or is blamed.
LEMMA BeginActionKeeps ==
    ASSUME SocialInv, NEW r \in Requests, NEW on \in BOOLEAN, BeginAction(r, on)
    PROVE  SocialInv'
<1> USE MaxRecordsAssumption DEF SocialInv
<1> DEFINE p == IF socialKind = "like" THEN "map?" ELSE "list"
<1>t. [pc |-> p, on |-> on, found |-> 0] \in ActionLocals
  BY DEF ActionLocals, ActionPositions, Keys
<1>0. PICK q \in ActionLocals : q = [pc |-> p, on |-> on, found |-> 0]
  BY <1>t
<1>1. /\ socialRequest' = [socialRequest EXCEPT ![r] = q] /\ socialRequest[r].pc = "idle"
      /\ fault' = (fault \/ Active)
      /\ UNCHANGED <<socialKind, records, buried, mapping, keysIssued, answer>>
  BY <1>0 DEF BeginAction, Blame
<1>2. q.pc = p /\ q.on = on /\ q.found = 0 /\ p \in {"map?", "list"}
      /\ (p = "list" => socialKind = "follow") /\ (socialKind = "follow" => p = "list")
  BY <1>0 DEF SocialTypeOK, SocialKinds
<1> HIDE DEF p
<1>3. fault' \in BOOLEAN /\ (~fault' => ~fault /\ ~Active)
  BY <1>1 DEF SocialTypeOK
<1>4. ASSUME ~fault'
      PROVE  /\ \A s \in Requests : s # r => socialRequest[s].pc = "idle"
             /\ AtMostOne' /\ Knows(q)'
  <2>1. ~fault /\ ~Active /\ AtMostOne /\ Settled /\ Noted
    BY <1>3, <1>4 DEF Faultless
  <2>2. AtMostOne' /\ Settled' /\ Noted'
    BY <1>1, <2>1 DEF AtMostOne, Settled, Noted
  <2>3. q.pc = "list" => mapping' = 0
    BY <1>1, <1>2 DEF FollowsUnmapped
  <2>4. Knows(q)'
    BY <1>2, <2>2, <2>3 DEF Knows
  <2> QED
    BY <2>1, <2>2, <2>4 DEF Active
<1>5. socialKind = "follow" => mapping' = 0 /\ q.pc \notin {"map?", "map", "unmap"}
  BY <1>1, <1>2 DEF FollowsUnmapped
<1> QED
  BY <1>1, <1>2, <1>3, <1>4, <1>5, ActionStep DEF SocialTypeOK

\* The mapping, if there is one, names the record.
LEMMA FindMappedKeeps == ASSUME SocialInv, NEW r \in Requests, FindMapped(r) PROVE SocialInv'
<1>1. /\ socialRequest[r].pc = "map?" /\ mapping \in Keys /\ fault \in BOOLEAN /\ 0 \in Keys
      /\ socialKind # "follow"
      /\ UNCHANGED <<socialKind, records, buried, mapping, keysIssued, answer, fault>>
  BY MaxRecordsAssumption DEF FindMapped, SocialInv, SocialTypeOK, Keys, FollowsUnmapped
<1>2. ~fault => Settled /\ Noted
  BY <1>1, InFlight DEF Knows
<1>3. CASE mapping # 0
  BY <1>1, <1>2, <1>3, DecideStep DEF FindMapped, Noted
<1>4. CASE mapping = 0
  <2> DEFINE q == [pc |-> "list", on |-> socialRequest[r].on, found |-> 0]
  <2>1. Go(r, "list", 0) /\ "list" \in ActionPositions
    BY <1>4 DEF FindMapped, ActionPositions
  <2>2. ~fault => Knows(q)
    BY <1>2, <1>4 DEF Knows
  <2> QED
    BY <1>1, <2>1, <2>2, MoveStep
<1> QED
  BY <1>3, <1>4

\* The listing, and for a like the old key, show the record, or the request
\* ends, or it is blamed for missing it.
LEMMA FindListedKeeps == ASSUME SocialInv, NEW r \in Requests, FindListed(r) PROVE SocialInv'
<1>1. /\ socialRequest[r].pc = "list" /\ fault \in BOOLEAN /\ 0 \in Keys /\ socialKind \in {"like", "follow"}
      /\ records \subseteq Keys \ {0} /\ Old \subseteq records
      /\ UNCHANGED <<socialKind, records, buried, mapping, keysIssued, answer>>
  BY MaxRecordsAssumption DEF FindListed, SocialInv, SocialTypeOK, Keys, SocialKinds, Old
<1>2. ~fault => Settled /\ Noted /\ mapping = 0 /\ AtMostOne
  BY <1>1, InFlight DEF Knows
<1>3. ASSUME NEW key \in Old \cup (records \ buried), Decide(r, key), UNCHANGED fault PROVE SocialInv'
  <2>1. key \in records /\ key \in Keys /\ key # 0
    BY <1>1
  <2>2. ~fault => records = {key}
    BY <1>2, <2>1 DEF AtMostOne
  <2> QED
    BY <1>1, <1>3, <2>1, <2>2, DecideStep
<1>4. ASSUME (records \ buried = {}) \/ socialKind = "follow", Decide(r, 0),
             Blame(IF socialKind = "like" THEN Old # {} ELSE records # {})
      PROVE  SocialInv'
  <2>1. fault' \in BOOLEAN /\ (~fault' => ~fault)
    BY <1>1, <1>4 DEF Blame
  <2>2. ASSUME ~fault' PROVE records = {} /\ mapping = 0
    <3>1. CASE socialKind = "like"
      <4>1. Old = {} /\ records \subseteq {Legacy}
        BY <1>2, <1>4, <2>2, <3>1 DEF Blame, Noted
      <4> QED
        BY <1>2, <2>1, <2>2, <3>1, <4>1 DEF Old
    <3>2. CASE socialKind = "follow"
      BY <1>2, <1>4, <2>1, <2>2, <3>2 DEF Blame
    <3> QED
      BY <1>1, <3>1, <3>2
  <2> QED
    BY <1>1, <1>4, <2>1, <2>2, DecideStep
<1>5. ASSUME Go(r, "idle", 0), UNCHANGED fault PROVE SocialInv'
  <2>1. "idle" \in ActionPositions
    BY DEF ActionPositions
  <2> QED
    BY <1>1, <1>2, <1>5, <2>1, MoveStep
<1> QED
  BY <1>3, <1>4, <1>5 DEF FindListed

\* A record is created where there was none.
LEMMA CreateKeeps == ASSUME SocialInv, NEW r \in Requests, Create(r) PROVE SocialInv'
<1> USE MaxRecordsAssumption DEF SocialInv
<1> DEFINE key == keysIssued + 1
           p == IF socialKind = "like" THEN "map" ELSE "done"
<1>t. [pc |-> p, on |-> socialRequest[r].on, found |-> key] \in ActionLocals
  BY DEF ActionLocals, ActionPositions, Keys, SocialTypeOK, Create
<1>0. PICK q \in ActionLocals : q = [pc |-> p, on |-> socialRequest[r].on, found |-> key]
  BY <1>t
<1>1. /\ socialRequest[r].pc = "create" /\ keysIssued < MaxRecords /\ keysIssued' = key
      /\ records' = records \cup {key} /\ socialRequest' = [socialRequest EXCEPT ![r] = q]
      /\ UNCHANGED <<socialKind, buried, mapping, answer, fault>>
  BY <1>0 DEF Create, Go
<1>2. key \in Keys /\ key # 0
  BY <1>1 DEF SocialTypeOK, Keys
<1> HIDE DEF key
<1>3. q.pc = p /\ q.on = socialRequest[r].on /\ q.found = key /\ p \in {"map", "done"}
      /\ (p = "map" <=> socialKind = "like")
  BY <1>0
<1> HIDE DEF p
<1>4. ASSUME ~fault'
      PROVE  /\ \A s \in Requests : s # r => socialRequest[s].pc = "idle"
             /\ AtMostOne' /\ Knows(q)'
  <2>1. /\ \A s \in Requests : s # r => socialRequest[s].pc = "idle"
        /\ socialRequest[r].on /\ records = {} /\ mapping = 0
    BY <1>1, <1>4, InFlight DEF Knows
  <2>2. records' = {key} /\ mapping' = 0
    BY <1>1, <2>1
  <2>3. AtMostOne'
    BY <2>2 DEF AtMostOne
  <2>4. q.pc = "done" => Noted'
    BY <1>1, <1>3, <2>2 DEF Noted, SocialTypeOK, SocialKinds
  <2>5. Knows(q)'
    BY <1>2, <1>3, <2>1, <2>2, <2>4 DEF Knows
  <2> QED
    BY <2>1, <2>3, <2>5
<1>5. socialKind = "follow" => mapping' = 0 /\ q.pc \notin {"map?", "map", "unmap"}
  BY <1>1, <1>3 DEF FollowsUnmapped
<1>6. records' \in SUBSET (Keys \ {0}) /\ mapping' \in Keys /\ keysIssued' \in Keys /\ answer' \in BOOLEAN
      /\ fault' \in BOOLEAN /\ (~fault' => ~fault) /\ q.pc # "idle"
  BY <1>1, <1>2, <1>3 DEF SocialTypeOK
<1> QED
  BY <1>1, <1>3, <1>4, <1>5, <1>6, ActionStep

\* The mapping is set to the one record, or cleared where there is none.
LEMMA MapKeeps ==
    ASSUME SocialInv, NEW r \in Requests, NoteMapping(r) \/ DropMapping(r)
    PROVE  SocialInv'
<1> USE MaxRecordsAssumption DEF SocialInv
<1> DEFINE key == IF socialRequest[r].pc = "map" THEN socialRequest[r].found ELSE 0
<1>t. [pc |-> "done", on |-> socialRequest[r].on, found |-> key] \in ActionLocals
  BY DEF SocialTypeOK, Keys, ActionLocals, ActionPositions
<1>0. PICK q \in ActionLocals : q = [pc |-> "done", on |-> socialRequest[r].on, found |-> key]
  BY <1>t
<1>1. /\ socialRequest[r].pc \in {"map", "unmap"} /\ mapping' = key
      /\ socialRequest' = [socialRequest EXCEPT ![r] = q]
      /\ UNCHANGED <<socialKind, records, buried, keysIssued, answer, fault>>
  BY <1>0 DEF NoteMapping, DropMapping, Go
<1>2. key \in Keys /\ q.pc = "done" /\ q.on = socialRequest[r].on
  BY <1>0 DEF SocialTypeOK, Keys
<1>3. socialKind # "follow"
  BY <1>1 DEF FollowsUnmapped
<1>4. ASSUME ~fault'
      PROVE  /\ \A s \in Requests : s # r => socialRequest[s].pc = "idle"
             /\ AtMostOne' /\ Knows(q)'
  <2>1. /\ \A s \in Requests : s # r => socialRequest[s].pc = "idle"
        /\ AtMostOne /\ Knows(socialRequest[r])
    BY <1>1, <1>4, InFlight
  <2>2. AtMostOne'
    BY <1>1, <2>1 DEF AtMostOne
  <2>3. Noted' /\ (q.on <=> records' # {})
    <3>1. CASE socialRequest[r].pc = "map"
      <4>1. socialRequest[r].on /\ records' = {mapping'} /\ mapping' # 0
        BY <1>1, <2>1, <3>1 DEF Knows
      <4> QED
        BY <1>2, <4>1 DEF Noted
    <3>2. CASE socialRequest[r].pc = "unmap"
      <4>1. ~socialRequest[r].on /\ records' = {} /\ mapping' = 0
        BY <1>1, <2>1, <3>2 DEF Knows
      <4> QED
        BY <1>2, <4>1 DEF Noted
    <3> QED
      BY <1>1, <3>1, <3>2
  <2>4. Knows(q)'
    BY <1>2, <2>3 DEF Knows
  <2> QED
    BY <2>1, <2>2, <2>4
<1> HIDE DEF key
<1>5. records' \in SUBSET (Keys \ {0}) /\ mapping' \in Keys /\ keysIssued' \in Keys /\ answer' \in BOOLEAN
      /\ fault' \in BOOLEAN /\ (~fault' => ~fault)
  BY <1>1, <1>2 DEF SocialTypeOK
<1> QED
  <2>1. q.pc # "idle" /\ (socialKind = "follow" => mapping' = 0 /\ q.pc \notin {"map?", "map", "unmap"})
    BY <1>2, <1>3
  <2> QED
    BY <1>1, <1>4, <1>5, <2>1, ActionStep

\* The only record is deleted, or the request is blamed for leaving it.
LEMMA DeleteRecordKeeps == ASSUME SocialInv, NEW r \in Requests, DeleteRecord(r) PROVE SocialInv'
<1> USE MaxRecordsAssumption DEF SocialInv
<1> DEFINE key == socialRequest[r].found
           p == IF socialKind = "like" THEN "unmap" ELSE "done"
<1>t. [pc |-> p, on |-> socialRequest[r].on, found |-> key] \in ActionLocals
  BY DEF SocialTypeOK, ActionLocals, ActionPositions
<1>0. PICK q \in ActionLocals : q = [pc |-> p, on |-> socialRequest[r].on, found |-> key]
  BY <1>t
<1>1. /\ socialRequest[r].pc = "delete" /\ socialRequest' = [socialRequest EXCEPT ![r] = q]
      /\ UNCHANGED <<socialKind, buried, mapping, keysIssued, answer>>
      /\ \/ records' = records \ {key} /\ UNCHANGED fault
         \/ fault' = (fault \/ key \in records) /\ UNCHANGED records
  BY <1>0 DEF DeleteRecord, Go, Blame
<1>2. /\ q.pc = p /\ q.on = socialRequest[r].on /\ p \in {"unmap", "done"}
      /\ (p = "unmap" <=> socialKind = "like")
  BY <1>0
<1> HIDE DEF p
<1>3. fault' \in BOOLEAN /\ (~fault' => ~fault)
  BY <1>1 DEF SocialTypeOK
<1>4. ASSUME ~fault'
      PROVE  /\ \A s \in Requests : s # r => socialRequest[s].pc = "idle"
             /\ AtMostOne' /\ Knows(q)'
  <2>1. /\ \A s \in Requests : s # r => socialRequest[s].pc = "idle"
        /\ ~socialRequest[r].on /\ records = {key}
    BY <1>1, <1>3, <1>4, InFlight DEF Knows
  <2>2. records' = {}
    BY <1>1, <1>4, <2>1
  <2>3. q.pc = "done" => Noted'
    <3>1. q.pc = "done" => socialKind = "follow" /\ mapping' = 0 /\ socialKind' = socialKind
      BY <1>1, <1>2 DEF FollowsUnmapped, SocialTypeOK, SocialKinds
    <3> QED
      BY <3>1 DEF Noted
  <2>4. AtMostOne' /\ Knows(q)'
    BY <1>2, <2>1, <2>2, <2>3 DEF AtMostOne, Knows
  <2> QED
    BY <2>1, <2>4
<1>5. socialKind = "follow" => mapping' = 0 /\ q.pc \notin {"map?", "map", "unmap"}
  BY <1>1, <1>2 DEF FollowsUnmapped
<1>6. records' \in SUBSET (Keys \ {0}) /\ mapping' \in Keys /\ keysIssued' \in Keys /\ answer' \in BOOLEAN
      /\ q.pc # "idle"
  BY <1>1, <1>2 DEF SocialTypeOK
<1> QED
  BY <1>1, <1>2, <1>3, <1>4, <1>5, <1>6, ActionStep

\* The answer says what is recorded; a request that ends without one after a
\* write is blamed.
LEMMA EndActionKeeps == ASSUME SocialInv, NEW r \in Requests, AnswerAction(r) \/ StopAction(r) PROVE SocialInv'
<1> USE MaxRecordsAssumption DEF SocialInv
<1>t. [pc |-> "idle", on |-> socialRequest[r].on, found |-> 0] \in ActionLocals
  BY DEF SocialTypeOK, Keys, ActionLocals, ActionPositions
<1>0. PICK q \in ActionLocals : q = [pc |-> "idle", on |-> socialRequest[r].on, found |-> 0]
  BY <1>t
<1>1. /\ socialRequest[r].pc # "idle" /\ socialRequest' = [socialRequest EXCEPT ![r] = q]
      /\ UNCHANGED <<socialKind, records, buried, mapping, keysIssued>>
      /\ \/ socialRequest[r].pc = "done" /\ answer' = socialRequest[r].on /\ UNCHANGED fault
         \/ UNCHANGED answer /\ fault' = (fault \/ socialRequest[r].pc \in {"map", "unmap", "done"})
  BY <1>0 DEF AnswerAction, StopAction, Go, Blame
<1>2. q.pc = "idle"
  BY <1>0
<1>3. fault' \in BOOLEAN /\ (~fault' => ~fault)
  <2>1. CASE fault' = fault
    BY <2>1 DEF SocialTypeOK
  <2>2. CASE fault' = (fault \/ socialRequest[r].pc \in {"map", "unmap", "done"})
    BY <2>2
  <2> QED
    BY <1>1, <2>1, <2>2
<1>4. ASSUME ~fault'
      PROVE  /\ \A s \in Requests : s # r => socialRequest[s].pc = "idle"
             /\ AtMostOne' /\ Settled' /\ Noted'
  <2>1. /\ \A s \in Requests : s # r => socialRequest[s].pc = "idle"
        /\ AtMostOne /\ Knows(socialRequest[r])
    BY <1>1, <1>3, <1>4, InFlight
  <2>2. AtMostOne'
    BY <1>1, <2>1 DEF AtMostOne
  <2>3. Settled'
    <3>1. CASE socialRequest[r].pc = "done" /\ answer' = socialRequest[r].on
      BY <1>1, <2>1, <3>1 DEF Knows, Settled
    <3>2. CASE answer' = answer /\ socialRequest[r].pc \notin {"map", "unmap", "done"}
      BY <1>1, <2>1, <3>2 DEF Knows, Settled
    <3> QED
      BY <1>1, <1>4, <3>1, <3>2
  <2>4. Noted'
    BY <1>1, <1>4, <2>1 DEF Knows, Noted
  <2> QED
    BY <2>1, <2>2, <2>3, <2>4
<1>5. records' \in SUBSET (Keys \ {0}) /\ mapping' \in Keys /\ keysIssued' \in Keys /\ answer' \in BOOLEAN
  BY <1>1 DEF SocialTypeOK
<1>6. socialKind = "follow" => mapping' = 0 /\ q.pc \notin {"map?", "map", "unmap"}
  BY <1>1, <1>2 DEF FollowsUnmapped
<1> QED
  BY <1>1, <1>2, <1>3, <1>4, <1>5, <1>6, ActionStep

\* Every step keeps the invariant.
LEMMA SocialStep == SocialInv /\ [SocialNext]_socialVars => SocialInv'
<1> SUFFICES ASSUME SocialInv, [SocialNext]_socialVars PROVE SocialInv'
  OBVIOUS
<1>1. ASSUME NEW r \in Requests, NEW on \in BOOLEAN, BeginAction(r, on) PROVE SocialInv'
  BY <1>1, BeginActionKeeps
<1>2. ASSUME NEW r \in Requests, FindMapped(r) PROVE SocialInv'
  BY <1>2, FindMappedKeeps
<1>3. ASSUME NEW r \in Requests, FindListed(r) PROVE SocialInv'
  BY <1>3, FindListedKeeps
<1>4. ASSUME NEW r \in Requests, Create(r) PROVE SocialInv'
  BY <1>4, CreateKeeps
<1>5. ASSUME NEW r \in Requests, NoteMapping(r) \/ DropMapping(r) PROVE SocialInv'
  BY <1>5, MapKeeps
<1>6. ASSUME NEW r \in Requests, DeleteRecord(r) PROVE SocialInv'
  BY <1>6, DeleteRecordKeeps
<1>7. ASSUME NEW r \in Requests, AnswerAction(r) \/ StopAction(r) PROVE SocialInv'
  BY <1>7, EndActionKeeps
<1>8. CASE DeleteElsewhere
  <2>1. fault' = TRUE /\ records' \in SUBSET (Keys \ {0}) /\ UNCHANGED <<socialKind, buried, mapping, keysIssued, answer, socialRequest>>
    BY <1>8 DEF DeleteElsewhere, Blame, SocialInv, SocialTypeOK
  <2> QED
    BY <2>1 DEF SocialInv, SocialTypeOK, FollowsUnmapped
<1>9. CASE Bury
  <2>1. buried' \in SUBSET (Keys \ {0}) /\ UNCHANGED <<socialKind, records, mapping, keysIssued, answer, fault, socialRequest>>
    BY <1>9 DEF Bury, SocialInv, SocialTypeOK
  <2> QED
    BY <2>1 DEF SocialInv, SocialTypeOK, FollowsUnmapped, Faultless, Single, AtMostOne, Active,
                Settled, Noted, Knows
<1>10. CASE UNCHANGED socialVars
  BY <1>10 DEF socialVars, SocialInv, SocialTypeOK, FollowsUnmapped, Faultless, Single,
       AtMostOne, Active,
               Settled, Noted, Knows
<1> QED
  BY <1>1, <1>2, <1>3, <1>4, <1>5, <1>6, <1>7, <1>8, <1>9, <1>10 DEF SocialNext

\* The invariant of reactions and follows.
THEOREM SocialSound == SocialSpec => []SocialInv
BY SocialStarts, SocialStep, PTL DEF SocialSpec

\* reactToPost and setFollowState: without overlap, refused deletion, stop
\* after a write or record missing from a follow's listing, there is one
\* record or none, as the last answer said; for any number of records.
THEOREM AnswersAreTrue == SocialSpec => []AnswerIsTruth
<1>1. SocialInv => AnswerIsTruth
  BY DEF SocialInv, Faultless, AtMostOne, Settled, AnswerIsTruth
<1> QED
  BY SocialSound, <1>1, PTL

-----------------------------------------------------------------------------
(***************************************************************************)
(* Proofs about DirectMessages for any number of drafts and requests.       *)
(* DeliveredOnce alone is not inductive: that a send does not deliver again  *)
(* depends on what the requests in flight and the draft rows say of earlier  *)
(* sends.  For a draft that is not excused, DmInv says that one request at   *)
(* most works on it; that a delivery is on its way to being consumed or has  *)
(* been; and that a request about to send has not been preceded by one.      *)
(***************************************************************************)

SendPositions == {"idle", "load", "send", "consume", "answer"}
SendLocals == [pc : SendPositions, draft : Drafts, late : BOOLEAN]

Works(r, d) == dmRequest[r].pc # "idle" /\ dmRequest[r].draft = d

\* Two requests that work on one draft excuse it.
Alone ==
    \A r, s \in Requests : \A d \in Drafts :
        r # s /\ Works(r, d) /\ Works(s, d) => d \in excused

\* What has been delivered is consumed, or about to be.
Counted ==
    \A d \in Drafts \ excused :
        /\ delivered[d] <= 1
        /\ delivered[d] = 0 \/ draft[d] = "consumed"
             \/ \E r \in Requests : Works(r, d) /\ dmRequest[r].pc = "consume"

\* A request past its load of a draft that is not excused is the first.
Unsent ==
    \A r \in Requests :
        dmRequest[r].pc = "send" /\ dmRequest[r].draft \notin excused =>
            delivered[dmRequest[r].draft] = 0

\* A client only sees the message id of a draft that has been consumed.
Seen ==
    /\ \A d \in answered : draft[d] = "consumed"
    /\ \A r \in Requests :
         /\ dmRequest[r].pc = "answer" => draft[dmRequest[r].draft] = "consumed"
         /\ dmRequest[r].late =>
              dmRequest[r].pc \in {"idle", "load"} /\ draft[dmRequest[r].draft] = "consumed"

DmInv == DmTypeOK /\ Alone /\ Counted /\ Unsent /\ Seen

\* Initially nothing is drawn, sent or in flight.
LEMMA DmStarts == DmInit => DmInv
<1> SUFFICES ASSUME DmInit PROVE DmInv
  OBVIOUS
<1> USE DeliveriesAssumption DEF DmInit
<1>1. IdleSend \in SendLocals /\ IdleSend.pc = "idle" /\ IdleSend.late = FALSE
  BY DEF IdleSend, SendLocals, SendPositions
<1>2. DmTypeOK
  BY <1>1 DEF DmTypeOK, SendLocals, SendPositions
<1> QED
  BY <1>1, <1>2 DEF DmInv, Alone, Counted, Unsent, Seen, Works

\* Moving one request changes nothing of the others, nor its draft.
LEMMA GotoFields ==
    ASSUME DmTypeOK, NEW r \in Requests, NEW p \in SendPositions, Goto(r, p)
    PROVE  /\ dmRequest' \in [Requests -> SendLocals]
           /\ dmRequest'[r].pc = p
           /\ \A s \in Requests : /\ dmRequest'[s].draft = dmRequest[s].draft
                                  /\ dmRequest'[s].late = dmRequest[s].late
                                  /\ s # r => dmRequest'[s] = dmRequest[s]
<1>1. dmRequest \in [Requests -> SendLocals]
  BY DEF DmTypeOK, SendLocals, SendPositions
<1> QED
  BY <1>1 DEF Goto, SendLocals

\* A send begins; if the draft is being sent already, it is excused.
LEMMA BeginSendKeeps == ASSUME DmInv, NEW r \in Requests, NEW d \in Drafts, BeginSend(r, d) PROVE DmInv'
<1> USE DEF DmInv
<1> DEFINE q == [pc |-> "load", draft |-> d, late |-> d \in answered]
<1>1. dmRequest \in [Requests -> SendLocals] /\ dmRequest' = [dmRequest EXCEPT ![r] = q] /\ q \in SendLocals
  BY DEF DmTypeOK, SendLocals, SendPositions, BeginSend
<1>2. q.pc = "load" /\ q.draft = d /\ q.late = (d \in answered) /\ dmRequest[r].pc = "idle"
  BY DEF BeginSend
<1> HIDE DEF q
<1>3. /\ dmRequest' \in [Requests -> SendLocals] /\ dmRequest'[r] = q
      /\ \A s \in Requests : s # r => dmRequest'[s] = dmRequest[s]
  BY <1>1
<1>4. UNCHANGED <<draft, delivered, answered, convo>> /\ excused \subseteq excused' /\ excused' \in SUBSET Drafts
  BY DEF BeginSend, DmTypeOK
<1>5. DmTypeOK'
  BY <1>3, <1>4 DEF DmTypeOK, SendLocals, SendPositions
<1>6. Alone'
  <2> SUFFICES ASSUME NEW s \in Requests, NEW t \in Requests, NEW e \in Drafts,
                      s # t, Works(s, e)', Works(t, e)'
               PROVE  e \in excused'
    BY DEF Alone
  <2>1. CASE s # r /\ t # r
    BY <1>3, <1>4, <2>1 DEF Alone, Works
  <2>2. CASE s = r
    <3>1. e = d /\ Works(t, d) /\ t # r
      BY <1>2, <1>3, <2>2 DEF Works
    <3> QED
      BY <3>1 DEF BeginSend, Sending, Works
  <2>3. CASE t = r
    <3>1. e = d /\ Works(s, d) /\ s # r
      BY <1>2, <1>3, <2>3 DEF Works
    <3> QED
      BY <3>1 DEF BeginSend, Sending, Works
  <2> QED
    BY <2>1, <2>2, <2>3
<1>7. Counted'
  <2> SUFFICES ASSUME NEW e \in Drafts, e \notin excused'
               PROVE  /\ delivered[e] <= 1
                      /\ delivered[e] = 0 \/ draft[e] = "consumed"
                           \/ \E s \in Requests : Works(s, e)' /\ dmRequest'[s].pc = "consume"
    BY <1>4 DEF Counted
  <2>1. e \in Drafts \ excused
    BY <1>4
  <2>2. ASSUME NEW s \in Requests, Works(s, e), dmRequest[s].pc = "consume"
        PROVE  Works(s, e)' /\ dmRequest'[s].pc = "consume"
    BY <1>2, <1>3, <2>2 DEF Works
  <2> QED
    BY <2>1, <2>2 DEF Counted
<1>8. Unsent'
  BY <1>2, <1>3, <1>4 DEF Unsent
<1>9. Seen'
  BY <1>2, <1>3, <1>4 DEF Seen
<1> QED
  BY <1>5, <1>6, <1>7, <1>8, <1>9

\* A request that loads its draft goes on only if the draft is there.
LEMMA LoadKeeps == ASSUME DmInv, NEW r \in Requests, Load(r) PROVE DmInv'
<1> USE DEF DmInv
<1> DEFINE p == IF draft[dmRequest[r].draft] = "held" THEN "send" ELSE "idle"
<1>1. p \in SendPositions /\ Goto(r, p) /\ dmRequest[r].pc = "load"
      /\ UNCHANGED <<draft, delivered, answered, excused, convo>>
  BY DEF Load, SendPositions
<1>2. /\ dmRequest' \in [Requests -> SendLocals] /\ dmRequest'[r].pc = p
      /\ \A s \in Requests : /\ dmRequest'[s].draft = dmRequest[s].draft
                             /\ dmRequest'[s].late = dmRequest[s].late
                             /\ s # r => dmRequest'[s] = dmRequest[s]
  BY <1>1, GotoFields
<1>3. DmTypeOK'
  BY <1>1, <1>2 DEF DmTypeOK, SendLocals, SendPositions
<1>4. \A s \in Requests, d \in Drafts : Works(s, d)' => Works(s, d)
  BY <1>1, <1>2 DEF Works
<1>5. Alone'
  BY <1>1, <1>4 DEF Alone
<1>6. Counted'
  <2>1. \A s \in Requests, d \in Drafts :
          Works(s, d) /\ dmRequest[s].pc = "consume" => Works(s, d)' /\ dmRequest'[s].pc = "consume"
    BY <1>1, <1>2 DEF Works
  <2> QED
    BY <1>1, <2>1 DEF Counted
<1>7. Unsent'
  <2> SUFFICES ASSUME NEW s \in Requests, dmRequest'[s].pc = "send", dmRequest'[s].draft \notin excused'
               PROVE  delivered'[dmRequest'[s].draft] = 0
    BY DEF Unsent
  <2>1. CASE s # r
    BY <1>1, <1>2, <2>1 DEF Unsent
  <2>2. CASE s = r
    <3> DEFINE d == dmRequest[r].draft
    <3>1. d \in Drafts \ excused /\ draft[d] = "held" /\ Works(r, d)
      BY <1>1, <1>2, <2>2 DEF DmTypeOK, Works
    <3>2. ASSUME NEW t \in Requests, Works(t, d) PROVE t = r
      BY <3>1, <3>2 DEF Alone
    <3>3. delivered[d] = 0
      BY <1>1, <3>1, <3>2 DEF Counted
    <3> QED
      BY <1>1, <1>2, <2>2, <3>3
  <2> QED
    BY <2>1, <2>2
<1>8. Seen'
  BY <1>1, <1>2 DEF Seen
<1> QED
  BY <1>3, <1>5, <1>6, <1>7, <1>8

\* A message is delivered, or refused, or delivered without an answer.
LEMMA SendKeeps == ASSUME DmInv, NEW r \in Requests, Send(r) PROVE DmInv'
<1> USE DEF DmInv
<1> DEFINE d == dmRequest[r].draft
<1>1. d \in Drafts /\ dmRequest[r].pc = "send" /\ Works(r, d) /\ UNCHANGED <<draft, answered, convo>>
  BY DEF Send, DmTypeOK, Works
<1>2. PICK p \in {"consume", "idle"} :
        /\ Goto(r, p)
        /\ p = "consume" => /\ delivered[d] < MaxDeliveries
                            /\ delivered' = [delivered EXCEPT ![d] = @ + 1]
                            /\ excused' = excused
        /\ p = "idle" =>
             \/ /\ delivered[d] < MaxDeliveries
                /\ delivered' = [delivered EXCEPT ![d] = @ + 1]
                /\ excused' = excused \cup {d}
             \/ UNCHANGED <<delivered, excused>>
  BY DEF Send
<1>3. /\ dmRequest' \in [Requests -> SendLocals] /\ dmRequest'[r].pc = p
      /\ \A s \in Requests : /\ dmRequest'[s].draft = dmRequest[s].draft
                             /\ dmRequest'[s].late = dmRequest[s].late
                             /\ s # r => dmRequest'[s] = dmRequest[s]
  BY <1>2, GotoFields DEF SendPositions
<1>4. /\ delivered' \in [Drafts -> 0..MaxDeliveries] /\ excused' \in SUBSET Drafts
      /\ excused \subseteq excused'
      /\ \A e \in Drafts : e # d => delivered'[e] = delivered[e]
      /\ d \notin excused' =>
           \/ delivered'[d] = delivered[d] + 1 /\ p = "consume"
           \/ delivered'[d] = delivered[d]
  BY <1>1, <1>2, DeliveriesAssumption DEF DmTypeOK
<1>5. DmTypeOK'
  BY <1>1, <1>3, <1>4 DEF DmTypeOK, SendLocals, SendPositions
<1>6. \A s \in Requests, e \in Drafts : Works(s, e)' => Works(s, e)
  BY <1>1, <1>3 DEF Works
<1>7. Alone'
  BY <1>4, <1>6 DEF Alone
<1>8. d \notin excused => delivered[d] = 0
  BY <1>1 DEF Unsent
<1>9. Counted'
  <2> SUFFICES ASSUME NEW e \in Drafts, e \notin excused'
               PROVE  /\ delivered'[e] <= 1
                      /\ delivered'[e] = 0 \/ draft'[e] = "consumed"
                           \/ \E s \in Requests : Works(s, e)' /\ dmRequest'[s].pc = "consume"
    BY DEF Counted
  <2>1. CASE e = d
    <3>1. delivered[d] = 0 /\ d \notin excused
      BY <1>4, <1>8, <2>1
    <3>2. CASE delivered'[d] = delivered[d] + 1 /\ p = "consume"
      <4>1. delivered'[d] = 1
        BY <3>1, <3>2
      <4>2. Works(r, e)' /\ dmRequest'[r].pc = "consume"
        BY <1>3, <2>1, <3>2 DEF Works
      <4>3. \E s \in Requests : Works(s, e)' /\ dmRequest'[s].pc = "consume"
        BY <4>2
      <4>4. delivered'[e] <= 1
        BY <2>1, <4>1
      <4> QED
        BY <4>3, <4>4
    <3>3. CASE delivered'[d] = delivered[d]
      BY <2>1, <3>1, <3>3
    <3> QED
      BY <1>4, <2>1, <3>1, <3>2, <3>3
  <2>2. CASE e # d
    <3>1. \A s \in Requests : Works(s, e) => s # r
      BY <2>2 DEF Works
    <3>2. \A s \in Requests : Works(s, e) /\ dmRequest[s].pc = "consume" => Works(s, e)' /\ dmRequest'[s].pc = "consume"
      BY <1>3, <3>1 DEF Works
    <3>3. delivered'[e] = delivered[e] /\ e \in Drafts \ excused /\ draft' = draft
      BY <1>1, <1>4, <2>2
    <3> QED
      BY <3>2, <3>3 DEF Counted
  <2> QED
    BY <2>1, <2>2
<1>10. Unsent'
  <2> SUFFICES ASSUME NEW s \in Requests, dmRequest'[s].pc = "send", dmRequest'[s].draft \notin excused'
               PROVE  delivered'[dmRequest'[s].draft] = 0
    BY DEF Unsent
  <2>1. s # r /\ dmRequest[s].pc = "send" /\ dmRequest[s].draft \notin excused /\ dmRequest[s].draft \in Drafts
    BY <1>2, <1>3, <1>4 DEF DmTypeOK
  <2>2. dmRequest[s].draft # d
    BY <1>1, <2>1 DEF Alone, Works
  <2> QED
    BY <1>3, <1>4, <2>1, <2>2 DEF Unsent
<1>11. Seen'
  BY <1>1, <1>2, <1>3 DEF Seen
<1> QED
  BY <1>5, <1>7, <1>9, <1>10, <1>11

\* Consuming the draft settles its delivery.
LEMMA ConsumeKeeps == ASSUME DmInv, NEW r \in Requests, Consume(r) PROVE DmInv'
<1> USE DEF DmInv
<1> DEFINE d == dmRequest[r].draft
<1>1. /\ d \in Drafts /\ dmRequest[r].pc = "consume" /\ Goto(r, "answer")
      /\ draft' = [draft EXCEPT ![d] = "consumed"]
      /\ UNCHANGED <<delivered, answered, excused, convo>>
  BY DEF Consume, DmTypeOK
<1>2. /\ dmRequest' \in [Requests -> SendLocals] /\ dmRequest'[r].pc = "answer"
      /\ \A s \in Requests : /\ dmRequest'[s].draft = dmRequest[s].draft
                             /\ dmRequest'[s].late = dmRequest[s].late
                             /\ s # r => dmRequest'[s] = dmRequest[s]
  BY <1>1, GotoFields DEF SendPositions
<1>3. /\ draft' \in [Drafts -> {"unused", "held", "expired", "consumed"}]
      /\ draft'[d] = "consumed"
      /\ \A e \in Drafts : e # d => draft'[e] = draft[e]
  BY <1>1 DEF DmTypeOK
<1>4. DmTypeOK'
  BY <1>1, <1>2, <1>3 DEF DmTypeOK, SendLocals, SendPositions
<1>5. \A s \in Requests, e \in Drafts : Works(s, e)' => Works(s, e)
  BY <1>1, <1>2 DEF Works
<1>6. Alone'
  BY <1>1, <1>5 DEF Alone
<1>7. Counted'
  <2> SUFFICES ASSUME NEW e \in Drafts, e \notin excused
               PROVE  /\ delivered[e] <= 1
                      /\ delivered[e] = 0 \/ draft'[e] = "consumed"
                           \/ \E s \in Requests : Works(s, e)' /\ dmRequest'[s].pc = "consume"
    BY <1>1 DEF Counted
  <2>1. CASE e = d
    BY <1>3, <2>1 DEF Counted
  <2>2. CASE e # d
    <3>1. \A s \in Requests : Works(s, e) /\ dmRequest[s].pc = "consume" => Works(s, e)' /\ dmRequest'[s].pc = "consume"
      BY <1>2, <2>2 DEF Works
    <3> QED
      BY <1>3, <2>2, <3>1 DEF Counted
  <2> QED
    BY <2>1, <2>2
<1>8. Unsent'
  BY <1>1, <1>2 DEF Unsent
<1>9. \A e \in Drafts : draft[e] = "consumed" => draft'[e] = "consumed"
  BY <1>3
<1>10. Seen'
  <2>1. \A e \in answered' : draft'[e] = "consumed"
    BY <1>1, <1>9 DEF Seen, DmTypeOK
  <2>2. ASSUME NEW s \in Requests
        PROVE  /\ dmRequest'[s].pc = "answer" => draft'[dmRequest'[s].draft] = "consumed"
               /\ dmRequest'[s].late =>
                    dmRequest'[s].pc \in {"idle", "load"} /\ draft'[dmRequest'[s].draft] = "consumed"
    <3>1. CASE s = r
      BY <1>1, <1>2, <1>3, <3>1 DEF Seen
    <3>2. CASE s # r
      <4>1. dmRequest[s].draft \in Drafts /\ dmRequest'[s] = dmRequest[s]
        BY <1>2, <3>2 DEF DmTypeOK
      <4> QED
        BY <1>9, <4>1 DEF Seen
    <3> QED
      BY <3>1, <3>2
  <2> QED
    BY <2>1, <2>2 DEF Seen
<1> QED
  BY <1>4, <1>6, <1>7, <1>8, <1>10

\* A request that ends, with or without an answer, leaves the rows alone; one
\* that ends between delivery and consumption excuses its draft.
LEMMA EndSendKeeps ==
    ASSUME DmInv, NEW r \in Requests, AnswerSend(r) \/ StopSend(r)
    PROVE  DmInv'
<1> USE DEF DmInv
<1> DEFINE d == dmRequest[r].draft
<1>1. /\ d \in Drafts /\ Goto(r, "idle") /\ UNCHANGED <<draft, delivered, convo>>
      /\ excused \subseteq excused' /\ excused' \in SUBSET Drafts
      /\ dmRequest[r].pc = "consume" => d \in excused'
      /\ \A e \in answered' : e \in answered \/ (e = d /\ dmRequest[r].pc = "answer")
      /\ answered' \in SUBSET Drafts
  BY DEF AnswerSend, StopSend, DmTypeOK
<1>2. /\ dmRequest' \in [Requests -> SendLocals] /\ dmRequest'[r].pc = "idle"
      /\ \A s \in Requests : /\ dmRequest'[s].draft = dmRequest[s].draft
                             /\ dmRequest'[s].late = dmRequest[s].late
                             /\ s # r => dmRequest'[s] = dmRequest[s]
  BY <1>1, GotoFields DEF SendPositions
<1>3. DmTypeOK'
  BY <1>1, <1>2 DEF DmTypeOK, SendLocals, SendPositions
<1>4. \A s \in Requests, e \in Drafts : Works(s, e)' => Works(s, e)
  BY <1>2 DEF Works
<1>5. Alone'
  BY <1>1, <1>4 DEF Alone
<1>6. Counted'
  <2> SUFFICES ASSUME NEW e \in Drafts, e \notin excused'
               PROVE  /\ delivered[e] <= 1
                      /\ delivered[e] = 0 \/ draft[e] = "consumed"
                           \/ \E s \in Requests : Works(s, e)' /\ dmRequest'[s].pc = "consume"
    BY <1>1 DEF Counted
  <2>1. \A s \in Requests : Works(s, e) /\ dmRequest[s].pc = "consume" => Works(s, e)' /\ dmRequest'[s].pc = "consume"
    BY <1>1, <1>2 DEF Works
  <2> QED
    BY <1>1, <2>1 DEF Counted
<1>7. Unsent'
  BY <1>1, <1>2 DEF Unsent
<1>8. Seen'
  BY <1>1, <1>2 DEF Seen
<1> QED
  BY <1>3, <1>5, <1>6, <1>7, <1>8

\* Drawing and expiring a draft touches only rows that are not consumed.
LEMMA RowKeeps ==
    ASSUME DmInv, NEW d \in Drafts, Prepare(d) \/ Expire(d)
    PROVE  DmInv'
<1> USE DEF DmInv
<1>1. /\ draft' \in [Drafts -> {"unused", "held", "expired", "consumed"}]
      /\ \A e \in Drafts : draft[e] = "consumed" => draft'[e] = "consumed"
      /\ UNCHANGED <<dmRequest, delivered, answered, excused, convo>>
  BY DEF Prepare, Expire, DmTypeOK
<1>2. DmTypeOK'
  BY <1>1 DEF DmTypeOK
<1>3. Alone' /\ Unsent'
  BY <1>1 DEF Alone, Unsent, Works
<1>4. Counted'
  BY <1>1 DEF Counted, Works
<1>5. Seen'
  BY <1>1 DEF Seen, DmTypeOK
<1> QED
  BY <1>2, <1>3, <1>4, <1>5

\* Every step keeps the invariant.
LEMMA DmStep == DmInv /\ [DmNext]_dmVars => DmInv'
<1> SUFFICES ASSUME DmInv, [DmNext]_dmVars PROVE DmInv'
  OBVIOUS
<1>1. ASSUME NEW d \in Drafts, Prepare(d) \/ Expire(d) PROVE DmInv'
  BY <1>1, RowKeeps
<1>2. ASSUME NEW r \in Requests, NEW d \in Drafts, BeginSend(r, d) PROVE DmInv'
  BY <1>2, BeginSendKeeps
<1>3. ASSUME NEW r \in Requests, Load(r) PROVE DmInv'
  BY <1>3, LoadKeeps
<1>4. ASSUME NEW r \in Requests, Send(r) PROVE DmInv'
  BY <1>4, SendKeeps
<1>5. ASSUME NEW r \in Requests, Consume(r) PROVE DmInv'
  BY <1>5, ConsumeKeeps
<1>6. ASSUME NEW r \in Requests, AnswerSend(r) \/ StopSend(r) PROVE DmInv'
  BY <1>6, EndSendKeeps
<1>7. ASSUME NEW c \in ChatCalls, Chat(c) PROVE DmInv'
  <2>1. convo' \in [Properties -> BOOLEAN]
    <3>1. c.to = TRUE \/ c.to = FALSE
      <4> HIDE DEF DmInv
      <4> QED
        BY DEF ChatCalls
    <3>2. c.to \in BOOLEAN
      BY <3>1
    <3> QED
      BY <1>7, <3>2 DEF Chat, DmInv, DmTypeOK
  <2> QED
    BY <1>7, <2>1 DEF Chat, DmInv, DmTypeOK, Alone, Counted, Unsent, Seen, Works
<1>8. CASE UNCHANGED dmVars
  BY <1>8 DEF dmVars, DmInv, DmTypeOK, Alone, Counted, Unsent, Seen, Works
<1> QED
  BY <1>1, <1>2, <1>3, <1>4, <1>5, <1>6, <1>7, <1>8 DEF DmNext

\* The invariant of prepared messages.
THEOREM DmSound == DmSpec => []DmInv
BY DmStarts, DmStep, PTL DEF DmSpec

\* POST /api/dms/send: for any number of retries, a prepared message is
\* delivered once unless its sends overlapped or one went wrong between
\* delivery and answer, and no send that begins after an answer delivers.
THEOREM MessagesDeliveredOnce == DmSpec => []DeliveredOnce
<1>1. DmInv => DeliveredOnce
  <2> SUFFICES ASSUME DmInv PROVE DeliveredOnce
    OBVIOUS
  <2>1. \A d \in Drafts : delivered[d] \in Nat
    BY DeliveriesAssumption DEF DmInv, DmTypeOK
  <2> QED
    BY <2>1 DEF DmInv, Counted, Seen, DeliveredOnce
<1> QED
  BY DmSound, <1>1, PTL

-----------------------------------------------------------------------------
(***************************************************************************)
(* Proofs about TownFeed for any number of posts and requests and any      *)
(* lives of the cached and the optimistic rows.  What a request may show   *)
(* of a deleted post depends on when things were read: FeedInv says of     *)
(* every copy of the cached row, stored or held by a request, that what it *)
(* lists was found by the search at its date or lost since; and of every   *)
(* request that what it shows already is excused.  Both survive whatever   *)
(* else happens, since dates only grow.                                    *)
(***************************************************************************)

\* What the search found, at the row's date or later.
CacheSound(c) ==
    /\ c.at <= now
    /\ \A p \in c.posts : p \in index \/ droppedAt[p] >= c.at

\* A request may show p without a search: it was live when it was listed,
\* or its optimistic row was.
Excused(q, p) == pds[p] = "deleted" => deletedAt[p] >= q.now \/ feedRow[p] > q.now

\* A request may show p because the search found it lately.
FoundLately(q, p) ==
    p \in index \/ droppedAt[p] + (IF q.stale THEN KeepFor ELSE FreshFor) > q.now

Listing == {"local", "choose", "search", "store"}

ReaderSound(q) ==
    /\ q.now <= now /\ CacheSound(q.cached)
    /\ q.pc = "store" => q.cached.at = q.now
    /\ q.pc # "answer" => ~q.stale
    /\ q.pc \in Listing \cup {"answer"} => q.due \subseteq q.shown
    /\ q.pc \in Listing => \A p \in q.shown : Excused(q, p)
    /\ q.pc = "answer" => \A p \in q.shown : Excused(q, p) \/ FoundLately(q, p)

FeedInv ==
    /\ FeedTypeOK /\ CacheSound(cache)
    /\ \A p \in Posts : droppedAt[p] <= now /\ feedRow[p] <= now + KeepFor
    /\ \A r \in Readers : ReaderSound(reader[r])

ReaderLocals ==
    [pc : {"idle", "rows", "local", "choose", "search", "store", "answer"},
     cached : CacheRows, now : Times, shown : SUBSET Posts, due : SUBSET Posts, stale : BOOLEAN]

LEMMA IdleReaderSound ==
    ASSUME FeedInv
    PROVE  IdleReader \in ReaderLocals /\ ReaderSound(IdleReader)
BY FeedAssumption
   DEF IdleReader, ReaderLocals, ReaderSound, CacheSound, NoRow, CacheRows, Times, Listing,
       FeedInv, FeedTypeOK

LEMMA NoRowTyped == NoRow \in CacheRows
BY FeedAssumption DEF NoRow, CacheRows, Times

LEMMA FeedStarts == FeedInit => FeedInv
<1> SUFFICES ASSUME FeedInit PROVE FeedInv
  OBVIOUS
<1>1. FeedTypeOK
  BY FeedAssumption DEF FeedInit, FeedTypeOK, Times, CacheRows, NoRow, IdleReader
<1>2. CacheSound(NoRow) /\ ReaderSound(IdleReader)
  BY FeedAssumption DEF FeedInit, CacheSound, NoRow, ReaderSound, IdleReader, Listing
<1> QED
  BY <1>1, <1>2, FeedAssumption DEF FeedInit, FeedInv

\* A step of one request, which may replace the cached row.
LEMMA ReaderStep ==
    ASSUME FeedInv, NEW r \in Readers, NEW s \in ReaderLocals, ReaderTo(r, s), RestOfFeed,
           ReaderSound(s), cache' \in CacheRows, CacheSound(cache')
    PROVE  FeedInv'
<1>1. reader' = [reader EXCEPT ![r] = s] /\ reader \in [Readers -> ReaderLocals]
  BY DEF ReaderTo, FeedInv, FeedTypeOK, ReaderLocals
<1>2. reader' \in [Readers -> ReaderLocals]
      /\ \A q \in Readers : reader'[q] = IF q = r THEN s ELSE reader[q]
  BY <1>1
<1>3. UNCHANGED <<now, pds, deletedAt, index, droppedAt, feedRow, writer>>
  BY DEF RestOfFeed
<1>4. FeedTypeOK'
  BY <1>2, <1>3 DEF FeedTypeOK, FeedInv, ReaderLocals
<1>5. \A q \in Readers : ReaderSound(reader'[q])
  BY <1>2 DEF FeedInv
<1>6. (\A q \in Readers : ReaderSound(reader[q]))'
  BY <1>3, <1>5 DEF ReaderSound, CacheSound, Excused, FoundLately
<1>7. CacheSound(cache)'
  BY <1>3 DEF CacheSound
<1> QED
  BY <1>3, <1>4, <1>6, <1>7 DEF FeedInv

LEMMA ReadCacheKeeps == ASSUME FeedInv, NEW r \in Readers, ReadCache(r) PROVE FeedInv'
<1> DEFINE s == [IdleReader EXCEPT !.pc = "rows", !.cached = cache,
                     !.due = {p \in Posts : feedRow[p] # 0 /\ pds[p] = "live"}]
<1>1. cache \in CacheRows /\ CacheSound(cache)
  BY DEF FeedInv, FeedTypeOK
<1>2. s \in ReaderLocals /\ ReaderSound(s)
  BY <1>1, IdleReaderSound DEF IdleReader, ReaderLocals, ReaderSound, Listing
<1>3. ReaderTo(r, s) /\ RestOfFeed /\ cache' = cache
  BY DEF ReadCache
<1> HIDE DEF s
<1> QED
  BY <1>1, <1>2, <1>3, ReaderStep

\* The fields of a request between two awaits.
LEMMA ReaderFields ==
    ASSUME FeedInv, NEW r \in Readers
    PROVE  /\ reader[r] \in ReaderLocals /\ ReaderSound(reader[r])
           /\ cache \in CacheRows /\ CacheSound(cache)
           /\ now \in Times /\ index \in SUBSET Posts
           /\ FreshFor \in Nat \ {0} /\ KeepFor \in Nat /\ FreshFor < KeepFor /\ MaxNow \in Nat
BY FeedAssumption DEF FeedInv, FeedTypeOK, ReaderLocals

LEMMA ReadRowsKeeps == ASSUME FeedInv, NEW r \in Readers, ReadRows(r) PROVE FeedInv'
<1> DEFINE unexpired == {p \in Posts : feedRow[p] > now}
           s == [reader[r] EXCEPT !.pc = "local", !.now = now, !.shown = unexpired,
                                  !.due = @ \cap unexpired]
<1>1. s \in ReaderLocals
  BY ReaderFields DEF ReaderLocals
<1>2. /\ s.pc = "local" /\ s.now = now /\ s.shown = unexpired /\ s.due \subseteq unexpired
      /\ s.cached = reader[r].cached /\ s.stale = reader[r].stale /\ reader[r].pc = "rows"
  BY ReaderFields DEF ReaderLocals, ReadRows
<1>3. \A p \in unexpired : Excused(s, p)
  BY <1>2 DEF Excused
<1>4. ReaderSound(s)
  <2>1. now <= now /\ CacheSound(reader[r].cached) /\ ~reader[r].stale
    BY <1>2, ReaderFields DEF ReaderSound, Times
  <2> HIDE DEF s, unexpired
  <2> QED
    BY <1>2, <1>3, <2>1 DEF ReaderSound, Listing
<1>5. ReaderTo(r, s) /\ RestOfFeed /\ cache' = cache
  BY DEF ReadRows
<1> HIDE DEF s
<1> QED
  BY <1>1, <1>4, <1>5, ReaderFields, ReaderStep

LEMMA ReadLocalKeeps == ASSUME FeedInv, NEW r \in Readers, ReadLocal(r) PROVE FeedInv'
<1>1. PICK listed \in SUBSET {p \in Posts : pds[p] = "live"} :
        ReaderTo(r, [reader[r] EXCEPT !.pc = "choose", !.shown = @ \cup listed])
  BY DEF ReadLocal
<1> DEFINE s == [reader[r] EXCEPT !.pc = "choose", !.shown = @ \cup listed]
<1>2. /\ s \in ReaderLocals /\ s.pc = "choose" /\ s.now = reader[r].now /\ s.due = reader[r].due
      /\ s.shown = reader[r].shown \cup listed /\ s.cached = reader[r].cached
      /\ s.stale = reader[r].stale /\ reader[r].pc = "local"
  BY ReaderFields DEF ReaderLocals, ReadLocal
<1>3. \A p \in s.shown : Excused(s, p)
  BY <1>2, ReaderFields DEF Excused, ReaderSound, Listing
<1>4. ReaderSound(s)
  BY <1>2, <1>3, ReaderFields DEF ReaderSound, Listing
<1>5. ReaderTo(r, s) /\ RestOfFeed /\ cache' = cache
  BY <1>1 DEF ReadLocal
<1> HIDE DEF s
<1> QED
  BY <1>2, <1>4, <1>5, ReaderFields, ReaderStep

\* An answer that adds what a sound row of age less than the allowed one lists.
LEMMA AnswerSound ==
    ASSUME FeedInv, NEW q \in ReaderLocals, NEW s \in ReaderLocals, ReaderSound(q),
           q.pc \in Listing, s.pc = "answer", s.now = q.now, s.due = q.due, s.cached = NoRow,
           NEW c \in CacheRows, CacheSound(c), s.shown \subseteq q.shown \cup c.posts,
           q.shown \subseteq s.shown,
           c.at + (IF s.stale THEN KeepFor ELSE FreshFor) > q.now \/ s.shown = q.shown
    PROVE  ReaderSound(s)
<1>1. CacheSound(NoRow)
  BY FeedAssumption DEF CacheSound, NoRow, FeedInv, FeedTypeOK, Times
<1>2. ASSUME NEW p \in s.shown PROVE Excused(s, p) \/ FoundLately(s, p)
  <2>1. CASE p \in q.shown
    BY <2>1 DEF ReaderSound, Excused
  <2>2. CASE p \notin q.shown
    <3>1. p \in c.posts /\ p \in Posts /\ c.at + (IF s.stale THEN KeepFor ELSE FreshFor) > q.now
      BY <1>2, <2>2 DEF CacheRows
    <3>2. p \in index \/ droppedAt[p] >= c.at
      BY <3>1 DEF CacheSound
    <3>3. /\ droppedAt[p] \in Nat /\ c.at \in Nat /\ q.now \in Nat
          /\ (IF s.stale THEN KeepFor ELSE FreshFor) \in Nat
      BY <3>1, FeedAssumption DEF FeedInv, FeedTypeOK, Times, CacheRows, ReaderLocals
    <3> QED
      BY <3>1, <3>2, <3>3 DEF FoundLately
  <2> QED
    BY <2>1, <2>2
<1> QED
  BY <1>1, <1>2 DEF ReaderSound, Listing

LEMMA ServeFreshKeeps == ASSUME FeedInv, NEW r \in Readers, ServeFresh(r) PROVE FeedInv'
<1> DEFINE q == reader[r]
<1>1. q \in ReaderLocals /\ ReaderSound(q) /\ q.pc = "choose"
      /\ q.cached \in CacheRows /\ CacheSound(q.cached) /\ ~q.stale
  BY ReaderFields DEF ServeFresh, ReaderSound, ReaderLocals
<1>2. CASE Fresh(q.cached, q.now)
  <2> DEFINE s == [q EXCEPT !.pc = "answer", !.cached = NoRow, !.shown = @ \cup q.cached.posts]
  <2>1. /\ s \in ReaderLocals /\ s.pc = "answer" /\ s.now = q.now /\ s.due = q.due
        /\ s.cached = NoRow /\ s.shown = q.shown \cup q.cached.posts /\ s.stale = q.stale
    BY <1>1, NoRowTyped DEF ReaderLocals, CacheRows
  <2>2. ReaderTo(r, s) /\ RestOfFeed /\ cache' = cache
    BY <1>2 DEF ServeFresh
  <2>3. ReaderSound(s)
    <3> HIDE DEF s
    <3> QED
      BY <1>1, <1>2, <2>1, AnswerSound DEF Fresh, Listing
  <2> HIDE DEF s
  <2> QED
    BY <2>1, <2>2, <2>3, ReaderFields, ReaderStep
<1>3. CASE ~Fresh(q.cached, q.now)
  <2> DEFINE s == [q EXCEPT !.pc = "search"]
  <2>1. s \in ReaderLocals /\ ReaderSound(s)
    BY <1>1 DEF ReaderLocals, ReaderSound, Listing, Excused
  <2>2. ReaderTo(r, s) /\ RestOfFeed /\ cache' = cache
    BY <1>3 DEF ServeFresh
  <2> HIDE DEF s
  <2> QED
    BY <2>1, <2>2, ReaderFields, ReaderStep
<1> QED
  BY <1>2, <1>3

\* The row is dated when the request read the clock, and the search answers later.
LEMMA SearchKeeps == ASSUME FeedInv, NEW r \in Readers, Search(r) PROVE FeedInv'
<1> DEFINE found == [held |-> TRUE, posts |-> index, at |-> reader[r].now]
           s == [reader[r] EXCEPT !.pc = "store", !.cached = found]
<1>1. found \in CacheRows /\ CacheSound(found) /\ found.at = reader[r].now
  BY ReaderFields DEF CacheRows, CacheSound, ReaderLocals, ReaderSound
<1>2. /\ s \in ReaderLocals /\ s.pc = "store" /\ s.now = reader[r].now /\ s.due = reader[r].due
      /\ s.shown = reader[r].shown /\ s.cached = found /\ s.stale = reader[r].stale
      /\ reader[r].pc = "search"
  BY <1>1, ReaderFields DEF ReaderLocals, Search
<1>3. ReaderSound(s)
  BY <1>1, <1>2, ReaderFields DEF ReaderSound, Listing, Excused
<1>4. ReaderTo(r, s) /\ RestOfFeed /\ cache' = cache
  BY DEF Search
<1> HIDE DEF s
<1> QED
  BY <1>2, <1>3, <1>4, ReaderFields, ReaderStep

LEMMA StoreKeeps == ASSUME FeedInv, NEW r \in Readers, Store(r) PROVE FeedInv'
<1> DEFINE q == reader[r]
           s == [q EXCEPT !.pc = "answer", !.cached = NoRow, !.shown = @ \cup q.cached.posts]
<1>1. q \in ReaderLocals /\ ReaderSound(q) /\ q.pc = "store" /\ q.cached \in CacheRows
      /\ CacheSound(q.cached) /\ ~q.stale /\ q.cached.at = q.now /\ q.now \in Nat
  BY ReaderFields DEF Store, ReaderSound, ReaderLocals, Times
<1>2. /\ s \in ReaderLocals /\ s.pc = "answer" /\ s.now = q.now /\ s.due = q.due
      /\ s.cached = NoRow /\ s.shown = q.shown \cup q.cached.posts /\ s.stale = q.stale
  BY <1>1, NoRowTyped DEF ReaderLocals, CacheRows
<1>3. ReaderTo(r, s) /\ RestOfFeed /\ cache' = q.cached
  BY DEF Store
<1>4. q.cached.at + FreshFor > q.now
  BY <1>1, FeedAssumption
<1>5. ReaderSound(s)
  <2> HIDE DEF s
  <2> QED
    BY <1>1, <1>2, <1>4, AnswerSound DEF Listing
<1> HIDE DEF s
<1> QED
  BY <1>1, <1>2, <1>3, <1>5, ReaderStep

LEMMA ServeStaleKeeps == ASSUME FeedInv, NEW r \in Readers, ServeStale(r) PROVE FeedInv'
<1> DEFINE q == reader[r]
<1>1. q \in ReaderLocals /\ ReaderSound(q) /\ q.pc = "search" /\ q.cached \in CacheRows
      /\ CacheSound(q.cached) /\ cache' = cache /\ RestOfFeed
  BY ReaderFields DEF ServeStale, ReaderSound, ReaderLocals
<1>2. CASE Usable(q.cached, q.now)
  <2> DEFINE s == [q EXCEPT !.pc = "answer", !.stale = TRUE, !.cached = NoRow,
                            !.shown = @ \cup q.cached.posts]
  <2>1. /\ s \in ReaderLocals /\ s.pc = "answer" /\ s.now = q.now /\ s.due = q.due
        /\ s.cached = NoRow /\ s.shown = q.shown \cup q.cached.posts /\ s.stale
    BY <1>1, NoRowTyped DEF ReaderLocals, CacheRows
  <2>2. ReaderTo(r, s)
    BY <1>2 DEF ServeStale
  <2>3. ReaderSound(s)
    <3> HIDE DEF s
    <3> QED
      BY <1>1, <1>2, <2>1, AnswerSound DEF Usable, Listing
  <2> HIDE DEF s
  <2> QED
    BY <1>1, <2>1, <2>2, <2>3, ReaderFields, ReaderStep
<1>3. CASE ~Usable(q.cached, q.now) /\ q.shown # {}
  <2> DEFINE s == [q EXCEPT !.pc = "answer", !.stale = TRUE, !.cached = NoRow]
  <2>1. /\ s \in ReaderLocals /\ s.pc = "answer" /\ s.now = q.now /\ s.due = q.due
        /\ s.cached = NoRow /\ s.shown = q.shown /\ s.stale
    BY <1>1, NoRowTyped DEF ReaderLocals
  <2>2. ReaderTo(r, s)
    BY <1>3 DEF ServeStale
  <2>3. ReaderSound(s)
    <3> HIDE DEF s
    <3> QED
      BY <1>1, <2>1, AnswerSound DEF Listing
  <2> HIDE DEF s
  <2> QED
    BY <1>1, <2>1, <2>2, <2>3, ReaderFields, ReaderStep
<1>4. CASE ~Usable(q.cached, q.now) /\ q.shown = {}
  <2>1. ReaderTo(r, IdleReader)
    BY <1>4 DEF ServeStale
  <2> QED
    BY <1>1, <2>1, IdleReaderSound, ReaderFields, ReaderStep
<1> QED
  BY <1>2, <1>3, <1>4

\* Whatever else happens, dates only grow.
LEMMA WorldStep ==
    ASSUME FeedInv, FeedTypeOK', UNCHANGED reader, now <= now',
           cache' = cache \/ cache' = NoRow,
           \A p \in Posts :
             /\ p \in index => p \in index' \/ droppedAt'[p] = now
             /\ droppedAt[p] <= droppedAt'[p] /\ droppedAt'[p] <= now
             /\ feedRow[p] <= feedRow'[p] /\ feedRow'[p] <= now + KeepFor
             /\ pds'[p] = "deleted" =>
                  (pds[p] = "deleted" /\ deletedAt'[p] = deletedAt[p]) \/ deletedAt'[p] = now
    PROVE  FeedInv'
<1> USE FeedAssumption
<1>1. /\ now \in Nat /\ now' \in Nat
      /\ \A p \in Posts : /\ droppedAt[p] \in Nat /\ droppedAt'[p] \in Nat /\ feedRow[p] \in Nat
                          /\ feedRow'[p] \in Nat /\ deletedAt[p] \in Nat /\ deletedAt'[p] \in Nat
  BY DEF FeedInv, FeedTypeOK, Times
<1>2. ASSUME NEW c \in CacheRows, CacheSound(c) PROVE CacheSound(c)'
  <2>1. c.at \in Nat /\ c.at <= now' /\ c.posts \subseteq Posts
    BY <1>1, <1>2 DEF CacheSound, CacheRows, Times
  <2>2. ASSUME NEW p \in c.posts PROVE p \in index' \/ droppedAt'[p] >= c.at
    BY <1>1, <1>2, <2>1, <2>2 DEF CacheSound
  <2> QED
    BY <2>1, <2>2 DEF CacheSound
<1>3. CacheSound(cache)'
  <2>1. CacheSound(NoRow)'
    BY <1>1 DEF CacheSound, NoRow
  <2>2. cache \in CacheRows /\ CacheSound(cache)
    BY DEF FeedInv, FeedTypeOK
  <2>3. cache' = cache => CacheSound(cache)'
    BY <1>2, <2>2 DEF CacheSound
  <2> QED
    BY <2>1, <2>3 DEF CacheSound
<1>4. ASSUME NEW q \in ReaderLocals, ReaderSound(q) PROVE ReaderSound(q)'
  <2>1. q.now \in Nat /\ q.now <= now /\ q.shown \subseteq Posts /\ q.cached \in CacheRows
    BY <1>4 DEF ReaderLocals, ReaderSound, Times
  <2>2. ASSUME NEW p \in q.shown, Excused(q, p) PROVE Excused(q, p)'
    BY <1>1, <2>1, <2>2 DEF Excused
  <2>3. ASSUME NEW p \in q.shown, FoundLately(q, p) PROVE FoundLately(q, p)'
    BY <1>1, <2>1, <2>3 DEF FoundLately
  <2>4. CacheSound(q.cached)' /\ q.now <= now'
    BY <1>1, <1>2, <1>4, <2>1 DEF ReaderSound
  <2> QED
    BY <1>4, <2>2, <2>3, <2>4 DEF ReaderSound
<1>5. ASSUME NEW r \in Readers PROVE ReaderSound(reader[r])'
  <2>1. reader[r] \in ReaderLocals /\ ReaderSound(reader[r])
    BY ReaderFields
  <2>2. PICK q \in ReaderLocals : q = reader[r] /\ q = reader'[r]
    BY <2>1
  <2>3. ReaderSound(q)'
    BY <1>4, <2>1, <2>2
  <2> QED
    BY <2>2, <2>3 DEF ReaderSound, CacheSound, Excused, FoundLately
<1> QED
  BY <1>1, <1>3, <1>5 DEF FeedInv

LEMMA FeedStep == FeedInv /\ [FeedNext]_feedVars => FeedInv'
<1> SUFFICES ASSUME FeedInv, [FeedNext]_feedVars PROVE FeedInv'
  OBVIOUS
<1> USE FeedAssumption
<1>1. /\ FeedTypeOK /\ now \in Times /\ now <= now /\ CacheSound(cache)
      /\ \A p \in Posts : /\ droppedAt[p] \in Times /\ droppedAt[p] <= now
                          /\ feedRow[p] \in Nat /\ feedRow[p] <= now + KeepFor
  BY DEF FeedInv, FeedTypeOK, Times
<1>2. ASSUME NEW p \in Posts, CreatePost(p) \/ DeletePost(p) \/ DropCache(p) \/ WriterDies(p)
                              \/ IndexPost(p)
      PROVE  FeedInv'
  <2>1. FeedTypeOK'
    BY <1>1, <1>2, NoRowTyped DEF FeedTypeOK, CreatePost, DeletePost, DropCache, WriterDies,
                                  IndexPost
  <2> QED
    BY <1>1, <1>2, <2>1, WorldStep
       DEF FeedTypeOK, CreatePost, DeletePost, DropCache, WriterDies, IndexPost, Times
<1>3. ASSUME NEW p \in Posts, Finalize(p) PROVE FeedInv'
  <2>1. FeedTypeOK'
    BY <1>1, <1>3 DEF FeedTypeOK, Finalize, NoRow, CacheRows, Times
  <2>2. \A o \in Posts : feedRow'[o] = IF o = p THEN now + KeepFor ELSE feedRow[o]
    BY <1>1, <1>3 DEF FeedTypeOK, Finalize
  <2> QED
    BY <1>1, <1>3, <2>1, <2>2, WorldStep DEF FeedTypeOK, Finalize, Times
<1>4. ASSUME NEW p \in Posts, UnindexPost(p) PROVE FeedInv'
  <2>1. FeedTypeOK'
    BY <1>1, <1>4 DEF FeedTypeOK, UnindexPost, Times
  <2>2. /\ \A o \in Posts : droppedAt'[o] = IF o = p THEN now ELSE droppedAt[o]
        /\ index' = index \ {p}
    BY <1>1, <1>4 DEF FeedTypeOK, UnindexPost
  <2> QED
    BY <1>1, <1>4, <2>1, <2>2, WorldStep DEF FeedTypeOK, UnindexPost, Times
<1>5. CASE Tick
  <2>1. FeedTypeOK' /\ now <= now'
    BY <1>1, <1>5 DEF FeedTypeOK, Tick, Times
  <2> QED
    BY <1>1, <1>5, <2>1, WorldStep DEF FeedTypeOK, Tick, Times
<1>6. ASSUME NEW r \in Readers,
             \/ ReadCache(r) \/ ReadRows(r) \/ ReadLocal(r) \/ ServeFresh(r)
             \/ Search(r) \/ Store(r) \/ ServeStale(r)
      PROVE  FeedInv'
  BY <1>6, ReadCacheKeeps, ReadRowsKeeps, ReadLocalKeeps, ServeFreshKeeps, SearchKeeps,
     StoreKeeps, ServeStaleKeeps
<1>7. ASSUME NEW r \in Readers, Answer(r) PROVE FeedInv'
  BY <1>7, IdleReaderSound, ReaderFields, ReaderStep DEF Answer
<1>8. CASE UNCHANGED feedVars
  <2>1. FeedTypeOK'
    BY <1>1, <1>8 DEF FeedTypeOK, feedVars
  <2> QED
    BY <1>1, <1>8, <2>1, WorldStep DEF FeedTypeOK, feedVars, Times
<1> QED
  BY <1>2, <1>3, <1>4, <1>5, <1>6, <1>7, <1>8 DEF FeedNext

(***************************************************************************)
(* At every moment the cached row and every request in flight know no more *)
(* of the feed than FeedInv allows (AtprotoService.getTownFeed).           *)
(***************************************************************************)
THEOREM FeedSound == FeedSpec => []FeedInv
<1>1. FeedInit => FeedInv
  BY FeedStarts
<1>2. FeedInv /\ [FeedNext]_feedVars => FeedInv'
  BY FeedStep
<1> QED
  BY <1>1, <1>2, PTL DEF FeedSpec

(***************************************************************************)
(* A request that starts after a post's publication has finished shows it  *)
(* until the optimistic row expires, whatever search and cache say, for    *)
(* any number of concurrent requests, publications and deletions           *)
(* (AtprotoService.getTownFeed and mergeFeed).                             *)
(***************************************************************************)
THEOREM PublishedIsShown == FeedSpec => []PublishedShown
<1>1. FeedInv => PublishedShown
  BY DEF FeedInv, PublishedShown, ReaderSound
<1> QED
  BY <1>1, FeedSound, PTL

(***************************************************************************)
(* A deleted post goes within a bounded time: a reader that fills the      *)
(* cache after a deletion has dropped it cannot extend the time, because   *)
(* the row is dated before its search was made (AtprotoService.getTownFeed,*)
(* deleteOwnPost).                                                         *)
(***************************************************************************)
THEOREM DeletedIsBounded == FeedSpec => []DeletedBounded
<1>1. FeedInv => DeletedBounded
  BY DEF FeedInv, DeletedBounded, ReaderSound, Excused, FoundLately
<1> QED
  BY <1>1, FeedSound, PTL
=============================================================================

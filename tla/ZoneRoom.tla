------------------------------- MODULE ZoneRoom -------------------------------
(***************************************************************************)
(* The ZoneRoom Durable Object: one zone's SQLite storage (version counter,*)
(* objects, per-minute rate buckets), the mutation handler, and the        *)
(* WebSockets it broadcasts to.                                            *)
(*                                                                         *)
(* The handler runs without an await from the version check to the         *)
(* broadcast, so no other handler interleaves with it; its transaction is  *)
(* nevertheless modelled one operation at a time, writing the tables in    *)
(* place, because a refused operation has to undo the ones before it and   *)
(* the isolate may die between two of them.  The operations of a request   *)
(* are chosen as they are executed: the handler never looks ahead.         *)
(***************************************************************************)
EXTENDS Naturals, Sequences, FiniteSets

CONSTANTS
  Actors,      \* DIDs that can present an authenticated mutation
  Ids,         \* the UUIDs a placed object can receive
  Sockets,     \* WebSocket connections
  Kinds,       \* object types: a subset of {"note", "sigil", "portal"}
  Spots,       \* positions on the board
  NoActor, NoObject, Closed,
  MaxTotal, MaxActor, MaxOps, RateLimit,   \* 100, 20, 20 and 10 in the code
  MaxVersion, MaxMinute                    \* bounds of the exploration only

ASSUME RoomAssumption ==
  /\ NoActor \notin Actors
  /\ IsFiniteSet(Actors)
  /\ MaxTotal \in Nat /\ MaxActor \in Nat
  /\ MaxOps \in Nat /\ RateLimit \in Nat
  /\ MaxVersion \in Nat /\ MaxMinute \in Nat

Object == [owner : Actors, kind : Kinds, spot : Spots, linked : BOOLEAN]

ASSUME SentinelAssumption == NoObject \notin Object

VARIABLES
  version,   \* meta row 'version'
  objects,   \* zone_object: id -> row, NoObject when there is no row
  rate,      \* rate: actor -> minute bucket -> count
  minute,    \* floor(Date.now() / 60000)
  feed,      \* socket -> the last snapshot sent on it, or Closed
  actor,     \* author of the mutation being executed, or NoActor
  basis,     \* the expectedVersion that mutation carried
  done,      \* operations of it executed so far
  total,     \* projectedTotal
  mine,      \* projectedActor
  before,    \* the objects a rollback restores
  minted,    \* history: the UUIDs ever issued, never issued again
  accepted,  \* history: expectedVersion of each accepted mutation, in order
  spent      \* history: mutations of each actor accepted this minute

txVars == <<actor, basis, done, total, mine, before>>
history == <<accepted, spent>>
vars == <<version, objects, rate, minute, feed, txVars, minted, history>>

-----------------------------------------------------------------------------
Placed(objs) == {i \in Ids : objs[i] # NoObject}
Owned(objs, a) == {i \in Placed(objs) : objs[i].owner = a}

Idle == actor = NoActor

snapshot == [version |-> version, objects |-> objects]

Init ==
  /\ version = 0
  /\ objects = [i \in Ids |-> NoObject]
  /\ rate = [a \in Actors |-> [m \in 0..MaxMinute |-> 0]]
  /\ minute = 0
  /\ feed = [s \in Sockets |-> Closed]
  /\ actor = NoActor /\ basis = 0 /\ done = 0 /\ total = 0 /\ mine = 0
  /\ before = objects
  /\ minted = {}
  /\ accepted = <<>>
  /\ spent = [a \in Actors |-> 0]

\* Mutant: the comparison prunes the bucket of this minute too.
PrunedTooMuch == [a \in Actors |-> [m \in 0..MaxMinute |->
             IF m <= minute THEN 0 ELSE rate[a][m]]]

(***************************************************************************)
(* Buckets more than two minutes old are deleted by every mutation that    *)
(* passes the version check, whoever sends it and whether or not it is     *)
(* then limited.                                                           *)
(***************************************************************************)
Pruned == [a \in Actors |-> [m \in 0..MaxMinute |->
             IF m + 2 < minute THEN 0 ELSE rate[a][m]]]

\* Mutant: the version check is forgotten.
BeginUnversioned(a, expectedVersion) ==
  /\ Idle
  /\ version < MaxVersion
  /\ rate[a][minute] < RateLimit
  /\ rate' = [Pruned EXCEPT ![a][minute] = @ + 1]
  /\ actor' = a
  /\ basis' = expectedVersion
  /\ done' = 0
  /\ total' = Cardinality(Placed(objects))
  /\ mine' = Cardinality(Owned(objects, a))
  /\ before' = objects
  /\ UNCHANGED <<version, objects, minute, feed, minted, history>>

(***************************************************************************)
(* A mutation with a current expectedVersion from an actor with budget     *)
(* left enters the transaction.  Its rate row is written before the        *)
(* transaction and is not undone when the transaction is.  (A stale        *)
(* expectedVersion is answered 409 CONFLICT and changes nothing.)          *)
(***************************************************************************)
Begin(a, expectedVersion) ==
  /\ Idle
  /\ version < MaxVersion
  /\ expectedVersion = version
  /\ rate[a][minute] < RateLimit
  /\ rate' = [Pruned EXCEPT ![a][minute] = @ + 1]
  /\ actor' = a
  /\ basis' = expectedVersion
  /\ done' = 0
  /\ total' = Cardinality(Placed(objects))
  /\ mine' = Cardinality(Owned(objects, a))
  /\ before' = objects
  /\ UNCHANGED <<version, objects, minute, feed, minted, history>>

\* 429: the budget of this minute is used up; only the pruning happens.
Limited(a, expectedVersion) ==
  /\ Idle
  /\ expectedVersion = version
  /\ rate[a][minute] >= RateLimit
  /\ rate' = Pruned
  /\ UNCHANGED <<version, objects, minute, feed, txVars, minted, history>>

NextOp == ~Idle /\ done < MaxOps /\ done' = done + 1

\* Mutant: off by one at the capacity of the zone.
PlaceOneMore(i, k, p, linked) ==
  /\ NextOp
  /\ total <= MaxTotal
  /\ mine < MaxActor
  /\ i \notin minted
  /\ minted' = minted \cup {i}
  /\ linked => k = "portal"
  /\ objects' = [objects EXCEPT ![i] =
                   [owner |-> actor, kind |-> k, spot |-> p, linked |-> linked]]
  /\ total' = total + 1
  /\ mine' = mine + 1
  /\ UNCHANGED <<version, rate, minute, feed, actor, basis, before, history>>

Place(i, k, p, linked) ==
  /\ NextOp
  /\ total < MaxTotal
  /\ mine < MaxActor
  /\ i \notin minted
  /\ minted' = minted \cup {i}
  /\ linked => k = "portal"
  /\ objects' = [objects EXCEPT ![i] =
                   [owner |-> actor, kind |-> k, spot |-> p, linked |-> linked]]
  /\ total' = total + 1
  /\ mine' = mine + 1
  /\ UNCHANGED <<version, rate, minute, feed, actor, basis, before, history>>

\* Mutant: anybody may edit an existing object.
Existing(i) == objects[i] # NoObject

\* The row exists and the acting DID owns it.
Editable(i) == objects[i] # NoObject /\ objects[i].owner = actor

Move(i, p) ==
  /\ NextOp
  /\ Editable(i)
  /\ objects' = [objects EXCEPT ![i].spot = p]
  /\ UNCHANGED <<version, rate, minute, feed, actor, basis, total, mine, before, minted, history>>

\* Replacing a portal's value rebuilds its payload from the target alone.
Edit(i, k) ==
  /\ NextOp
  /\ Editable(i)
  /\ objects[i].kind = k
  /\ objects' = [objects EXCEPT ![i].linked = FALSE]
  /\ UNCHANGED <<version, rate, minute, feed, actor, basis, total, mine, before, minted, history>>

\* Mutant: a missing row is counted as deleted.
DeleteBlindly(i) ==
  /\ NextOp
  /\ objects' = [objects EXCEPT ![i] = NoObject]
  /\ total' = total - 1
  /\ mine' = mine - 1
  /\ UNCHANGED <<version, rate, minute, feed, actor, basis, before, minted, history>>

\* Mutant: the actor's projected count is not lowered.
DeleteUncounted(i) ==
  /\ NextOp
  /\ Editable(i)
  /\ objects' = [objects EXCEPT ![i] = NoObject]
  /\ total' = total - 1
  /\ mine' = mine
  /\ UNCHANGED <<version, rate, minute, feed, actor, basis, before, minted, history>>

Delete(i) ==
  /\ NextOp
  /\ Editable(i)
  /\ objects' = [objects EXCEPT ![i] = NoObject]
  /\ total' = total - 1
  /\ mine' = mine - 1
  /\ UNCHANGED <<version, rate, minute, feed, actor, basis, before, minted, history>>

\* The handler returns or throws: its locals are gone.
Leave ==
  /\ actor' = NoActor
  /\ basis' = 0 /\ done' = 0 /\ total' = 0 /\ mine' = 0
  /\ before' = objects'

\* Mutant: the operations before the refused one stay.
RefuseWithoutRollback ==
  /\ ~Idle
  /\ done < MaxOps
  /\ \/ total >= MaxTotal
     \/ mine >= MaxActor
     \/ \E i \in Ids : ~Editable(i)
     \/ \E i \in Ids, k \in Kinds : Editable(i) /\ objects[i].kind # k
  /\ objects' = objects
  /\ Leave
  /\ UNCHANGED <<version, rate, minute, feed, minted, history>>

(***************************************************************************)
(* An operation throws: the zone or the actor is full, the object does not *)
(* exist, belongs to somebody else, or has another type than the new       *)
(* value.  transactionSync restores the tables; the rate row stays.        *)
(***************************************************************************)
Refuse ==
  /\ ~Idle
  /\ done < MaxOps
  /\ \/ total >= MaxTotal
     \/ mine >= MaxActor
     \/ \E i \in Ids : ~Editable(i)
     \/ \E i \in Ids, k \in Kinds : Editable(i) /\ objects[i].kind # k
  /\ objects' = before
  /\ Leave
  /\ UNCHANGED <<version, rate, minute, feed, minted, history>>

(***************************************************************************)
(* The last operation is done: the version moves, the transaction commits, *)
(* and the new snapshot goes to every open socket.  A socket whose send    *)
(* throws is closed.                                                       *)
(***************************************************************************)
Commit ==
  /\ ~Idle
  /\ done >= 1
  /\ version' = version + 1
  /\ UNCHANGED <<objects, rate, minute, minted>>
  /\ \E broken \in SUBSET Sockets :
       feed' = [s \in Sockets |->
                  IF feed[s] = Closed \/ s \in broken THEN Closed ELSE snapshot']
  /\ Leave
  /\ accepted' = Append(accepted, basis)
  /\ spent' = [spent EXCEPT ![actor] = @ + 1]

-----------------------------------------------------------------------------
\* GET .../socket: the hibernatable socket is accepted and sent a snapshot.
Connect(s) ==
  /\ Idle
  /\ feed[s] = Closed
  /\ feed' = [feed EXCEPT ![s] = snapshot]
  /\ UNCHANGED <<version, objects, rate, minute, txVars, minted, history>>

Disconnect(s) ==
  /\ Idle
  /\ feed[s] # Closed
  /\ feed' = [feed EXCEPT ![s] = Closed]
  /\ UNCHANGED <<version, objects, rate, minute, txVars, minted, history>>

(***************************************************************************)
(* The isolate dies.  Writes made since the last await are one atomic unit *)
(* of the object's storage, so a mutation in progress leaves nothing, its  *)
(* rate row included; every socket breaks.                                 *)
(***************************************************************************)
Crash ==
  /\ feed' = [s \in Sockets |-> Closed]
  /\ objects' = IF Idle THEN objects ELSE before
  /\ Leave
  /\ rate' = IF Idle THEN rate ELSE [rate EXCEPT ![actor][minute] = @ - 1]
  /\ UNCHANGED <<version, minute, minted, history>>

\* Date.now() does not advance inside the handler's synchronous section.
Tick ==
  /\ Idle
  /\ minute < MaxMinute
  /\ minute' = minute + 1
  /\ spent' = [a \in Actors |-> 0]
  /\ UNCHANGED <<version, objects, rate, feed, txVars, minted, accepted>>

Handler(a) == \E v \in 0..version : Begin(a, v) \/ Limited(a, v)

Operation ==
  \/ \E i \in Ids, k \in Kinds, p \in Spots, linked \in BOOLEAN : Place(i, k, p, linked)
  \/ \E i \in Ids, p \in Spots : Move(i, p)
  \/ \E i \in Ids, k \in Kinds : Edit(i, k)
  \/ \E i \in Ids : Delete(i)

Next ==
  \/ \E a \in Actors : Handler(a)
  \/ Operation \/ Refuse \/ Commit
  \/ \E s \in Sockets : Connect(s) \/ Disconnect(s)
  \/ Crash \/ Tick

Spec == Init /\ [][Next]_vars

-----------------------------------------------------------------------------
(* Properties.                                                             *)

WithinCapacity(objs) ==
  /\ Cardinality(Placed(objs)) <= MaxTotal
  /\ \A a \in Actors : Cardinality(Owned(objs, a)) <= MaxActor

Board == [Ids -> Object \cup {NoObject}]
Snapshot == [version : Nat, objects : Board]

\* Every table and every local of the handler holds a value of its type.
TypeOK ==
  /\ version \in Nat
  /\ objects \in Board
  /\ rate \in [Actors -> [0..MaxMinute -> Nat]]
  /\ minute \in 0..MaxMinute
  /\ feed \in [Sockets -> Snapshot \cup {Closed}]
  /\ actor \in Actors \cup {NoActor}
  /\ basis \in Nat /\ done \in Nat /\ total \in Nat /\ mine \in Nat
  /\ before \in Board
  /\ minted \subseteq Ids
  /\ accepted \in Seq(Nat)
  /\ spent \in [Actors -> Nat]

(***************************************************************************)
(* The zone never holds more than 100 objects nor any visitor more than    *)
(* 20, whatever mix of placing and deleting a mutation does, although the  *)
(* handler only counts rows once and then trusts its projected counters    *)
(* (ZoneRoom.ts:141-152, 193-195).                                         *)
(***************************************************************************)
Capacity == WithinCapacity(objects)

(***************************************************************************)
(* A visitor who is connected and not yet told otherwise is looking at the *)
(* zone as it is: between handlers, the last message on every open socket  *)
(* is the current version with the current objects (ZoneRoom.ts:108-117,   *)
(* 204-205), whatever mutations were refused or lost in between.           *)
(***************************************************************************)
SocketsCurrent ==
  Idle => \A s \in Sockets : feed[s] # Closed => feed[s] = snapshot

(***************************************************************************)
(* Mutations take effect once and in order: the n-th accepted mutation was *)
(* prepared against version n-1, so a request that is sent again after a   *)
(* lost answer is refused rather than applied twice (ZoneRoom.ts:129-133,  *)
(* 200-201).                                                               *)
(***************************************************************************)
AppliedOnceInOrder ==
  /\ Len(accepted) = version
  /\ \A n \in 1..Len(accepted) : accepted[n] = n - 1

(***************************************************************************)
(* No visitor has more than 10 mutations accepted in a minute, although    *)
(* buckets are pruned on other visitors' requests and a refused mutation   *)
(* rolls back its objects but not its bucket (ZoneRoom.ts:85-93, 135).     *)
(***************************************************************************)
RateHonoured == \A a \in Actors : spent[a] <= RateLimit

\* What a rollback or a crash would leave: the refinement mapping.
committed == IF Idle THEN objects ELSE before

Ledger == INSTANCE ZoneLedger WITH objects <- committed

(***************************************************************************)
(* What the running transaction knows is right: its projected counters are *)
(* the real row counts, the rows it changed were its author's and stayed   *)
(* so, and what a rollback restores is within capacity too.                *)
(***************************************************************************)
CountersExact ==
  ~Idle => /\ total = Cardinality(Placed(objects))
           /\ mine = Cardinality(Owned(objects, actor))
           /\ basis = version

OnlyOwnRows ==
  ~Idle => \A i \in Ids : objects[i] # before[i] =>
             Ledger!LegalEdit(actor, before[i], objects[i])

BoardsSound ==
  \A objs \in {objects, before} :
    /\ Placed(objs) \subseteq minted
    /\ IsFiniteSet(Placed(objs))
    /\ WithinCapacity(objs)

\* A bucket bounds what was accepted in it, one more while a mutation runs.
BudgetSound ==
  \A a \in Actors :
    /\ \A m \in 0..MaxMinute : rate[a][m] <= RateLimit
    /\ spent[a] + (IF actor = a THEN 1 ELSE 0) <= rate[a][minute]

\* Open sockets show what is committed, also while a transaction runs.
FeedSound ==
  \A s \in Sockets : feed[s] # Closed =>
    feed[s] = [version |-> version, objects |-> committed]

(***************************************************************************)
(* The invariant the safety proofs go by: no step of the handler, of a     *)
(* crash or of the clock leaves it (ZoneRoom.ts:129-205).                  *)
(***************************************************************************)
RoomInv ==
  /\ TypeOK /\ CountersExact /\ OnlyOwnRows /\ BoardsSound
  /\ BudgetSound /\ FeedSound /\ AppliedOnceInOrder

(***************************************************************************)
(* The room implements the ledger: seen through `what a rollback would     *)
(* leave', every step of the handler is one whole legal mutation by one    *)
(* visitor, or nothing.                                                    *)
(***************************************************************************)
ImplementsLedger == Ledger!Spec
=============================================================================

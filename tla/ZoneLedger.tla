------------------------------ MODULE ZoneLedger ------------------------------
(***************************************************************************)
(* What a Chaos Gate zone promises its visitors, with no mention of        *)
(* requests, transactions, rate buckets or sockets: the zone is a          *)
(* versioned set of objects, and it only ever moves by one visitor's whole *)
(* mutation, which touches nothing but that visitor's own objects and      *)
(* keeps the zone within its capacities.  ZoneRoom.tla is shown to         *)
(* implement this module.                                                  *)
(***************************************************************************)
EXTENDS Naturals, FiniteSets

CONSTANTS Actors, Ids, NoObject, MaxTotal, MaxActor

VARIABLES version, objects

ledgerVars == <<version, objects>>

Placed(objs) == {i \in Ids : objs[i] # NoObject}
Owned(objs, a) == {i \in Placed(objs) : objs[i].owner = a}

WithinCapacity(objs) ==
  /\ Cardinality(Placed(objs)) <= MaxTotal
  /\ \A a \in Actors : Cardinality(Owned(objs, a)) <= MaxActor

(***************************************************************************)
(* Actor a turned object `old' into `new' (either may be NoObject): it is  *)
(* a's, it keeps its kind, and a portal that lost or never had an authored *)
(* experience does not gain one after it was placed.                       *)
(***************************************************************************)
LegalEdit(a, old, new) ==
  /\ old # NoObject => old.owner = a
  /\ new # NoObject => new.owner = a
  /\ old # NoObject /\ new # NoObject =>
       /\ new.kind = old.kind
       /\ new.linked => old.linked

Init ==
  /\ version = 0
  /\ objects = [i \in Ids |-> NoObject]

Mutate(a) ==
  /\ version' = version + 1
  /\ \A i \in Ids : objects'[i] # objects[i] => LegalEdit(a, objects[i], objects'[i])
  /\ WithinCapacity(objects')

Next == \E a \in Actors : Mutate(a)

Spec == Init /\ [][Next]_ledgerVars
=============================================================================

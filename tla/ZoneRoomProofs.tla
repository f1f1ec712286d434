---------------------------- MODULE ZoneRoomProofs ----------------------------
(***************************************************************************)
(* Proofs about ZoneRoom for every number of visitors, objects, sockets    *)
(* and every value of the capacities and of the rate limit.                *)
(*                                                                         *)
(* The argument is one inductive invariant, RoomInv.  It is needed because *)
(* no property of the zone is inductive alone: the capacities rest on the  *)
(* projected counters being exact, a rollback on the saved board being     *)
(* within capacity, the rate limit on the bucket bounding the history, and *)
(* a crash on the running mutation having its own unit in the bucket.      *)
(***************************************************************************)
EXTENDS ZoneRoom, FiniteSetTheorems, TLAPS

-----------------------------------------------------------------------------
(* Boards: what writing one row does to the sets the capacities count.     *)

\* Inserting or rewriting row i of its owner (ZoneRoom.ts:160-163, 169, 187).
LEMMA WriteRow ==
  ASSUME NEW objs \in Board, NEW i \in Ids, NEW o \in Object, NEW new \in Board,
         new[i] = o, \A j \in Ids : j # i => new[j] = objs[j]
  PROVE  /\ Placed(new) = Placed(objs) \cup {i}
         /\ Owned(new, o.owner) = Owned(objs, o.owner) \cup {i}
         /\ \A a \in Actors : a # o.owner => Owned(new, a) = Owned(objs, a) \ {i}
<1>1. o # NoObject
  BY SentinelAssumption
<1> QED
  BY <1>1 DEF Placed, Owned

\* Deleting row i (ZoneRoom.ts:193).
LEMMA DropRow ==
  ASSUME NEW objs \in Board, NEW i \in Ids, NEW new \in Board,
         new[i] = NoObject, \A j \in Ids : j # i => new[j] = objs[j]
  PROVE  /\ Placed(new) = Placed(objs) \ {i}
         /\ \A a \in Actors : Owned(new, a) = Owned(objs, a) \ {i}
BY DEF Placed, Owned

\* Owned rows are placed rows.
LEMMA OwnedFinite ==
  ASSUME NEW objs, IsFiniteSet(Placed(objs)), NEW a
  PROVE  IsFiniteSet(Owned(objs, a))
<1>1. Owned(objs, a) \in SUBSET Placed(objs)
  BY DEF Owned
<1> QED
  BY <1>1, FS_Subset

\* Setting one bucket of the rate table (ZoneRoom.ts:92).
LEMMA SetBucket ==
  ASSUME NEW r \in [Actors -> [0..MaxMinute -> Nat]],
         NEW a \in Actors, NEW m \in 0..MaxMinute, NEW n \in Nat
  PROVE  LET new == [r EXCEPT ![a][m] = n]
         IN  /\ new \in [Actors -> [0..MaxMinute -> Nat]]
             /\ \A b \in Actors : \A k \in 0..MaxMinute :
                  new[b][k] = IF b = a /\ k = m THEN n ELSE r[b][k]
OBVIOUS

-----------------------------------------------------------------------------
LEMMA RoomInvInit == Init => RoomInv
<1> SUFFICES ASSUME Init PROVE RoomInv
  OBVIOUS
<1> USE RoomAssumption
<1>1. TypeOK
  BY DEF Init, TypeOK, Board
<1>2. Idle
  BY DEF Init, Idle
<1>3. Placed(objects) = {} /\ \A a : Owned(objects, a) = {}
  BY DEF Init, Placed, Owned
<1>4. BoardsSound
  <2>1. before = objects
    BY DEF Init
  <2>2. WithinCapacity(objects)
    BY <1>3, FS_EmptySet DEF WithinCapacity
  <2> QED
    BY <1>3, <2>1, <2>2, FS_EmptySet DEF BoardsSound
<1>5. BudgetSound
  BY DEF Init, BudgetSound
<1>6. FeedSound /\ AppliedOnceInOrder
  BY DEF Init, FeedSound, AppliedOnceInOrder
<1> QED
  BY <1>1, <1>2, <1>4, <1>5, <1>6 DEF RoomInv, CountersExact, OnlyOwnRows

-----------------------------------------------------------------------------
(* One lemma per action: each keeps RoomInv.                               *)

LEMMA BeginKeeps ==
  ASSUME RoomInv, NEW a \in Actors, NEW v \in Nat, Begin(a, v)
  PROVE  RoomInv'
<1> USE RoomAssumption DEF RoomInv
<1>1. actor = NoActor /\ actor' = a /\ a # NoActor
  BY DEF Begin, Idle
<1>2. Pruned \in [Actors -> [0..MaxMinute -> Nat]]
  BY DEF Pruned, TypeOK
<1>3. Pruned[a][minute] = rate[a][minute]
  BY DEF Pruned, TypeOK
<1>4. /\ rate' \in [Actors -> [0..MaxMinute -> Nat]]
      /\ \A b \in Actors : \A m \in 0..MaxMinute :
           rate'[b][m] = IF b = a /\ m = minute THEN rate[a][minute] + 1 ELSE Pruned[b][m]
  <2>1. rate' = [Pruned EXCEPT ![a][minute] = rate[a][minute] + 1]
    BY <1>2, <1>3 DEF Begin, TypeOK
  <2>2. rate[a][minute] + 1 \in Nat /\ minute \in 0..MaxMinute
    BY DEF TypeOK
  <2> QED
    BY <1>2, <2>1, <2>2, SetBucket
<1>5. IsFiniteSet(Placed(objects)) /\ IsFiniteSet(Owned(objects, a))
  BY OwnedFinite DEF BoardsSound
<1>6. total' \in Nat /\ mine' \in Nat
  BY <1>5, FS_CardinalityType DEF Begin
<1>7. TypeOK'
  BY <1>4, <1>6, <1>1 DEF Begin, TypeOK, history
<1>8. CountersExact'
  BY <1>1 DEF Begin, CountersExact, Idle, Placed, Owned
<1>9. OnlyOwnRows'
  BY DEF Begin, OnlyOwnRows
<1>10. BoardsSound'
  BY DEF Begin, BoardsSound, WithinCapacity, Placed, Owned
<1>11. BudgetSound'
  <2> SUFFICES ASSUME NEW b \in Actors
               PROVE  /\ \A m \in 0..MaxMinute : rate'[b][m] <= RateLimit
                      /\ spent'[b] + (IF actor' = b THEN 1 ELSE 0) <= rate'[b][minute']
    BY DEF BudgetSound
  <2>1. \A m \in 0..MaxMinute : Pruned[b][m] <= RateLimit
    BY DEF Pruned, BudgetSound, TypeOK
  <2>2. Pruned[b][minute] = rate[b][minute]
    BY DEF Pruned, TypeOK
  <2>3. rate[a][minute] + 1 <= RateLimit
    BY DEF Begin, TypeOK
  <2> QED
    <3>1. \A m \in 0..MaxMinute : rate'[b][m] <= RateLimit
      BY <1>4, <2>1, <2>3
    <3>2. rate'[b][minute] = IF b = a THEN rate[a][minute] + 1 ELSE rate[b][minute]
      BY <1>4, <2>2 DEF TypeOK
    <3>3. spent' = spent /\ minute' = minute
      BY DEF Begin, history
    <3>4. spent[b] <= rate[b][minute] /\ spent[b] \in Nat /\ rate[b][minute] \in Nat
      <4>1. spent[b] \in Nat /\ rate[b] \in [0..MaxMinute -> Nat] /\ minute \in 0..MaxMinute
        BY DEF TypeOK
      <4>2. actor # b
        BY <1>1
      <4>3. spent[b] + 0 <= rate[b][minute]
        BY <4>2 DEF BudgetSound
      <4> QED
        BY <4>1, <4>3
    <3> QED
      BY <1>1, <3>1, <3>2, <3>3, <3>4
<1>12. FeedSound'
  BY <1>1 DEF Begin, FeedSound, committed, Idle
<1>13. AppliedOnceInOrder'
  BY DEF Begin, AppliedOnceInOrder, history
<1> QED
  BY <1>7, <1>8, <1>9, <1>10, <1>11, <1>12, <1>13

LEMMA LimitedKeeps ==
  ASSUME RoomInv, NEW a \in Actors, NEW v \in Nat, Limited(a, v)
  PROVE  RoomInv'
<1> USE RoomAssumption DEF RoomInv
<1>1. Pruned \in [Actors -> [0..MaxMinute -> Nat]]
  BY DEF Pruned, TypeOK
<1>2. \A b \in Actors : /\ Pruned[b][minute] = rate[b][minute]
                        /\ \A m \in 0..MaxMinute : Pruned[b][m] <= RateLimit
  BY DEF Pruned, BudgetSound, TypeOK
<1>3. TypeOK'
  BY <1>1 DEF Limited, TypeOK, txVars, history
<1>4. BudgetSound'
  BY <1>2 DEF Limited, BudgetSound, txVars, history
<1>5. CountersExact' /\ OnlyOwnRows' /\ BoardsSound' /\ FeedSound' /\ AppliedOnceInOrder'
  BY DEF Limited, CountersExact, OnlyOwnRows, BoardsSound, FeedSound, committed, Idle,
     WithinCapacity, Placed, Owned, AppliedOnceInOrder, txVars, history
<1> QED
  BY <1>3, <1>4, <1>5

\* What every operation of the transaction leaves alone.
LEMMA OperationFrame ==
  ASSUME RoomInv, ~Idle, NextOp, objects' \in Board,
         total' \in Nat, mine' \in Nat, minted \subseteq minted', minted' \subseteq Ids,
         UNCHANGED <<version, rate, minute, feed, actor, basis, before, history>>,
         total' = Cardinality(Placed(objects')),
         mine' = Cardinality(Owned(objects', actor)),
         \A i \in Ids : objects'[i] # before[i] =>
            Ledger!LegalEdit(actor, before[i], objects'[i]),
         Placed(objects') \subseteq minted',
         IsFiniteSet(Placed(objects')),
         WithinCapacity(objects')
  PROVE  RoomInv'
<1> USE DEF RoomInv
<1>1. TypeOK'
  BY DEF TypeOK, NextOp, history
<1>2. CountersExact' /\ OnlyOwnRows'
  BY DEF CountersExact, OnlyOwnRows, Idle, Placed, Owned
<1>3. BoardsSound'
  BY DEF BoardsSound, WithinCapacity, Placed, Owned
<1>4. BudgetSound' /\ FeedSound' /\ AppliedOnceInOrder'
  BY DEF BudgetSound, FeedSound, committed, Idle, AppliedOnceInOrder, history
<1> QED
  BY <1>1, <1>2, <1>3, <1>4

\* A set that grew by one element, or shrank, and its cardinality.
LEMMA OneMore ==
  ASSUME NEW S, IsFiniteSet(S), NEW x, x \notin S
  PROVE  IsFiniteSet(S \cup {x}) /\ Cardinality(S \cup {x}) = Cardinality(S) + 1
BY FS_AddElement

LEMMA OneLess ==
  ASSUME NEW S, IsFiniteSet(S), NEW x, x \in S
  PROVE  IsFiniteSet(S \ {x}) /\ Cardinality(S \ {x}) = Cardinality(S) - 1
BY FS_RemoveElement

LEMMA NoMore ==
  ASSUME NEW S, IsFiniteSet(S), NEW T, T \subseteq S, NEW n \in Nat, Cardinality(S) <= n
  PROVE  IsFiniteSet(T) /\ Cardinality(T) <= n
<1>1. IsFiniteSet(T) /\ Cardinality(T) <= Cardinality(S)
  BY FS_Subset
<1>2. Cardinality(T) \in Nat /\ Cardinality(S) \in Nat
  BY <1>1, FS_CardinalityType
<1> QED
  BY <1>1, <1>2

\* The boards of a running mutation: what the lemmas below start from.
LEMMA BoardFacts ==
  ASSUME RoomInv, ~Idle
  PROVE  /\ actor \in Actors
         /\ objects \in Board /\ before \in Board
         /\ total \in Nat /\ mine \in Nat
         /\ IsFiniteSet(Placed(objects))
         /\ \A a \in Actors : /\ IsFiniteSet(Owned(objects, a))
                              /\ Cardinality(Owned(objects, a)) <= MaxActor
         /\ Cardinality(Placed(objects)) <= MaxTotal
         /\ total = Cardinality(Placed(objects))
         /\ mine = Cardinality(Owned(objects, actor))
         /\ Placed(objects) \subseteq minted /\ Placed(before) \subseteq minted
         /\ minted \subseteq Ids
         /\ \A j \in Ids : objects[j] # before[j] =>
               Ledger!LegalEdit(actor, before[j], objects[j])
<1> USE DEF RoomInv
<1>1. \A a \in Actors : IsFiniteSet(Owned(objects, a))
  BY OwnedFinite DEF BoardsSound
<1> QED
  BY <1>1 DEF TypeOK, Idle, CountersExact, BoardsSound, WithinCapacity, OnlyOwnRows

LEMMA PlaceKeeps ==
  ASSUME RoomInv, NEW i \in Ids, NEW k \in Kinds, NEW p \in Spots,
         NEW linked \in BOOLEAN, Place(i, k, p, linked)
  PROVE  RoomInv'
<1> DEFINE row == [owner |-> actor, kind |-> k, spot |-> p, linked |-> linked]
<1>1. ~Idle /\ NextOp
  BY DEF Place, NextOp
<1>2. actor \in Actors /\ objects \in Board
  BY <1>1, BoardFacts
<1>3. row \in Object /\ row.owner = actor
  BY <1>2 DEF Object
<1>4. objects' = [objects EXCEPT ![i] = row]
  BY DEF Place
<1> HIDE DEF row
<1>5. /\ objects' \in Board
      /\ objects'[i] = row
      /\ \A j \in Ids : j # i => objects'[j] = objects[j]
      /\ Placed(objects') = Placed(objects) \cup {i}
      /\ Owned(objects', row.owner) = Owned(objects, row.owner) \cup {i}
      /\ \A a \in Actors : a # row.owner => Owned(objects', a) = Owned(objects, a) \ {i}
  <2>1. /\ objects' \in Board
        /\ objects'[i] = row
        /\ \A j \in Ids : j # i => objects'[j] = objects[j]
    BY <1>2, <1>3, <1>4 DEF Board
  <2> QED
    BY <1>2, <1>3, <2>1, WriteRow
<1>6. i \notin Placed(objects) /\ i \notin Placed(before) /\ i \notin Owned(objects, actor)
  <2>1. i \notin minted
    BY DEF Place
  <2> QED
    BY <2>1, <1>1, BoardFacts DEF Owned
<1>7. IsFiniteSet(Placed(objects')) /\ Cardinality(Placed(objects')) = total + 1
  BY <1>1, <1>5, <1>6, BoardFacts, OneMore
<1>8. Cardinality(Owned(objects', actor)) = mine + 1
  BY <1>1, <1>3, <1>5, <1>6, BoardFacts, OneMore
<1>9. total' = total + 1 /\ mine' = mine + 1 /\ total < MaxTotal /\ mine < MaxActor
  BY DEF Place
<1>10. WithinCapacity(objects')
  <2>1. ASSUME NEW a \in Actors, a # actor
        PROVE  Cardinality(Owned(objects', a)) <= MaxActor
    <3>1. Owned(objects', a) \subseteq Owned(objects, a)
      BY <1>3, <1>5, <2>1
    <3> QED
      BY <1>1, <3>1, BoardFacts, NoMore, RoomAssumption
  <2>2. total + 1 <= MaxTotal /\ mine + 1 <= MaxActor
    BY <1>1, <1>9, BoardFacts, RoomAssumption
  <2> QED
    BY <1>7, <1>8, <2>1, <2>2 DEF WithinCapacity
<1>11. ASSUME NEW j \in Ids, objects'[j] # before[j]
       PROVE  Ledger!LegalEdit(actor, before[j], objects'[j])
  <2>1. CASE j = i
    <3>1. before[i] = NoObject
      BY <1>6 DEF Placed
    <3> QED
      BY <2>1, <3>1, <1>3, <1>5 DEF Ledger!LegalEdit
  <2>2. CASE j # i
    BY <1>1, <1>5, <1>11, <2>2, BoardFacts
  <2> QED
    BY <2>1, <2>2
<1>12. /\ minted \subseteq minted' /\ minted' \subseteq Ids
       /\ Placed(objects') \subseteq minted'
  BY <1>1, <1>5, BoardFacts DEF Place
<1>13. UNCHANGED <<version, rate, minute, feed, actor, basis, before, history>>
  BY DEF Place
<1>14. total' \in Nat /\ mine' \in Nat
  BY <1>1, <1>9, BoardFacts
<1>15. total' = Cardinality(Placed(objects')) /\ mine' = Cardinality(Owned(objects', actor))
  BY <1>7, <1>8, <1>9
<1> QED
  BY <1>1, <1>5, <1>7, <1>10, <1>11, <1>12, <1>13, <1>14, <1>15, OperationFrame

(***************************************************************************)
(* Moving and editing rewrite a row of the author in place: same owner,    *)
(* same kind, no experience gained (ZoneRoom.ts:165-188).                  *)
(***************************************************************************)
LEMMA RewriteKeeps ==
  ASSUME RoomInv, NEW i \in Ids, NEW o \in Object, NextOp, Editable(i),
         objects' \in Board, objects'[i] = o, \A j \in Ids : j # i => objects'[j] = objects[j],
         o.owner = actor, o.kind = objects[i].kind, o.linked => objects[i].linked,
         UNCHANGED <<version, rate, minute, feed, actor, basis, total, mine, before, minted, history>>
  PROVE  RoomInv'
<1>1. ~Idle
  BY DEF NextOp
<1>2. i \in Placed(objects) /\ i \in Owned(objects, actor)
  BY DEF Editable, Placed, Owned
<1>3. /\ objects' \in Board
      /\ objects'[i] = o
      /\ \A j \in Ids : j # i => objects'[j] = objects[j]
      /\ Placed(objects') = Placed(objects)
      /\ Owned(objects', actor) = Owned(objects, actor)
      /\ \A a \in Actors : Owned(objects', a) \subseteq Owned(objects, a)
  <2>1. objects \in Board
    BY <1>1, BoardFacts
  <2>2. /\ objects' \in Board
        /\ objects'[i] = o
        /\ \A j \in Ids : j # i => objects'[j] = objects[j]
        /\ Placed(objects') = Placed(objects) \cup {i}
        /\ Owned(objects', o.owner) = Owned(objects, o.owner) \cup {i}
        /\ \A a \in Actors : a # o.owner => Owned(objects', a) = Owned(objects, a) \ {i}
    BY <2>1, WriteRow
  <2> QED
    BY <2>2, <1>2
<1>4. WithinCapacity(objects')
  <2>1. ASSUME NEW a \in Actors
        PROVE  Cardinality(Owned(objects', a)) <= MaxActor
    BY <1>1, <1>3, BoardFacts, NoMore, RoomAssumption
  <2> QED
    BY <1>1, <1>3, <2>1, BoardFacts DEF WithinCapacity
<1>5. ASSUME NEW j \in Ids, objects'[j] # before[j]
      PROVE  Ledger!LegalEdit(actor, before[j], objects'[j])
  <2>1. CASE j = i
    <3>1. objects[i] # NoObject /\ objects[i].owner = actor
      BY DEF Editable
    <3>2. objects[i] # before[i] => Ledger!LegalEdit(actor, before[i], objects[i])
      BY <1>1, BoardFacts
    <3>3. CASE objects[i] = before[i]
      BY <2>1, <3>1, <3>3, <1>3 DEF Ledger!LegalEdit
    <3>4. CASE objects[i] # before[i]
      BY <2>1, <3>1, <3>2, <3>4, <1>3 DEF Ledger!LegalEdit
    <3> QED
      BY <3>3, <3>4
  <2>2. CASE j # i
    BY <1>1, <1>3, <1>5, <2>2, BoardFacts
  <2> QED
    BY <2>1, <2>2
<1> QED
  BY <1>1, <1>3, <1>4, <1>5, BoardFacts, OperationFrame

\* A row of the board, and the row with one field written.
LEMMA RowUpdate ==
  ASSUME NEW objs \in Board, NEW i \in Ids, objs[i] # NoObject
  PROVE  /\ objs[i] \in Object
         /\ \A p \in Spots :
              /\ [objs[i] EXCEPT !.spot = p] \in Object
              /\ [objs[i] EXCEPT !.spot = p].owner = objs[i].owner
              /\ [objs[i] EXCEPT !.spot = p].kind = objs[i].kind
              /\ [objs[i] EXCEPT !.spot = p].linked = objs[i].linked
         /\ [objs[i] EXCEPT !.linked = FALSE] \in Object
         /\ [objs[i] EXCEPT !.linked = FALSE].owner = objs[i].owner
         /\ [objs[i] EXCEPT !.linked = FALSE].kind = objs[i].kind
         /\ [objs[i] EXCEPT !.linked = FALSE].linked = FALSE
BY DEF Board, Object

LEMMA MoveKeeps ==
  ASSUME RoomInv, NEW i \in Ids, NEW p \in Spots, Move(i, p)
  PROVE  RoomInv'
<1> DEFINE o == [objects[i] EXCEPT !.spot = p]
<1>1. ~Idle /\ NextOp /\ Editable(i)
  BY DEF Move, NextOp
<1>2. o \in Object /\ o.owner = actor /\ o.kind = objects[i].kind /\ o.linked = objects[i].linked
  BY <1>1, BoardFacts, RowUpdate DEF Editable
<1>3. /\ objects' \in Board
      /\ objects'[i] = o
      /\ \A j \in Ids : j # i => objects'[j] = objects[j]
  <2>1. objects' = [objects EXCEPT ![i] = o] /\ objects \in Board
    BY <1>1, BoardFacts DEF Move
  <2> HIDE DEF o
  <2> QED
    BY <1>2, <2>1 DEF Board
<1>4. UNCHANGED <<version, rate, minute, feed, actor, basis, total, mine, before, minted, history>>
  BY DEF Move
<1> HIDE DEF o
<1> QED
  BY <1>1, <1>2, <1>3, <1>4, RewriteKeeps

LEMMA EditKeeps ==
  ASSUME RoomInv, NEW i \in Ids, NEW k \in Kinds, Edit(i, k)
  PROVE  RoomInv'
<1> DEFINE o == [objects[i] EXCEPT !.linked = FALSE]
<1>1. ~Idle /\ NextOp /\ Editable(i)
  BY DEF Edit, NextOp
<1>2. o \in Object /\ o.owner = actor /\ o.kind = objects[i].kind /\ o.linked = FALSE
  BY <1>1, BoardFacts, RowUpdate DEF Editable
<1>3. /\ objects' \in Board
      /\ objects'[i] = o
      /\ \A j \in Ids : j # i => objects'[j] = objects[j]
  <2>1. objects' = [objects EXCEPT ![i] = o] /\ objects \in Board
    BY <1>1, BoardFacts DEF Edit
  <2> HIDE DEF o
  <2> QED
    BY <1>2, <2>1 DEF Board
<1>4. UNCHANGED <<version, rate, minute, feed, actor, basis, total, mine, before, minted, history>>
  BY DEF Edit
<1> HIDE DEF o
<1> QED
  BY <1>1, <1>2, <1>3, <1>4, RewriteKeeps

LEMMA DeleteKeeps ==
  ASSUME RoomInv, NEW i \in Ids, Delete(i)
  PROVE  RoomInv'
<1>1. ~Idle /\ NextOp /\ objects[i] # NoObject /\ objects[i].owner = actor
  BY DEF Delete, NextOp, Editable
<1>2. objects \in Board
  BY <1>1, BoardFacts
<1>3. /\ objects' \in Board
      /\ objects'[i] = NoObject
      /\ \A j \in Ids : j # i => objects'[j] = objects[j]
      /\ Placed(objects') = Placed(objects) \ {i}
      /\ \A a \in Actors : Owned(objects', a) = Owned(objects, a) \ {i}
  <2>1. objects' = [objects EXCEPT ![i] = NoObject]
    BY DEF Delete
  <2> QED
    <3>1. /\ objects' \in Board
          /\ objects'[i] = NoObject
          /\ \A j \in Ids : j # i => objects'[j] = objects[j]
      BY <1>2, <2>1 DEF Board
    <3> QED
      BY <1>2, <3>1, DropRow
<1>4. i \in Placed(objects) /\ i \in Owned(objects, actor)
  BY <1>1 DEF Placed, Owned
<1>5. IsFiniteSet(Placed(objects')) /\ Cardinality(Placed(objects')) = total - 1
  BY <1>1, <1>3, <1>4, BoardFacts, OneLess
<1>6. Cardinality(Owned(objects', actor)) = mine - 1
  BY <1>1, <1>3, <1>4, BoardFacts, OneLess
<1>7. total' = total - 1 /\ mine' = mine - 1
  BY DEF Delete
<1>8. total' \in Nat /\ mine' \in Nat
  <2>1. IsFiniteSet(Owned(objects', actor))
    BY <1>1, <1>3, BoardFacts, NoMore, RoomAssumption
  <2> QED
    BY <1>5, <1>6, <1>7, <2>1, FS_CardinalityType
<1>9. WithinCapacity(objects')
  <2>1. ASSUME NEW a \in Actors
        PROVE  Cardinality(Owned(objects', a)) <= MaxActor
    BY <1>1, <1>3, BoardFacts, NoMore, RoomAssumption
  <2>2. Cardinality(Placed(objects')) <= MaxTotal
    BY <1>1, <1>3, BoardFacts, NoMore, RoomAssumption
  <2> QED
    BY <2>1, <2>2 DEF WithinCapacity
<1>10. ASSUME NEW j \in Ids, objects'[j] # before[j]
       PROVE  Ledger!LegalEdit(actor, before[j], objects'[j])
  <2>1. CASE j = i
    <3>1. objects[i] # before[i] => Ledger!LegalEdit(actor, before[i], objects[i])
      BY <1>1, BoardFacts
    <3>2. before[i] # NoObject => before[i].owner = actor
      BY <1>1, <3>1 DEF Ledger!LegalEdit
    <3> QED
      BY <2>1, <3>2, <1>3 DEF Ledger!LegalEdit
  <2>2. CASE j # i
    BY <1>1, <1>3, <1>10, <2>2, BoardFacts
  <2> QED
    BY <2>1, <2>2
<1>11. minted' = minted /\ Placed(objects') \subseteq minted'
  BY <1>1, <1>3, BoardFacts DEF Delete
<1>12. UNCHANGED <<version, rate, minute, feed, actor, basis, before, history>>
  BY DEF Delete
<1>13. total' = Cardinality(Placed(objects')) /\ mine' = Cardinality(Owned(objects', actor))
  BY <1>5, <1>6, <1>7
<1> QED
  BY <1>1, <1>3, <1>5, <1>8, <1>9, <1>10, <1>11, <1>12, <1>13, BoardFacts, OperationFrame

\* The handler is left with an unchanged or restored board.
LEMMA LeaveFacts ==
  ASSUME RoomInv, Leave
  PROVE  /\ Idle' /\ before' = objects'
         /\ basis' \in Nat /\ done' \in Nat /\ total' \in Nat /\ mine' \in Nat
         /\ CountersExact' /\ OnlyOwnRows'
BY DEF Leave, Idle, CountersExact, OnlyOwnRows

LEMMA RefuseKeeps ==
  ASSUME RoomInv, Refuse
  PROVE  RoomInv'
<1>1. Leave /\ objects' = before /\ UNCHANGED <<version, rate, minute, feed, minted, accepted, spent>>
  BY DEF Refuse, history
<1>2. ~Idle /\ actor' = NoActor
  BY <1>1 DEF Refuse, Leave
<1>3. TypeOK'
  BY <1>1, <1>2, LeaveFacts DEF RoomInv, TypeOK
<1>4. BoardsSound'
  BY <1>1, LeaveFacts DEF RoomInv, BoardsSound, WithinCapacity, Placed, Owned
<1>5. BudgetSound'
  <2> SUFFICES ASSUME NEW a \in Actors PROVE spent[a] + 0 <= rate[a][minute]
    BY <1>1, <1>2, RoomAssumption DEF BudgetSound, RoomInv
  <2>1. spent[a] + (IF actor = a THEN 1 ELSE 0) <= rate[a][minute]
    BY DEF RoomInv, BudgetSound
  <2>2. spent[a] \in Nat /\ rate[a][minute] \in Nat
    BY DEF RoomInv, TypeOK
  <2> QED
    BY <2>1, <2>2
<1>6. FeedSound' /\ AppliedOnceInOrder'
  BY <1>1, <1>2 DEF RoomInv, FeedSound, committed, Idle, AppliedOnceInOrder
<1> QED
  BY <1>1, <1>3, <1>4, <1>5, <1>6, LeaveFacts DEF RoomInv

LEMMA CommitKeeps ==
  ASSUME RoomInv, Commit
  PROVE  RoomInv'
<1>1. /\ Leave /\ ~Idle
      /\ version' = version + 1
      /\ UNCHANGED <<objects, rate, minute, minted>>
      /\ accepted' = Append(accepted, basis)
      /\ spent' = [spent EXCEPT ![actor] = @ + 1]
  BY DEF Commit
<1>2. actor \in Actors /\ actor' = NoActor /\ version \in Nat /\ basis = version
  BY <1>1 DEF RoomInv, TypeOK, Idle, Leave, CountersExact
<1>3. objects \in Board /\ snapshot' \in Snapshot
  BY <1>1, <1>2 DEF RoomInv, TypeOK, snapshot, Snapshot
<1>4. PICK broken \in SUBSET Sockets :
        feed' = [s \in Sockets |-> IF feed[s] = Closed \/ s \in broken THEN Closed ELSE snapshot']
  BY DEF Commit
<1>5. feed' \in [Sockets -> Snapshot \cup {Closed}]
  BY <1>3, <1>4
<1>6. TypeOK'
  <2>1. accepted' \in Seq(Nat)
    BY <1>1, <1>2 DEF RoomInv, TypeOK
  <2>2. spent' \in [Actors -> Nat]
    BY <1>1, <1>2 DEF RoomInv, TypeOK
  <2> QED
    BY <1>1, <1>2, <1>5, <2>1, <2>2, LeaveFacts DEF RoomInv, TypeOK
<1>7. BoardsSound'
  BY <1>1, LeaveFacts DEF RoomInv, BoardsSound, WithinCapacity, Placed, Owned
<1>8. BudgetSound'
  <2> SUFFICES ASSUME NEW a \in Actors PROVE spent'[a] + 0 <= rate[a][minute]
    BY <1>1, <1>2, RoomAssumption DEF BudgetSound, RoomInv
  <2>1. spent[a] + (IF actor = a THEN 1 ELSE 0) <= rate[a][minute]
    BY DEF RoomInv, BudgetSound
  <2>2. spent \in [Actors -> Nat] /\ rate[a][minute] \in Nat
    BY DEF RoomInv, TypeOK
  <2>3. spent'[a] = IF actor = a THEN spent[a] + 1 ELSE spent[a]
    BY <1>1, <1>2, <2>2
  <2> QED
    BY <2>1, <2>2, <2>3
<1>9. FeedSound'
  <2> SUFFICES ASSUME NEW s \in Sockets, feed'[s] # Closed
               PROVE  feed'[s] = [version |-> version', objects |-> committed']
    BY DEF FeedSound
  <2>1. feed'[s] = snapshot'
    BY <1>4
  <2>2. committed' = objects'
    BY <1>1, LeaveFacts DEF committed
  <2> QED
    BY <2>1, <2>2 DEF snapshot
<1>10. AppliedOnceInOrder'
  <2>1. accepted \in Seq(Nat) /\ Len(accepted) = version
    BY DEF RoomInv, TypeOK, AppliedOnceInOrder
  <2>2. /\ Len(accepted') = version'
        /\ \A n \in 1..Len(accepted) : accepted'[n] = accepted[n]
        /\ accepted'[Len(accepted) + 1] = version
    BY <1>1, <1>2, <2>1
  <2>3. \A n \in 1..Len(accepted) : accepted[n] = n - 1
    BY DEF RoomInv, AppliedOnceInOrder
  <2> QED
    BY <1>1, <1>2, <2>1, <2>2, <2>3 DEF AppliedOnceInOrder
<1> QED
  BY <1>1, <1>6, <1>7, <1>8, <1>9, <1>10, LeaveFacts DEF RoomInv

LEMMA ConnectKeeps ==
  ASSUME RoomInv, NEW s \in Sockets, Connect(s) \/ Disconnect(s)
  PROVE  RoomInv'
<1>1. Idle /\ UNCHANGED <<version, objects, rate, minute, txVars, minted, history>>
  BY DEF Connect, Disconnect
<1>2. feed' = [feed EXCEPT ![s] = snapshot] \/ feed' = [feed EXCEPT ![s] = Closed]
  BY DEF Connect, Disconnect
<1>3. snapshot \in Snapshot /\ snapshot = [version |-> version, objects |-> committed]
  BY <1>1 DEF RoomInv, TypeOK, snapshot, Snapshot, committed
<1>4. TypeOK'
  BY <1>1, <1>2, <1>3 DEF RoomInv, TypeOK, txVars, history
<1>5. FeedSound'
  <2> SUFFICES ASSUME NEW t \in Sockets, feed'[t] # Closed
               PROVE  feed'[t] = [version |-> version, objects |-> committed]
    BY <1>1 DEF FeedSound, committed, Idle, txVars
  <2>1. feed \in [Sockets -> Snapshot \cup {Closed}]
    BY DEF RoomInv, TypeOK
  <2> QED
    BY <1>2, <1>3, <2>1 DEF RoomInv, FeedSound
<1>6. CountersExact' /\ OnlyOwnRows' /\ BoardsSound' /\ BudgetSound' /\ AppliedOnceInOrder'
  BY <1>1 DEF RoomInv, CountersExact, OnlyOwnRows, BoardsSound, BudgetSound, AppliedOnceInOrder,
     Idle, WithinCapacity, Placed, Owned, txVars, history
<1> QED
  BY <1>4, <1>5, <1>6 DEF RoomInv

LEMMA TickKeeps ==
  ASSUME RoomInv, Tick
  PROVE  RoomInv'
<1>1. /\ Idle /\ minute' = minute + 1 /\ minute < MaxMinute
      /\ spent' = [a \in Actors |-> 0]
      /\ UNCHANGED <<version, objects, rate, feed, txVars, minted, accepted>>
  BY DEF Tick
<1>2. minute' \in 0..MaxMinute
  BY <1>1, RoomAssumption DEF RoomInv, TypeOK
<1>3. TypeOK'
  BY <1>1, <1>2 DEF RoomInv, TypeOK, txVars
<1>4. BudgetSound'
  <2> SUFFICES ASSUME NEW a \in Actors PROVE 0 <= rate[a][minute'] /\ actor' # a /\ spent'[a] = 0
    BY <1>1 DEF BudgetSound, RoomInv
  <2>1. rate[a][minute'] \in Nat
    BY <1>2 DEF RoomInv, TypeOK
  <2>2. actor' # a
    BY <1>1, RoomAssumption DEF Idle, txVars
  <2> QED
    BY <1>1, <2>1, <2>2
<1>5. CountersExact' /\ OnlyOwnRows' /\ BoardsSound' /\ FeedSound' /\ AppliedOnceInOrder'
  BY <1>1 DEF RoomInv, CountersExact, OnlyOwnRows, BoardsSound, FeedSound, AppliedOnceInOrder,
     committed, Idle, WithinCapacity, Placed, Owned, txVars
<1> QED
  BY <1>3, <1>4, <1>5 DEF RoomInv

LEMMA CrashKeeps ==
  ASSUME RoomInv, Crash
  PROVE  RoomInv'
<1>1. /\ Leave /\ feed' = [s \in Sockets |-> Closed] /\ objects' = committed
      /\ rate' = IF Idle THEN rate ELSE [rate EXCEPT ![actor][minute] = @ - 1]
      /\ UNCHANGED <<version, minute, minted, accepted, spent>>
  BY DEF Crash, history, committed
<1>2. actor' = NoActor /\ objects' \in {objects, before} /\ before' = objects'
  BY <1>1 DEF Leave, committed
<1>3. /\ rate' \in [Actors -> [0..MaxMinute -> Nat]]
      /\ \A a \in Actors : /\ spent[a] <= rate'[a][minute]
                           /\ \A m \in 0..MaxMinute : rate'[a][m] <= RateLimit
  <2>1. /\ rate \in [Actors -> [0..MaxMinute -> Nat]]
        /\ minute \in 0..MaxMinute /\ spent \in [Actors -> Nat] /\ RateLimit \in Nat
    BY RoomAssumption DEF RoomInv, TypeOK
  <2>2. \A a \in Actors :
          /\ spent[a] + (IF actor = a THEN 1 ELSE 0) <= rate[a][minute]
          /\ \A m \in 0..MaxMinute : rate[a][m] <= RateLimit
    BY DEF RoomInv, BudgetSound
  <2>3. CASE Idle
    <3>1. \A a \in Actors : actor # a
      BY <2>3, RoomAssumption DEF Idle
    <3> QED
      BY <1>1, <2>1, <2>2, <2>3, <3>1
  <2>4. CASE ~Idle
    <3>1. actor \in Actors
      BY <2>4 DEF RoomInv, TypeOK, Idle
    <3> DEFINE n == rate[actor][minute] - 1
    <3>2. n \in Nat /\ spent[actor] <= n /\ n <= RateLimit
      <4>1. /\ rate[actor][minute] \in Nat /\ spent[actor] \in Nat
            /\ spent[actor] + 1 <= rate[actor][minute]
            /\ rate[actor][minute] <= RateLimit
        BY <2>1, <2>2, <3>1
      <4> QED
        BY <4>1, <2>1
    <3>3. rate' = [rate EXCEPT ![actor][minute] = n]
      BY <1>1, <2>1, <2>4, <3>1
    <3> HIDE DEF n
    <3>4. /\ rate' \in [Actors -> [0..MaxMinute -> Nat]]
          /\ \A b \in Actors : \A k \in 0..MaxMinute :
               rate'[b][k] = IF b = actor /\ k = minute THEN n ELSE rate[b][k]
      BY <2>1, <3>1, <3>2, <3>3, SetBucket
    <3> QED
      BY <2>1, <2>2, <3>1, <3>2, <3>4
  <2> QED
    BY <2>3, <2>4
<1>4. TypeOK'
  BY <1>1, <1>2, <1>3, LeaveFacts DEF RoomInv, TypeOK
<1>5. BoardsSound'
  <2>1. CASE objects' = objects
    BY <1>1, <1>2, <2>1 DEF RoomInv, BoardsSound, WithinCapacity, Placed, Owned
  <2>2. CASE objects' = before
    BY <1>1, <1>2, <2>2 DEF RoomInv, BoardsSound, WithinCapacity, Placed, Owned
  <2> QED
    BY <1>2, <2>1, <2>2
<1>6. BudgetSound'
  <2> SUFFICES ASSUME NEW a \in Actors
               PROVE  /\ actor' # a
                      /\ spent[a] + 0 <= rate'[a][minute]
                      /\ \A m \in 0..MaxMinute : rate'[a][m] <= RateLimit
    BY <1>1 DEF BudgetSound
  <2>1. spent[a] \in Nat /\ rate'[a][minute] \in Nat
    BY <1>3 DEF RoomInv, TypeOK
  <2> QED
    BY <1>2, <1>3, <2>1, RoomAssumption
<1>7. FeedSound' /\ AppliedOnceInOrder'
  BY <1>1 DEF RoomInv, FeedSound, AppliedOnceInOrder
<1> QED
  BY <1>1, <1>4, <1>5, <1>6, <1>7, LeaveFacts DEF RoomInv

-----------------------------------------------------------------------------
LEMMA RoomInvStep == RoomInv /\ [Next]_vars => RoomInv'
<1> SUFFICES ASSUME RoomInv, [Next]_vars PROVE RoomInv'
  OBVIOUS
<1>1. ASSUME NEW a \in Actors, Handler(a) PROVE RoomInv'
  <2>1. PICK v \in 0..version : Begin(a, v) \/ Limited(a, v)
    BY <1>1 DEF Handler
  <2>2. v \in Nat
    OBVIOUS
  <2> QED
    BY <2>1, <2>2, BeginKeeps, LimitedKeeps
<1>2. CASE Operation
  BY <1>2, PlaceKeeps, MoveKeeps, EditKeeps, DeleteKeeps DEF Operation
<1>3. CASE Refuse
  BY <1>3, RefuseKeeps
<1>4. CASE Commit
  BY <1>4, CommitKeeps
<1>5. ASSUME NEW s \in Sockets, Connect(s) \/ Disconnect(s) PROVE RoomInv'
  BY <1>5, ConnectKeeps
<1>6. CASE Crash
  BY <1>6, CrashKeeps
<1>7. CASE Tick
  BY <1>7, TickKeeps
<1>8. CASE UNCHANGED vars
  BY <1>8 DEF RoomInv, TypeOK, CountersExact, OnlyOwnRows, BoardsSound, BudgetSound, FeedSound,
     AppliedOnceInOrder, committed, Idle, WithinCapacity, Placed, Owned, vars, txVars, history
<1> QED
  BY <1>1, <1>2, <1>3, <1>4, <1>5, <1>6, <1>7, <1>8 DEF Next

(***************************************************************************)
(* The handler, a crash and the clock keep everything the running          *)
(* transaction relies on (ZoneRoom.ts:123-205): the strengthening of every *)
(* safety property below.                                                  *)
(***************************************************************************)
THEOREM RoomSound == Spec => []RoomInv
<1>1. Init => RoomInv
  BY RoomInvInit
<1>2. RoomInv /\ [Next]_vars => RoomInv'
  BY RoomInvStep
<1> QED
  BY <1>1, <1>2, PTL DEF Spec

\* Tables and handler locals keep their types (ZoneRoom.ts:12-37, 141-146).
THEOREM RoomTyped == Spec => []TypeOK
<1>1. RoomInv => TypeOK
  BY DEF RoomInv
<1> QED
  BY <1>1, RoomSound, PTL

\* Never more than MaxTotal objects, nor MaxActor of one visitor, not even
\* in the middle of a transaction (ZoneRoom.ts:141-152, 193-195).
THEOREM CapacityHolds == Spec => []Capacity
<1>1. RoomInv => Capacity
  BY DEF RoomInv, BoardsSound, Capacity
<1> QED
  BY <1>1, RoomSound, PTL

\* No visitor has more than RateLimit mutations accepted in one minute
\* (ZoneRoom.ts:85-93).
THEOREM RateLimitHolds == Spec => []RateHonoured
<1>1. RoomInv => RateHonoured
  <2> SUFFICES ASSUME RoomInv, NEW a \in Actors PROVE spent[a] <= RateLimit
    BY DEF RateHonoured
  <2>1. /\ spent[a] \in Nat /\ minute \in 0..MaxMinute
        /\ rate[a][minute] \in Nat /\ RateLimit \in Nat
    BY RoomAssumption DEF RoomInv, TypeOK
  <2>2. /\ spent[a] + (IF actor = a THEN 1 ELSE 0) <= rate[a][minute]
        /\ rate[a][minute] <= RateLimit
    BY <2>1 DEF RoomInv, BudgetSound
  <2> QED
    BY <2>1, <2>2
<1> QED
  BY <1>1, RoomSound, PTL

\* Every open socket was last sent the zone as it is (ZoneRoom.ts:95-117).
THEOREM SocketsAreCurrent == Spec => []SocketsCurrent
<1>1. RoomInv => SocketsCurrent
  BY DEF RoomInv, FeedSound, SocketsCurrent, snapshot, committed
<1> QED
  BY <1>1, RoomSound, PTL

\* Accepted mutations form one chain of versions: none is applied twice and
\* none is applied to a board its author had not seen (ZoneRoom.ts:129-133).
THEOREM MutationsChain == Spec => []AppliedOnceInOrder
<1>1. RoomInv => AppliedOnceInOrder
  BY DEF RoomInv
<1> QED
  BY <1>1, RoomSound, PTL

-----------------------------------------------------------------------------
(* Refinement.  The instance has its own copies of the operators below.    *)

LEMMA SameCardinality ==
  ASSUME NEW S
  PROVE  Ledger!Cardinality(S) = Cardinality(S)
BY DEF Ledger!Cardinality, Cardinality

LEMMA SameCapacity ==
  ASSUME NEW objs, WithinCapacity(objs)
  PROVE  Ledger!WithinCapacity(objs)
<1>1. Ledger!Placed(objs) = Placed(objs)
  BY DEF Ledger!Placed, Placed
<1>2. \A a : Ledger!Owned(objs, a) = Owned(objs, a)
  BY <1>1 DEF Ledger!Owned, Owned
<1> QED
  BY <1>1, <1>2, SameCardinality DEF WithinCapacity, Ledger!WithinCapacity

LEMMA LedgerInit == Init => Ledger!Init
BY DEF Init, Ledger!Init, committed, Idle

\* Only Commit moves the ledger, and it moves it by its author's mutation.
LEMMA LedgerStep ==
  RoomInv /\ [Next]_vars => [Ledger!Next]_(Ledger!ledgerVars)
<1> SUFFICES ASSUME RoomInv, [Next]_vars
             PROVE  Ledger!Next \/ UNCHANGED <<version, committed>>
  BY DEF Ledger!ledgerVars
<1>1. CASE Commit
  <2>1. /\ ~Idle /\ Leave /\ version' = version + 1 /\ objects' = objects
        /\ actor \in Actors
    BY <1>1 DEF Commit, Idle, RoomInv, TypeOK
  <2>2. committed = before /\ committed' = objects
    BY <2>1, LeaveFacts DEF committed
  <2>3. \A i \in Ids : objects[i] # before[i] =>
           Ledger!LegalEdit(actor, before[i], objects[i])
    BY <2>1 DEF RoomInv, OnlyOwnRows
  <2>4. Ledger!WithinCapacity(objects)
    BY SameCapacity DEF RoomInv, BoardsSound
  <2> QED
    BY <2>1, <2>2, <2>3, <2>4 DEF Ledger!Next, Ledger!Mutate
<1>2. ASSUME NEW a \in Actors, Handler(a) PROVE UNCHANGED <<version, committed>>
  <2>1. a # NoActor
    BY RoomAssumption
  <2> QED
    BY <1>2, <2>1 DEF Handler, Begin, Limited, committed, Idle, txVars
<1>3. CASE Operation
  BY <1>3 DEF Operation, Place, Move, Edit, Delete, NextOp, committed, Idle
<1>4. CASE Refuse
  BY <1>4, LeaveFacts DEF Refuse, committed
<1>5. ASSUME NEW s \in Sockets, Connect(s) \/ Disconnect(s) PROVE UNCHANGED <<version, committed>>
  BY <1>5 DEF Connect, Disconnect, committed, Idle, txVars
<1>6. CASE Crash
  BY <1>6, LeaveFacts DEF Crash, committed
<1>7. CASE Tick
  BY <1>7 DEF Tick, committed, Idle, txVars
<1>8. CASE UNCHANGED vars
  BY <1>8 DEF vars, txVars, committed, Idle
<1> QED
  BY <1>1, <1>2, <1>3, <1>4, <1>5, <1>6, <1>7, <1>8 DEF Next

(***************************************************************************)
(* The room implements the ledger: whatever requests, refusals, crashes    *)
(* and rollbacks interleave, visitors see a zone that moves by one whole   *)
(* legal mutation of one visitor at a time (ZoneRoom.ts:123-205).          *)
(***************************************************************************)
THEOREM RoomImplementsLedger == Spec => ImplementsLedger
<1>1. Init => Ledger!Init
  BY LedgerInit
<1>2. RoomInv /\ [Next]_vars => [Ledger!Next]_(Ledger!ledgerVars)
  BY LedgerStep
<1> QED
  BY <1>1, <1>2, RoomSound, PTL DEF Spec, Ledger!Spec, ImplementsLedger
=============================================================================

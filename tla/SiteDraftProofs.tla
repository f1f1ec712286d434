--------------------------- MODULE SiteDraftProofs ---------------------------
(***************************************************************************)
(* Proofs about SiteDraft for every number of requests, paths, contents    *)
(* and every file limit, when no two edits submit the same content         *)
(* (~Repeats; the run draft_twins shows that the condition is needed).     *)
(*                                                                         *)
(* The argument: a request that has not been accepted holds a content that *)
(* is in no accepted revision and in no other pending edit.  The revision  *)
(* it builds therefore differs from all of those, so what its rollback     *)
(* deletes is nobody else's.  An accepted revision was complete when it    *)
(* was accepted because its copies were read from an accepted revision,    *)
(* which nobody deletes.                                                   *)
(***************************************************************************)
EXTENDS SiteDraft, FiniteSetTheorems, TLAPS

-----------------------------------------------------------------------------
\* What an edit makes of a revision (SiteService.ts:229-231).
LEMMA EditOne ==
  ASSUME NEW r \in FileMap, NEW p \in Paths, NEW c \in Contents \cup {Absent},
         NEW s, s = [r EXCEPT ![p] = c]
  PROVE  s \in FileMap /\ s[p] = c /\ \A q \in Paths \ {p} : s[q] = r[q]
BY DEF FileMap

\* The starter revision is a file list (SiteService.ts:83-85).
LEMMA SeedTyped == Seed \in FileMap /\ \A p \in Paths : Seed[p] \in {Starter, Absent}
BY DraftAssumption DEF Seed, FileMap

\* A complete revision is what its prefix lists (SiteService.ts:222-227).
LEMMA ListingComplete ==
  ASSUME NEW r \in FileMap, Complete(r)
  PROVE  Listing(r) = r
<1>1. \A p \in Paths : Listing(r)[p] = r[p]
  BY DEF Listing, Complete, Files
<1>2. Listing(r) = [p \in Paths |-> r[p]]
  BY <1>1 DEF Listing
<1>3. r = [p \in Paths |-> r[p]]
  BY DEF FileMap
<1> QED
  BY <1>2, <1>3

-----------------------------------------------------------------------------
LEMMA DraftInvInit == Init => DraftInv
<1> SUFFICES ASSUME Init PROVE DraftInv
  OBVIOUS
<1> USE DraftAssumption, SeedTyped DEF Init
<1>1. TypeOK
  BY DEF TypeOK
<1>2. AcceptedKept /\ PendingFresh /\ TargetsOwn
  BY DEF AcceptedKept, PendingFresh, Pending, TargetsOwn
<1>3. CopiesKept
  BY DEF CopiesKept, Missing, Files
<1> QED
  BY <1>1, <1>2, <1>3 DEF DraftInv

\* The revision a pending request builds is accepted by nobody, is not the
\* starter's and is not what another request builds.
LEMMA TargetFresh ==
  ASSUME DraftInv, NEW e \in Editors, pc[e] \in {"copy", "cas", "undo"}
  PROVE  /\ next[e] \in FileMap
         /\ next[e] \notin drafted \cup {Seed}
         /\ \A f \in Editors \ {e} :
              pc[f] \in {"copy", "cas", "undo"} => next[f] # next[e]
<1> USE DEF DraftInv, TypeOK
<1> DEFINE p == edit[e].path
           c == edit[e].content
<1>1. p \in Paths /\ c \in Contents /\ base[e] \in FileMap
  BY DEF PendingFresh, Pending
<1>2. next[e] \in FileMap /\ next[e][p] = c
  BY <1>1, EditOne DEF TargetsOwn
<1>3. next[e] \notin drafted \cup {Seed}
  BY <1>1, <1>2 DEF PendingFresh, Pending
<1>4. ASSUME NEW f \in Editors \ {e}, pc[f] \in {"copy", "cas", "undo"}
      PROVE  next[f] # next[e]
  <2>1. /\ edit[f].path \in Paths /\ edit[f].content \in Contents
        /\ base[f] \in FileMap /\ base[f] \in drafted
        /\ next[f] = [base[f] EXCEPT ![edit[f].path] = edit[f].content]
    BY <1>4 DEF PendingFresh, Pending, TargetsOwn
  <2>2. edit[f].content # c /\ base[f][p] # c
    BY <1>4, <2>1 DEF PendingFresh, Pending
  <2>3. next[f][p] # c
    BY <1>1, <2>1, <2>2, EditOne
  <2> QED
    BY <1>2, <2>3
<1> QED
  BY <1>2, <1>3, <1>4

-----------------------------------------------------------------------------
\* Ending a request gives up everything the invariant says of it.
LEMMA EndKeeps ==
  ASSUME DraftInv, NEW e \in Editors, End(e), UNCHANGED <<draft, stored, drafted, used>>
  PROVE  DraftInv'
<1> USE DEF DraftInv, TypeOK, End, Goto
<1>1. TypeOK'
  BY DraftAssumption, SeedTyped
<1>2. \A f \in Editors : \/ f = e /\ pc'[f] = "idle"
                         \/ f # e /\ pc'[f] = pc[f] /\ edit'[f] = edit[f] /\ base'[f] = base[f]
                                  /\ next'[f] = next[f] /\ todo'[f] = todo[f]
  OBVIOUS
<1>3. AcceptedKept'
  BY DEF AcceptedKept, Complete
<1>4. PendingFresh'
  BY <1>2 DEF PendingFresh, Pending
<1>5. TargetsOwn'
  BY <1>2 DEF TargetsOwn
<1>6. CopiesKept'
  BY <1>2 DEF CopiesKept, Missing, Files
<1> QED
  BY <1>1, <1>3, <1>4, <1>5, <1>6

LEMMA StartKeeps ==
  ASSUME ~Repeats, DraftInv, NEW e \in Editors,
         NEW p \in Paths, NEW c \in Contents \cup {Absent}, Start(e, p, c)
  PROVE  DraftInv'
<1> USE DEF DraftInv, TypeOK, Start, Goto
<1>1. /\ c \in Contents /\ c \notin used /\ used' = used \cup {c}
      /\ edit'[e] = [path |-> p, content |-> c]
      /\ pc'[e] \in {"insert", "list"}
  OBVIOUS
<1>2. TypeOK'
  <2>1. base'[e] \in FileMap /\ base' = [base EXCEPT ![e] = base'[e]]
    BY SeedTyped
  <2>2. Index \in Paths /\ stored' \subseteq FileMap \X Paths
    BY SeedTyped, DraftAssumption
  <2> QED
    BY <1>1, <2>1, <2>2
<1>3. \A f \in Editors \ {e} :
         pc'[f] = pc[f] /\ edit'[f] = edit[f] /\ base'[f] = base[f]
      /\ next'[f] = next[f] /\ todo'[f] = todo[f]
  OBVIOUS
<1>4. drafted' = drafted /\ draft' = draft /\ stored \subseteq stored'
  OBVIOUS
<1>5. AcceptedKept'
  BY <1>4 DEF AcceptedKept, Complete
<1>6. PendingFresh'
  <2>1. \A r \in drafted \cup {Seed} : r[p] # c
    BY <1>1, SeedTyped, DraftAssumption
  <2>2. \A f \in Editors : Pending(f) => edit[f].content # c
    BY <1>1 DEF PendingFresh
  <2> QED
    BY <1>1, <1>3, <1>4, <2>1, <2>2 DEF PendingFresh, Pending
<1>7. TargetsOwn'
  <2>1. pc'[e] = "insert" => base'[e] = Seed /\ <<Seed, Index>> \in stored'
    OBVIOUS
  <2>2. pc'[e] = "list" => base'[e] \in drafted'
    BY <1>4
  <2>3. \A f \in Editors \ {e} :
          /\ pc'[f] = "insert" => base'[f] = Seed /\ <<Seed, Index>> \in stored'
          /\ pc'[f] \in {"list", "copy", "cas", "undo"} => base'[f] \in drafted'
          /\ pc'[f] \in {"copy", "cas", "undo"} =>
               next'[f] = [base'[f] EXCEPT ![edit'[f].path] = edit'[f].content]
    BY ONLY DraftInv, <1>3, <1>4 DEF DraftInv, TargetsOwn
  <2> QED
    BY ONLY <1>1, <2>1, <2>2, <2>3 DEF TargetsOwn
<1>8. CopiesKept'
  <2>1. Missing(e)' = Paths
    BY <1>1 DEF Missing
  <2> QED
    BY <1>3, <1>4, <2>1 DEF CopiesKept, Missing, Files
<1> QED
  BY <1>1, <1>2, <1>4, <1>5, <1>6, <1>7, <1>8

LEMMA InsertKeeps ==
  ASSUME DraftInv, NEW e \in Editors, Insert(e)
  PROVE  DraftInv'
<1> USE DEF DraftInv, TypeOK
<1>1. CASE draft # NoSite
  BY <1>1, EndKeeps DEF Insert
<1>2. CASE draft = NoSite
  <2>1. /\ pc[e] = "insert" /\ draft' = Seed /\ drafted' = drafted \cup {Seed}
        /\ pc' = [pc EXCEPT ![e] = "list"]
        /\ UNCHANGED <<edit, base, next, todo, stored, used>>
    BY <1>2 DEF Insert, Goto
  <2>2. TypeOK'
    BY <2>1, SeedTyped
  <2>3. base[e] = Seed /\ <<Seed, Index>> \in stored
    BY <2>1 DEF TargetsOwn
  <2>4. Complete(Seed)
    BY <2>3 DEF Complete, Files, Seed
  <2>5. AcceptedKept'
    BY <2>1, <2>4 DEF AcceptedKept, Complete
  <2>6. PendingFresh'
    BY <2>1 DEF PendingFresh, Pending
  <2>7. TargetsOwn'
    BY <2>1, <2>3 DEF TargetsOwn
  <2>8. CopiesKept'
    BY <2>1 DEF CopiesKept, Missing, Files
  <2>9. \A r \in drafted' : \A p \in Paths : r[p] \in used' \cup {Absent}
    BY <2>1, SeedTyped
  <2> QED
    BY <2>1, <2>2, <2>5, <2>6, <2>7, <2>8, <2>9
<1> QED
  BY <1>1, <1>2

LEMMA ListKeeps ==
  ASSUME DraftInv, NEW e \in Editors, List(e)
  PROVE  DraftInv'
<1> USE DEF DraftInv, TypeOK
<1> DEFINE p == edit[e].path
           new == [Listing(base[e]) EXCEPT ![p] = edit[e].content]
<1>1. CASE ~Valid(new)
  BY <1>1, EndKeeps DEF List
<1>2. CASE Valid(new)
  <2>1. /\ pc[e] = "list" /\ next' = [next EXCEPT ![e] = new]
        /\ todo' = [todo EXCEPT ![e] = Files(Listing(base[e])) \ {p}]
        /\ pc' = [pc EXCEPT ![e] = "copy"]
        /\ UNCHANGED <<draft, stored, edit, base, drafted, used>>
    BY <1>2 DEF List, Goto
  <2>2. base[e] \in drafted /\ base[e] \in FileMap /\ Complete(base[e])
    BY <2>1 DEF TargetsOwn, AcceptedKept
  <2>3. Listing(base[e]) = base[e]
    BY <2>2, ListingComplete
  <2>4. p \in Paths /\ edit[e].content \in Contents
    BY <2>1 DEF PendingFresh, Pending
  <2>5. new \in FileMap /\ \A q \in Paths \ {p} : new[q] = base[e][q]
    BY <2>2, <2>3, <2>4, EditOne
  <2>6. TypeOK'
    BY <2>1, <2>5 DEF Files
  <2>7. AcceptedKept'
    BY <2>1 DEF AcceptedKept, Complete
  <2>8. PendingFresh'
    BY <2>1 DEF PendingFresh, Pending
  <2>9. TargetsOwn'
    BY <2>1, <2>2, <2>3 DEF TargetsOwn
  <2>10. CopiesKept'
    <3>1. Files(new) \subseteq Files(base[e]) \cup {p}
      BY <2>5 DEF Files
    <3>2. next'[e] = new /\ Missing(e)' = Files(base[e]) \cup {p}
      BY <2>1, <2>3 DEF Missing
    <3> QED
      BY <2>1, <3>1, <3>2 DEF CopiesKept, Missing, Files
  <2> QED
    BY <2>1, <2>6, <2>7, <2>8, <2>9, <2>10
<1> QED
  BY <1>1, <1>2

LEMMA CopyKeeps ==
  ASSUME DraftInv, NEW e \in Editors, NEW p \in Paths, Copy(e, p)
  PROVE  DraftInv'
<1> USE DEF DraftInv, TypeOK
<1>1. /\ pc[e] = "copy" /\ p \in todo[e]
      /\ todo' = [todo EXCEPT ![e] = @ \ {p}]
      /\ stored' = IF <<base[e], p>> \in stored THEN stored \cup {<<next[e], p>>} ELSE stored
      /\ UNCHANGED <<draft, pc, edit, base, next, drafted, used>>
  BY DEF Copy
<1>2. TypeOK' /\ stored \subseteq stored'
  BY <1>1
<1>3. AcceptedKept' /\ PendingFresh' /\ TargetsOwn'
  BY <1>1, <1>2 DEF AcceptedKept, Complete, PendingFresh, Pending, TargetsOwn
<1>4. CopiesKept'
  <2>1. p # edit[e].path /\ p \in Files(next[e]) => <<next[e], p>> \in stored'
    <3> SUFFICES ASSUME p # edit[e].path, p \in Files(next[e])
                 PROVE  <<next[e], p>> \in stored'
      OBVIOUS
    <3>1. base[e] \in drafted /\ edit[e].path \in Paths
          /\ edit[e].content \in Contents \cup {Absent} /\ base[e] \in FileMap
          /\ next[e] = [base[e] EXCEPT ![edit[e].path] = edit[e].content]
      BY <1>1 DEF TargetsOwn
    <3>2. next[e][p] = base[e][p]
      BY <3>1, EditOne
    <3>3. <<base[e], p>> \in stored
      BY <3>1, <3>2 DEF AcceptedKept, Complete, Files
    <3> QED
      BY <1>1, <3>3
  <2>2. Missing(e)' = (todo[e] \ {p}) \cup {edit[e].path}
    BY <1>1 DEF Missing
  <2>3. Missing(e) = todo[e] \cup {edit[e].path}
    BY <1>1 DEF Missing
  <2>4. \A q \in Files(next[e]) \ Missing(e)' : <<next[e], q>> \in stored'
    BY <1>2, <2>1, <2>2, <2>3 DEF CopiesKept
  <2> QED
    BY <1>1, <1>2, <2>4 DEF CopiesKept, Missing, Files
<1> QED
  BY <1>1, <1>2, <1>3, <1>4

LEMMA PutKeeps ==
  ASSUME DraftInv, NEW e \in Editors, Put(e)
  PROVE  DraftInv'
<1> USE DEF DraftInv, TypeOK
<1>1. /\ pc[e] = "copy" /\ todo[e] = {} /\ pc' = [pc EXCEPT ![e] = "cas"]
      /\ stored' = IF edit[e].content = Absent THEN stored
                   ELSE stored \cup {<<next[e], edit[e].path>>}
      /\ UNCHANGED <<draft, edit, base, next, todo, drafted, used>>
  BY DEF Put, Goto
<1>2. TypeOK' /\ stored \subseteq stored'
  BY <1>1
<1>3. AcceptedKept' /\ PendingFresh' /\ TargetsOwn'
  BY <1>1, <1>2 DEF AcceptedKept, Complete, PendingFresh, Pending, TargetsOwn
<1>4. CopiesKept'
  <2>1. edit[e].content # Absent
    BY <1>1, DraftAssumption DEF PendingFresh, Pending
  <2>2. Missing(e) = {edit[e].path}
    BY <1>1 DEF Missing
  <2>3. \A q \in Files(next[e]) : <<next[e], q>> \in stored'
    BY <1>1, <1>2, <2>1, <2>2 DEF CopiesKept
  <2> QED
    BY <1>1, <1>2, <2>3 DEF CopiesKept, Missing, Files
<1> QED
  BY <1>1, <1>2, <1>3, <1>4

LEMMA CasKeeps ==
  ASSUME DraftInv, NEW e \in Editors, Cas(e)
  PROVE  DraftInv'
<1> USE DEF DraftInv, TypeOK, Goto
<1>1. pc[e] = "cas" /\ UNCHANGED <<stored, used>>
  BY DEF Cas
<1>2. CASE draft # base[e]
  <2>1. /\ pc' = [pc EXCEPT ![e] = "undo"]
        /\ todo' = [todo EXCEPT ![e] = Files(next[e])]
        /\ UNCHANGED <<draft, edit, base, next, drafted>>
    BY <1>2 DEF Cas
  <2>2. TypeOK'
    BY <1>1, <2>1 DEF Files
  <2>3. AcceptedKept' /\ PendingFresh' /\ TargetsOwn'
    BY <1>1, <2>1 DEF AcceptedKept, Complete, PendingFresh, Pending, TargetsOwn
  <2>4. CopiesKept'
    BY <1>1, <2>1 DEF CopiesKept, Missing, Files
  <2> QED
    BY <1>1, <2>1, <2>2, <2>3, <2>4
<1>3. CASE draft = base[e]
  <2>1. draft' = next[e] /\ drafted' = drafted \cup {next[e]} /\ End(e)
    BY <1>3 DEF Cas
  <2>2. next[e] \in FileMap /\ base[e] \in FileMap /\ base[e] \in drafted
        /\ edit[e].path \in Paths /\ edit[e].content \in Contents \cap used
        /\ next[e] = [base[e] EXCEPT ![edit[e].path] = edit[e].content]
    BY <1>1 DEF TargetsOwn, PendingFresh, Pending
  <2>3. /\ next[e][edit[e].path] = edit[e].content
        /\ \A q \in Paths \ {edit[e].path} : next[e][q] = base[e][q]
    BY ONLY <2>2 DEF FileMap
  <2>4. \A f \in Editors : \/ f = e /\ pc'[f] = "idle"
                           \/ f # e /\ pc'[f] = pc[f] /\ edit'[f] = edit[f] /\ base'[f] = base[f]
                                    /\ next'[f] = next[f] /\ todo'[f] = todo[f]
    BY <2>1 DEF End
  <2>5. TypeOK'
    BY <1>1, <2>1, <2>2, SeedTyped, DraftAssumption DEF End
  <2>6. Complete(next[e])
    BY <1>1 DEF CopiesKept, Missing, Complete
  <2>7. AcceptedKept'
    BY <1>1, <2>1, <2>6 DEF AcceptedKept, Complete
  <2>8. PendingFresh'
    <3>1. ASSUME NEW f \in Editors, Pending(f)'
          PROVE  /\ f # e /\ Pending(f) /\ edit'[f] = edit[f]
                 /\ next[e][edit[f].path] # edit[f].content
      <4>1. f # e /\ Pending(f) /\ edit'[f] = edit[f]
        BY <2>4, <3>1 DEF Pending
      <4>2. edit[f].content # edit[e].content /\ edit[f].path \in Paths
        BY <1>1, <4>1 DEF PendingFresh, Pending
      <4>3. base[e][edit[f].path] # edit[f].content
        BY <2>2, <4>1 DEF PendingFresh
      <4> QED
        BY <2>3, <4>1, <4>2, <4>3
    <3> QED
      BY <1>1, <2>1, <3>1 DEF PendingFresh
  <2>9. TargetsOwn'
    BY <1>1, <2>1, <2>4 DEF TargetsOwn
  <2>10. CopiesKept'
    BY <1>1, <2>4 DEF CopiesKept, Missing, Files
  <2>11. \A r \in drafted' : \A p \in Paths : r[p] \in used' \cup {Absent}
    BY <1>1, <2>1, <2>2, <2>3
  <2> QED
    BY <1>1, <2>1, <2>5, <2>7, <2>8, <2>9, <2>10, <2>11
<1> QED
  BY <1>2, <1>3

LEMMA UndoKeeps ==
  ASSUME DraftInv, NEW e \in Editors, NEW p \in Paths, Undo(e, p)
  PROVE  DraftInv'
<1> USE DEF DraftInv, TypeOK
<1>1. /\ pc[e] = "undo" /\ todo' = [todo EXCEPT ![e] = @ \ {p}]
      /\ stored' \in {stored, stored \ {<<next[e], p>>}}
      /\ UNCHANGED <<draft, pc, edit, base, next, drafted, used>>
  BY DEF Undo
<1>2. TypeOK'
  BY <1>1
<1>3. /\ next[e] \notin drafted \cup {Seed}
      /\ \A f \in Editors \ {e} : pc[f] \in {"copy", "cas", "undo"} => next[f] # next[e]
  BY <1>1, TargetFresh
<1>4. \A r, q : r # next[e] /\ <<r, q>> \in stored => <<r, q>> \in stored'
  BY <1>1
<1>5. AcceptedKept'
  BY <1>1, <1>3, <1>4 DEF AcceptedKept, Complete
<1>6. PendingFresh'
  BY <1>1 DEF PendingFresh, Pending
<1>7. TargetsOwn'
  BY <1>1, <1>3, <1>4 DEF TargetsOwn
<1>8. CopiesKept'
  <2> SUFFICES ASSUME NEW f \in Editors, NEW q \in Files(next[f]) \ Missing(f)'
               PROVE  <<next[f], q>> \in stored'
    BY <1>1 DEF CopiesKept, Files
  <2>1. pc[f] \in {"copy", "cas"} /\ q \notin Missing(f)
    BY <1>1 DEF Missing, Files
  <2>2. f # e /\ next[f] # next[e]
    BY <1>1, <1>3, <2>1
  <2> QED
    BY <1>4, <2>1, <2>2 DEF CopiesKept
<1> QED
  BY <1>1, <1>2, <1>5, <1>6, <1>7, <1>8

-----------------------------------------------------------------------------
LEMMA DraftInvNext ==
  ASSUME ~Repeats, DraftInv, [Next]_vars
  PROVE  DraftInv'
<1>1. CASE UNCHANGED vars
  BY <1>1 DEF vars, requestVars, DraftInv, TypeOK, AcceptedKept, Complete, PendingFresh,
              Pending, TargetsOwn, CopiesKept, Missing, Files
<1>2. ASSUME NEW e \in Editors, NEW p \in Paths, NEW c \in Contents \cup {Absent},
             Start(e, p, c)
      PROVE  DraftInv'
  BY <1>2, StartKeeps
<1>3. ASSUME NEW e \in Editors, Insert(e) \/ List(e) \/ Put(e) \/ Cas(e)
      PROVE  DraftInv'
  BY <1>3, InsertKeeps, ListKeeps, PutKeeps, CasKeeps
<1>4. ASSUME NEW e \in Editors, Undone(e) \/ Die(e) PROVE DraftInv'
  BY <1>4, EndKeeps DEF Undone, Die
<1>5. ASSUME NEW e \in Editors, NEW p \in Paths, Copy(e, p) \/ Undo(e, p)
      PROVE  DraftInv'
  BY <1>5, CopyKeeps, UndoKeeps
<1> QED
  BY <1>1, <1>2, <1>3, <1>4, <1>5 DEF Next, Request

\* As long as no two edits submit the same content, rollback, copy and
\* acceptance keep the whole of DraftInv (SiteService.ts:211-261).
THEOREM DraftSound ==
  ASSUME ~Repeats PROVE Spec => []DraftInv
<1>1. Init => DraftInv
  BY DraftInvInit
<1>2. DraftInv /\ [Next]_vars => DraftInv'
  BY DraftInvNext
<1> QED
  BY <1>1, <1>2, PTL DEF Spec

\* A revision that was once the draft keeps all its files, whatever losing
\* requests roll back and wherever requests stop (SiteService.ts:235-261).
THEOREM AcceptedRevisionsKept ==
  ASSUME ~Repeats PROVE Spec => []AcceptedKept
<1>1. DraftInv => AcceptedKept
  BY DEF DraftInv
<1> QED
  BY <1>1, DraftSound, PTL

\* What a save answered with is there to be shown (SiteService.ts:251-263);
\* draft_twins refutes it when two edits submit the same content.
THEOREM SavedDraftIsShown ==
  ASSUME ~Repeats PROVE Spec => []SavedDraftShown
<1>1. DraftInv => SavedDraftShown
  BY DEF DraftInv, AcceptedKept, SavedDraftShown
<1> QED
  BY <1>1, DraftSound, PTL

\* An accepted save or deletion changes one file of the draft it replaces,
\* whatever other requests wrote and deleted meanwhile (SiteService.ts:229-253).
THEOREM OneFileChanges ==
  ASSUME ~Repeats PROVE Spec => OneFileAtATime
<1>1. ASSUME DraftInv, Next, draft # NoSite, draft' # draft
      PROVE  \E p \in Paths : \A q \in Paths \ {p} : draft'[q] = draft[q]
  <2>1. PICK e \in Editors : Request(e)
    BY <1>1 DEF Next
  <2>2. Cas(e)
    BY <1>1, <2>1 DEF Request, Start, Insert, List, Put, Cas, Undone, Die, Copy, Undo
  <2>3. /\ pc[e] = "cas" /\ draft = base[e] /\ draft' = next[e]
        /\ base[e] \in FileMap /\ edit[e].path \in Paths
        /\ edit[e].content \in Contents \cup {Absent}
        /\ next[e] = [base[e] EXCEPT ![edit[e].path] = edit[e].content]
    BY <1>1, <2>2 DEF Cas, DraftInv, TypeOK, TargetsOwn
  <2> QED
    BY <2>3, EditOne
<1>2. DraftInv /\ [Next]_vars =>
        [draft # NoSite /\ draft' # draft =>
           \E p \in Paths : \A q \in Paths \ {p} : draft'[q] = draft[q]]_vars
  BY <1>1
<1> QED
  BY <1>2, DraftSound, PTL DEF Spec, OneFileAtATime

-----------------------------------------------------------------------------
(* Types and the file limit, which hold whatever is submitted.             *)

\* What a request works on is valid before it may be accepted.
TargetsValid == \A e \in Editors : pc[e] \in {"copy", "cas"} => Valid(next[e])

\* Ending a request keeps types and validity.
LEMMA EndTyped ==
  ASSUME TypeOK, DraftValid, TargetsValid, NEW e \in Editors, End(e),
         UNCHANGED <<draft, stored, drafted, used>>
  PROVE  TypeOK' /\ DraftValid' /\ TargetsValid'
<1> USE DEF End, Goto, TypeOK
<1>1. TypeOK'
  BY DraftAssumption, SeedTyped
<1>2. \A f \in Editors : f # e => pc'[f] = pc[f] /\ next'[f] = next[f]
  OBVIOUS
<1>3. TargetsValid'
  BY <1>2 DEF TargetsValid, Valid, Files
<1> QED
  BY <1>1, <1>3 DEF DraftValid, Valid, Files

\* The starter page alone is a valid site (SiteService.ts:83-85).
LEMMA SeedValid == Valid(Seed)
<1>1. Files(Seed) = {Index}
  BY DraftAssumption DEF Files, Seed
<1>2. Cardinality({Index}) = 1
  BY FS_Singleton
<1> QED
  BY <1>1, <1>2, DraftAssumption DEF Valid

\* Every step keeps types and validity: what is accepted was validated
\* before the copying began, and nothing changes it in between.
LEMMA ValidStep ==
  ASSUME TypeOK, DraftValid, TargetsValid, [Next]_vars
  PROVE  TypeOK' /\ DraftValid' /\ TargetsValid'
<1>1. CASE UNCHANGED vars
  BY <1>1 DEF vars, requestVars, TypeOK, DraftValid, TargetsValid, Valid, Files
<1>2. ASSUME NEW e \in Editors, NEW p \in Paths, NEW c \in Contents \cup {Absent},
             Start(e, p, c)
      PROVE  TypeOK' /\ DraftValid' /\ TargetsValid'
  <2> USE DEF Start, Goto, TypeOK
  <2>1. stored' \subseteq FileMap \X Paths /\ base' \in [Editors -> FileMap]
    BY <1>2, SeedTyped, DraftAssumption
  <2>2. pc' \in [Editors -> {"idle", "insert", "list", "copy", "cas", "undo"}] /\ pc'[e] \in {"insert", "list"}
    BY <1>2
  <2>3. TypeOK'
    BY <1>2, <2>1, <2>2
  <2>4. \A f \in Editors : f # e => pc'[f] = pc[f]
    BY <1>2
  <2>5. TargetsValid'
    BY <1>2, <2>2, <2>4 DEF TargetsValid, Valid, Files
  <2> QED
    BY <1>2, <2>3, <2>5 DEF DraftValid, Valid, Files
<1>3. ASSUME NEW e \in Editors, Insert(e)
      PROVE  TypeOK' /\ DraftValid' /\ TargetsValid'
  <2>1. CASE draft # NoSite
    BY <1>3, <2>1, EndTyped DEF Insert
  <2>2. CASE draft = NoSite
    <3>1. /\ draft' = Seed /\ drafted' = drafted \cup {Seed} /\ pc' = [pc EXCEPT ![e] = "list"]
          /\ UNCHANGED <<stored, edit, base, next, todo, used>>
      BY <1>3, <2>2 DEF Insert, Goto
    <3>2. TypeOK'
      BY <3>1, SeedTyped DEF TypeOK
    <3>3. TargetsValid'
      BY <3>1 DEF TypeOK, TargetsValid, Valid, Files
    <3>4. DraftValid'
      BY <3>1, SeedValid DEF DraftValid, Valid, Files
    <3> QED
      BY <3>2, <3>3, <3>4
  <2> QED
    BY <2>1, <2>2
<1>4. ASSUME NEW e \in Editors, List(e)
      PROVE  TypeOK' /\ DraftValid' /\ TargetsValid'
  <2> DEFINE old == Listing(base[e])
             new == [old EXCEPT ![edit[e].path] = edit[e].content]
  <2>1. CASE Valid(new)
    <3>1. old \in FileMap
      BY DEF Listing, FileMap, TypeOK
    <3>2. new \in FileMap
      BY <3>1 DEF FileMap, TypeOK
    <3>3. Files(old) \ {edit[e].path} \in SUBSET Paths
      BY DEF Files
    <3> HIDE DEF old, new
    <3>4. /\ next' = [next EXCEPT ![e] = new] /\ pc' = [pc EXCEPT ![e] = "copy"]
          /\ todo' = [todo EXCEPT ![e] = Files(old) \ {edit[e].path}]
          /\ UNCHANGED <<draft, stored, edit, base, drafted, used>>
      BY <1>4, <2>1 DEF List, Goto, End, TypeOK, old, new
    <3>5. TypeOK'
      BY <3>2, <3>3, <3>4 DEF TypeOK
    <3>6. \A f \in Editors : pc'[f] \in {"copy", "cas"} => Valid(next'[f])
      BY <2>1, <3>4 DEF TypeOK, TargetsValid
    <3>7. TargetsValid'
      BY <3>6 DEF TargetsValid, Valid, Files
    <3> QED
      BY <3>4, <3>5, <3>7 DEF DraftValid, Valid, Files
  <2>2. CASE ~Valid(new)
    BY <1>4, <2>2, EndTyped DEF List
  <2> QED
    BY <2>1, <2>2
<1>5. ASSUME NEW e \in Editors, NEW p \in Paths, Copy(e, p) \/ Undo(e, p)
      PROVE  TypeOK' /\ DraftValid' /\ TargetsValid'
  <2>1. stored' \subseteq FileMap \X Paths /\ UNCHANGED <<draft, pc, edit, base, next, drafted, used>>
    BY <1>5 DEF Copy, Undo, TypeOK
  <2>2. todo' \in [Editors -> SUBSET Paths]
    BY <1>5 DEF Copy, Undo, TypeOK
  <2> QED
    BY <2>1, <2>2 DEF TypeOK, DraftValid, TargetsValid, Valid, Files
<1>6. ASSUME NEW e \in Editors, Put(e)
      PROVE  TypeOK' /\ DraftValid' /\ TargetsValid'
  <2>1. /\ stored' \subseteq FileMap \X Paths /\ pc[e] = "copy" /\ pc' = [pc EXCEPT ![e] = "cas"]
        /\ UNCHANGED <<draft, edit, base, next, todo, drafted, used>>
    BY <1>6 DEF Put, Goto, TypeOK
  <2>2. TypeOK'
    BY <2>1 DEF TypeOK
  <2>3. TargetsValid'
    BY <2>1 DEF TypeOK, TargetsValid, Valid, Files
  <2> QED
    BY <2>1, <2>2, <2>3 DEF DraftValid, Valid, Files
<1>7. ASSUME NEW e \in Editors, Cas(e)
      PROVE  TypeOK' /\ DraftValid' /\ TargetsValid'
  <2>1. CASE draft = base[e]
    <3>1. /\ draft' = next[e] /\ drafted' = drafted \cup {next[e]} /\ End(e)
          /\ UNCHANGED <<stored, used>> /\ pc[e] = "cas"
      BY <1>7, <2>1 DEF Cas
    <3>2. TypeOK'
      BY <3>1, DraftAssumption, SeedTyped DEF TypeOK, End, Goto
    <3>3. \A f \in Editors : f # e => pc'[f] = pc[f] /\ next'[f] = next[f]
      BY <3>1 DEF End, Goto, TypeOK
    <3>4. pc'[e] = "idle"
      BY <3>1 DEF End, Goto, TypeOK
    <3>5. TargetsValid'
      BY <3>3, <3>4 DEF TargetsValid, Valid, Files
    <3>6. DraftValid'
      BY <3>1 DEF DraftValid, TargetsValid, Valid, Files
    <3> QED
      BY <3>2, <3>5, <3>6
  <2>2. CASE draft # base[e]
    <3>1. /\ todo' = [todo EXCEPT ![e] = Files(next[e])] /\ pc' = [pc EXCEPT ![e] = "undo"]
          /\ UNCHANGED <<draft, edit, base, next, drafted, stored, used>>
      BY <1>7, <2>2 DEF Cas, Goto
    <3>2. Files(next[e]) \in SUBSET Paths
      BY DEF Files
    <3>3. TypeOK'
      BY <3>1, <3>2 DEF TypeOK
    <3>4. TargetsValid'
      BY <3>1 DEF TypeOK, TargetsValid, Valid, Files
    <3> QED
      BY <3>1, <3>3, <3>4 DEF DraftValid, Valid, Files
  <2> QED
    BY <2>1, <2>2
<1>8. ASSUME NEW e \in Editors, Undone(e) \/ Die(e)
      PROVE  TypeOK' /\ DraftValid' /\ TargetsValid'
  BY <1>8, EndTyped DEF Undone, Die
<1> QED
  BY <1>1, <1>2, <1>3, <1>4, <1>5, <1>6, <1>7, <1>8 DEF Next, Request

\* Types and validity of the initial state.
LEMMA ValidInit == Init => TypeOK /\ DraftValid /\ TargetsValid
<1> SUFFICES ASSUME Init PROVE TypeOK /\ DraftValid /\ TargetsValid
  OBVIOUS
<1>1. TypeOK
  BY DraftAssumption, SeedTyped DEF Init, TypeOK
<1> QED
  BY <1>1 DEF Init, DraftValid, TargetsValid

\* Type correctness of draft editing, repeated contents and deletions included.
THEOREM DraftTyped == Spec => []TypeOK
BY ValidInit, ValidStep, PTL DEF Spec

\* validateSiteBundle: the draft always has an index.html and stays within
\* the file limit, whatever is saved, deleted, repeated or overlaps
\* (SiteService.ts:229-253, 318-358).
THEOREM DraftIsValid == Spec => []DraftValid
BY ValidInit, ValidStep, PTL DEF Spec
=============================================================================

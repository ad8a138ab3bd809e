-------------------------- MODULE ExpertMemoryProofs --------------------------
(***************************************************************************)
(* Theorems about ExpertMemory, for any number of notes, sessions and      *)
(* insights, any limit, and every event.                                   *)
(***************************************************************************)
EXTENDS ExpertMemory, FiniteSetTheorems, TLAPS

\* The limit, of the entries M.
Within(M) == Cardinality(M) <= MaxEntries \/ M \cap Prunable = {}

\* What makes TypeOK inductive: a request creates entries only while it has some
\* left to create, it starts with none, a note is one entry, and only what may be
\* pruned is chosen.
MakeInv ==
  \A r \in Requests :
    /\ pc[r] = "create" => made[r] < toMake[r]
    /\ pc[r] \in {"idle", "chat"} => made[r] = 0 /\ toMake[r] = 0
    /\ r \in Notes => toMake[r] <= 1 /\ pc[r] # "chat"
    /\ doomed[r] \subseteq Prunable

Inv == TypeOK /\ MakeInv

\* What bounds the memories: a request failed, one that inserted has still to
\* count, the limit holds, or a prune is under way that will make it hold.
PruneInv ==
  \/ \E r \in Requests : pc[r] \in {"failed", "count"}
  \/ \E r \in Requests : pc[r] = "create" /\ made[r] > 0
  \/ Within(memories)
  \/ \E r \in Requests : pc[r] = "select" /\ Cardinality(memories) <= MaxEntries + excess[r]
  \/ \E r \in Requests : pc[r] = "delete" /\ Within(memories \ doomed[r])

------------------------------------------------------------------------------
(* Types. *)

\* There are finitely many entries, so the memories can be counted.
LEMMA FiniteMemories ==
  ASSUME NEW M \in SUBSET Entries
  PROVE  IsFiniteSet(M) /\ Cardinality(M) \in Nat
<1>1. IsFiniteSet(0 .. MaxInsights) /\ IsFiniteSet({0})
  <2>1. 0 \in Int /\ MaxInsights \in Int
    BY BoundsAssumption
  <2>2. IsFiniteSet(0 .. MaxInsights)
    BY <2>1, FS_Interval
  <2> QED BY <2>2, FS_Singleton
<1>2. IsFiniteSet(Notes) /\ IsFiniteSet(Sessions)
  <2>1. Notes \in SUBSET Requests /\ Sessions \in SUBSET Requests
    BY DEF Requests
  <2> QED BY <2>1, FS_Subset, RequestsAssumption
<1>3. IsFiniteSet(Notes \X {0}) /\ IsFiniteSet(Prunable)
  BY <1>1, <1>2, FS_Product DEF Prunable
<1>4. IsFiniteSet(Entries)
  BY <1>3, FS_Union DEF Entries
<1>5. IsFiniteSet(M)
  BY <1>4, FS_Subset
<1> QED BY <1>5, FS_CardinalityType

\* Initially every variable has its type and no request has created anything.
LEMMA TypeInit == Init => Inv
BY BoundsAssumption DEF Init, Inv, TypeOK, MakeInv, Pcs

\* Every step keeps the types and the place of a request in its creations.
LEMMA TypeNext == Inv /\ [Next]_vars => Inv'
<1> SUFFICES ASSUME Inv, [Next]_vars PROVE Inv'
  OBVIOUS
<1> USE BoundsAssumption, RequestsAssumption
    DEF Inv, TypeOK, MakeInv, Pcs, Goto, Requests
<1>0. Cardinality(memories) \in Nat
  BY FiniteMemories
<1>p. Prunable \subseteq Entries
  BY DEF Entries
<1>1. ASSUME NEW n \in Notes, CreateNote(n) PROVE Inv'
  BY <1>1 DEF CreateNote, End
<1>2. ASSUME NEW g \in Sessions, GenerateSessionMemory(g) PROVE Inv'
  BY <1>2 DEF GenerateSessionMemory
<1>3. ASSUME NEW g \in Sessions, Answer(g) PROVE Inv'
  BY <1>3 DEF Answer
<1>4. ASSUME NEW r \in Requests, Create(r) PROVE Inv'
  <2>1. CASE expert
    <3>1. <<r, made[r]>> \in Entries
      BY <1>4 DEF Create, Entries, Prunable
    <3> QED BY <1>4, <2>1, <3>1 DEF Create
  <2>2. CASE ~expert
    BY <1>4, <2>2 DEF Create, End
  <2> QED BY <2>1, <2>2
<1>5. ASSUME NEW r \in Requests, CountEntries(r) PROVE Inv'
  <2>1. CASE Cardinality(memories) <= MaxEntries
    BY <1>5, <2>1 DEF CountEntries, End
  <2>2. CASE ~(Cardinality(memories) <= MaxEntries)
    BY <1>5, <2>2, <1>0 DEF CountEntries
  <2> QED BY <2>1, <2>2
<1>6. ASSUME NEW r \in Requests, Select(r) PROVE Inv'
  BY <1>6, <1>p DEF Select, FirstOf, End
<1>7. ASSUME NEW r \in Requests, Delete(r) PROVE Inv'
  BY <1>7 DEF Delete, End
<1>8. ASSUME NEW r \in Requests, Failure(r) PROVE Inv'
  BY <1>8 DEF Failure, End
<1>9. ASSUME NEW m \in Entries, Remove(m) PROVE Inv'
  BY <1>9 DEF Remove
<1>10. CASE ClearAllByExpert
  BY <1>10 DEF ClearAllByExpert
<1>11. CASE RemoveExpert
  BY <1>11 DEF RemoveExpert
<1>12. CASE Crash
  BY <1>12 DEF Crash
<1>13. CASE UNCHANGED vars
  BY <1>13 DEF vars
<1> QED BY <1>1, <1>2, <1>3, <1>4, <1>5, <1>6, <1>7, <1>8, <1>9, <1>10, <1>11, <1>12,
           <1>13 DEF Next, Prune

\* The types and the creations hold in every reachable state.
LEMMA InvCorrect == Spec => []Inv
BY TypeInit, TypeNext, PTL DEF Spec

\* Every reachable state of an expert's memories has its types.
THEOREM TypeCorrect == Spec => []TypeOK
<1>1. Inv => TypeOK
  BY DEF Inv
<1> QED BY <1>1, InvCorrect, PTL

\* No prune ever chose a note to delete.
THEOREM NotesAreNeverPruned == Spec => []NotesAreSafe
<1>1. Inv => NotesAreSafe
  BY DEF Inv, MakeInv, NotesAreSafe
<1> QED BY <1>1, InvCorrect, PTL

------------------------------------------------------------------------------
(* The limit. *)

\* Fewer entries keep to the limit.
LEMMA WithinFewer ==
  ASSUME NEW M \in SUBSET Entries, NEW L \in SUBSET M, Within(M)
  PROVE  Within(L)
<1>1. IsFiniteSet(M) /\ Cardinality(M) \in Nat
  BY FiniteMemories
<1>2. Cardinality(L) <= Cardinality(M)
  BY <1>1, FS_Subset
<1>3. Cardinality(L) \in Nat
  BY <1>1, FS_Subset, FS_CardinalityType
<1> QED BY <1>1, <1>2, <1>3, BoundsAssumption DEF Within

\* A step that only takes entries away and moves no request keeps PruneInv.
LEMMA PruneFewer ==
  ASSUME Inv, PruneInv, memories' \subseteq memories, UNCHANGED <<pc, made, excess, doomed>>
  PROVE  PruneInv'
<1> USE BoundsAssumption DEF Inv, TypeOK
<1>1. Cardinality(memories) \in Nat /\ IsFiniteSet(memories)
  BY FiniteMemories
<1>2. Cardinality(memories') \in Nat /\ Cardinality(memories') <= Cardinality(memories)
  BY <1>1, FS_Subset, FS_CardinalityType
<1>3. Within(memories) => Within(memories')
  BY WithinFewer
<1>4. ASSUME NEW r \in Requests, Within(memories \ doomed[r])
      PROVE  Within(memories' \ doomed[r])
  <2>1. memories \ doomed[r] \in SUBSET Entries
    OBVIOUS
  <2>2. memories' \ doomed[r] \in SUBSET (memories \ doomed[r])
    OBVIOUS
  <2> QED BY <1>4, <2>1, <2>2, WithinFewer
<1>5. CASE \E r \in Requests : pc[r] = "select" /\ Cardinality(memories) <= MaxEntries + excess[r]
  <2> PICK r \in Requests : pc[r] = "select" /\ Cardinality(memories) <= MaxEntries + excess[r]
    BY <1>5
  <2>1. Cardinality(memories') <= MaxEntries + excess'[r]
    BY <1>1, <1>2
  <2> QED BY <2>1 DEF PruneInv
<1>6. CASE \E r \in Requests : pc[r] = "delete" /\ Within(memories \ doomed[r])
  BY <1>4, <1>6 DEF PruneInv, Within
<1>7. CASE Within(memories)
  BY <1>3, <1>7 DEF PruneInv, Within
<1> QED BY <1>5, <1>6, <1>7 DEF PruneInv

\* Deleting what Select chose on an excess that covers the memories leaves them
\* within the limit.
LEMMA ChosenSuffices ==
  ASSUME NEW M \in SUBSET Entries, NEW n \in Nat, Cardinality(M) <= MaxEntries + n,
         NEW D \in FirstOf(M \cap Prunable, n)
  PROVE  Within(M \ D)
<1>1. IsFiniteSet(M) /\ Cardinality(M) \in Nat
  BY FiniteMemories
<1>2. CASE Cardinality(D) = n
  <2>1. D \subseteq M
    BY DEF FirstOf
  <2>2. IsFiniteSet(D) /\ M \cap D = D
    BY <1>1, <2>1, FS_Subset
  <2>3. Cardinality(M \ D) = Cardinality(M) - Cardinality(M \cap D)
    BY <1>1, <2>2, FS_Difference
  <2>4. Cardinality(M \ D) = Cardinality(M) - n
    BY <1>2, <2>2, <2>3
  <2>5. Cardinality(M \ D) <= MaxEntries
    BY <1>1, <2>4, BoundsAssumption
  <2> QED BY <2>5 DEF Within
<1>3. CASE D = M \cap Prunable
  BY <1>3 DEF Within
<1> QED BY <1>2, <1>3 DEF FirstOf

\* Initially there is nothing to prune.
LEMMA PruneInit == Init => PruneInv
BY DEF Init, PruneInv, Within

\* Every step keeps the account of who will bring the memories within the limit.
LEMMA PruneNext == Inv /\ PruneInv /\ [Next]_vars => PruneInv'
<1> SUFFICES ASSUME Inv, PruneInv, [Next]_vars PROVE PruneInv'
  OBVIOUS
<1>0. TypeOK
  BY DEF Inv
<1>n. Cardinality(memories) \in Nat
  BY <1>0, FiniteMemories DEF TypeOK
\* A request that has nothing to do with the account moves.
<1>m. ASSUME NEW r \in Requests, pc[r] \in {"idle", "chat"}, NEW p, Goto(r, p),
             UNCHANGED <<memories, made, excess, doomed>>
      PROVE  PruneInv'
  BY <1>m, <1>0 DEF PruneInv, Within, Goto, TypeOK
<1>1. ASSUME NEW n \in Notes, CreateNote(n) PROVE PruneInv'
  BY <1>1, <1>m DEF CreateNote, Requests
<1>2. ASSUME NEW g \in Sessions, GenerateSessionMemory(g) PROVE PruneInv'
  BY <1>2, <1>m DEF GenerateSessionMemory, Requests
<1>3. ASSUME NEW g \in Sessions, Answer(g) PROVE PruneInv'
  BY <1>3, <1>m DEF Answer, Requests
<1>4. ASSUME NEW r \in Requests, Create(r) PROVE PruneInv'
  <2>1. \/ pc'[r] \in {"failed", "count"}
        \/ pc'[r] = "create" /\ made'[r] > 0
    BY <1>4, <1>0 DEF Create, End, Goto, TypeOK
  <2> QED BY <2>1 DEF PruneInv
<1>5. ASSUME NEW r \in Requests, CountEntries(r) PROVE PruneInv'
  <2>1. CASE Cardinality(memories) <= MaxEntries
    BY <1>5, <2>1 DEF CountEntries, PruneInv, Within
  <2>2. CASE ~(Cardinality(memories) <= MaxEntries)
    <3>1. pc'[r] = "select" /\ excess'[r] = Cardinality(memories) - MaxEntries
      BY <1>5, <2>2, <1>0 DEF CountEntries, Goto, TypeOK
    <3>2. Cardinality(memories') <= MaxEntries + excess'[r]
      BY <1>5, <3>1, <1>n, BoundsAssumption DEF CountEntries
    <3> QED BY <3>1, <3>2 DEF PruneInv
  <2> QED BY <2>1, <2>2
<1>6. ASSUME NEW r \in Requests, Select(r) PROVE PruneInv'
  <2> PICK D \in FirstOf(memories \cap Prunable, excess[r]) :
         \/ D = {} /\ End(r, "done")
         \/ D # {} /\ doomed' = [doomed EXCEPT ![r] = D] /\ Goto(r, "delete")
                   /\ UNCHANGED <<toMake, made, excess>>
    BY <1>6 DEF Select
  <2>0. pc[r] = "select" /\ memories' = memories
    BY <1>6 DEF Select
  <2>1. CASE Cardinality(memories) <= MaxEntries + excess[r]
    <3>1. Within(memories \ D)
      BY <2>1, <1>0, ChosenSuffices DEF TypeOK
    <3>2. CASE D = {}
      <4>1. Within(memories)
        BY <3>1, <3>2 DEF Within
      <4> QED BY <4>1, <2>0 DEF PruneInv, Within
    <3>3. CASE D # {}
      <4>1. pc'[r] = "delete" /\ doomed'[r] = D
        BY <3>3, <1>0 DEF Goto, TypeOK
      <4> QED BY <4>1, <3>1, <2>0 DEF PruneInv, Within
    <3> QED BY <3>2, <3>3
  <2>2. CASE ~(Cardinality(memories) <= MaxEntries + excess[r])
    BY <2>0, <2>2, <1>0 DEF PruneInv, Within, End, Goto, TypeOK
  <2> QED BY <2>1, <2>2
<1>7. ASSUME NEW r \in Requests, Delete(r) PROVE PruneInv'
  <2>0. /\ pc[r] = "delete"
        /\ memories' = memories \ doomed[r]
        /\ \A q \in Requests : q # r => /\ pc'[q] = pc[q] /\ made'[q] = made[q]
                                        /\ excess'[q] = excess[q] /\ doomed'[q] = doomed[q]
    BY <1>7, <1>0 DEF Delete, End, Goto, TypeOK
  <2>1. CASE Within(memories \ doomed[r])
    BY <2>0, <2>1 DEF PruneInv, Within
  <2>2. CASE ~Within(memories \ doomed[r])
    <3>1. Cardinality(memories') \in Nat /\ Cardinality(memories') <= Cardinality(memories)
      <4>1. IsFiniteSet(memories) /\ memories' \in SUBSET memories
        BY <1>0, <2>0, FiniteMemories DEF TypeOK
      <4> QED BY <4>1, FS_Subset, FS_CardinalityType
    <3>2. ~Within(memories)
      <4>1. memories \in SUBSET Entries /\ memories \ doomed[r] \in SUBSET memories
        BY <1>0 DEF TypeOK
      <4> QED BY <2>2, <4>1, WithinFewer
    <3>3. CASE \E q \in Requests : pc[q] = "select" /\ Cardinality(memories) <= MaxEntries + excess[q]
      <4> PICK q \in Requests : pc[q] = "select" /\ Cardinality(memories) <= MaxEntries + excess[q]
        BY <3>3
      <4>1. excess[q] \in Nat
        BY <1>0 DEF TypeOK
      <4>2. pc'[q] = "select" /\ Cardinality(memories') <= MaxEntries + excess'[q]
        BY <4>1, <2>0, <3>1, <1>n, BoundsAssumption
      <4> QED BY <4>2 DEF PruneInv
    <3>4. CASE \E q \in Requests : pc[q] = "delete" /\ Within(memories \ doomed[q])
      <4> PICK q \in Requests : pc[q] = "delete" /\ Within(memories \ doomed[q])
        BY <3>4
      <4>1. q # r
        BY <2>2
      <4>2. /\ memories \ doomed[q] \in SUBSET Entries
            /\ memories' \ doomed[q] \in SUBSET (memories \ doomed[q])
        BY <1>0, <2>0 DEF TypeOK
      <4>3. Within(memories' \ doomed[q])
        BY <4>2, WithinFewer
      <4> QED BY <4>1, <4>3, <2>0 DEF PruneInv, Within
    <3> QED BY <2>0, <3>2, <3>3, <3>4 DEF PruneInv
  <2> QED BY <2>1, <2>2
<1>8. ASSUME NEW r \in Requests, Failure(r) PROVE PruneInv'
  BY <1>8, <1>0 DEF Failure, End, Goto, PruneInv, TypeOK
<1>9. ASSUME NEW m \in Entries, Remove(m) PROVE PruneInv'
  BY <1>9, PruneFewer DEF Remove
<1>10. CASE ClearAllByExpert
  BY <1>10, PruneFewer DEF ClearAllByExpert
<1>11. CASE RemoveExpert
  BY <1>11, PruneFewer DEF RemoveExpert
<1>12. CASE Crash
  <2>1. CASE \E r \in Requests : pc[r] \notin {"idle", "done"}
    BY <1>12, <2>1 DEF Crash, PruneInv
  <2>2. CASE \A r \in Requests : pc[r] \in {"idle", "done"}
    BY <1>12, <2>2 DEF Crash, PruneInv, Within
  <2> QED BY <2>1, <2>2
<1>13. CASE UNCHANGED vars
  BY <1>13 DEF vars, PruneInv, Within
<1> QED BY <1>1, <1>2, <1>3, <1>4, <1>5, <1>6, <1>7, <1>8, <1>9, <1>10, <1>11, <1>12,
           <1>13 DEF Next, Prune

\* Once all requests have run to their end, the expert is within its limit or has
\* only notes, whatever the interleaving of any number of prunes.
THEOREM MemoriesAreBounded == Spec => []BoundedAtRest
<1>1. Inv /\ PruneInv => BoundedAtRest
  BY DEF Inv, TypeOK, PruneInv, BoundedAtRest, AtRest, Within
<1>2. Spec => [](Inv /\ PruneInv)
  <2>1. Init => Inv /\ PruneInv
    BY TypeInit, PruneInit
  <2>2. Inv /\ PruneInv /\ [Next]_vars => (Inv /\ PruneInv)'
    BY TypeNext, PruneNext
  <2> QED BY <2>1, <2>2, PTL DEF Spec
<1> QED BY <1>1, <1>2, PTL
==============================================================================

--------------------------- MODULE ComparisonProofs ---------------------------
(***************************************************************************)
(* Theorems about Comparison, for any number of start requests and experts *)
(* and every fault.                                                        *)
(***************************************************************************)
EXTENDS Comparison, FiniteSetTheorems, TLAPS

\* Initially every variable has its type.
LEMMA TypeInit == Init => TypeOK
BY DEF Init, TypeOK, Statuses, Tasks, StartPcs, TaskPcs

\* Every step keeps every variable in its type: a status is only written by
\* Written, a task and a request only move between their places.
LEMMA TypeNext == TypeOK /\ [Next]_vars => TypeOK'
<1> SUFFICES ASSUME TypeOK, [Next]_vars PROVE TypeOK'
  OBVIOUS
<1> USE DEF TypeOK, StartPcs, TaskPcs, Settled, Goto, Move
<1>w. \A to \in Statuses : Written(status, to) \in Statuses \cup {Deleted}
  BY DEF Written
<1>a. {"ACTIVE", "COMPLETED"} \subseteq Statuses
  BY DEF Statuses, Terminal
<1>c. Count \in Nat
  <2>1. IsFiniteSet(Tasks)
    BY FS_Product, ExpertsAssumption DEF Tasks
  <2>2. IsFiniteSet(stored)
    BY <2>1, FS_Subset
  <2> QED BY <2>2, FS_CardinalityType DEF Count
<1>1. ASSUME NEW s \in Starts, Start(s) PROVE TypeOK'
  BY <1>1 DEF Start
<1>2. ASSUME NEW s \in Starts, RequestNext(s) PROVE TypeOK'
  <2>1. CASE StartUpdate(s)
    BY <2>1 DEF StartUpdate
  <2>2. CASE StartWrite(s)
    BY <2>2, <1>w, <1>a DEF StartWrite
  <2>3. CASE Gather(s)
    BY <2>3 DEF Gather, Completed
  <2>4. CASE Finish(s)
    BY <2>4 DEF Finish
  <2>5. CASE FinishWrite(s)
    BY <2>5, <1>w, <1>a DEF FinishWrite
  <2> QED BY <1>2, <2>1, <2>2, <2>3, <2>4, <2>5 DEF RequestNext
<1>3. ASSUME NEW t \in Tasks, TaskNext(t) PROVE TypeOK'
  <2>1. CASE Chat(t)
    BY <2>1 DEF Chat
  <2>2. CASE Create(t)
    BY <2>2 DEF Create
  <2>3. CASE CountMessages(t)
    BY <2>3, <1>c DEF CountMessages
  <2>4. CASE Insert(t)
    BY <2>4 DEF Insert
  <2>5. CASE Respond(t)
    BY <2>5 DEF Respond
  <2> QED BY <1>3, <2>1, <2>2, <2>3, <2>4, <2>5 DEF TaskNext
<1>4. CASE Remove
  BY <1>4 DEF Remove
<1>5. CASE Crash
  BY <1>5 DEF Crash
<1>6. CASE DatabaseError
  BY <1>6 DEF DatabaseError
<1>7. CASE UNCHANGED vars
  BY <1>7 DEF vars
<1> QED BY <1>1, <1>2, <1>3, <1>4, <1>5, <1>6, <1>7 DEF Next

\* Every reachable state of a comparison has its types.
THEOREM TypeCorrect == Spec => []TypeOK
BY TypeInit, TypeNext, PTL DEF Spec

------------------------------------------------------------------------------
(* The limit. *)

\* A transaction that is about to insert has counted fewer messages than the limit.
CountedRoom == \A t \in Tasks : task[t] = "insert" => seen[t] < MaxMessages

LimitInv == TypeOK /\ CountedRoom /\ MessageLimit

\* The limit is kept by every step: only Insert adds a message, and it does so only
\* when the count its transaction read is still the count.
LEMMA LimitNext == LimitInv /\ [Next]_vars => LimitInv'
<1> SUFFICES ASSUME LimitInv, [Next]_vars PROVE LimitInv'
  OBVIOUS
<1>t. TypeOK'
  BY TypeNext DEF LimitInv
<1>f. IsFiniteSet(stored) /\ Count \in Nat
  <2>1. IsFiniteSet(Tasks)
    BY FS_Product, ExpertsAssumption DEF Tasks
  <2>2. IsFiniteSet(stored)
    BY <2>1, FS_Subset DEF LimitInv, TypeOK
  <2> QED BY <2>2, FS_CardinalityType DEF Count
<1> SUFFICES CountedRoom' /\ MessageLimit'
  BY <1>t DEF LimitInv
<1> USE DEF LimitInv, TypeOK, CountedRoom, MessageLimit, Count, Goto, Move
<1>1. ASSUME NEW s \in Starts, Start(s) \/ RequestNext(s) PROVE CountedRoom' /\ MessageLimit'
  BY <1>1 DEF Start, RequestNext, StartUpdate, StartWrite, Gather, Finish, FinishWrite
<1>2. ASSUME NEW t \in Tasks, TaskNext(t) PROVE CountedRoom' /\ MessageLimit'
  <2>1. CASE Chat(t) \/ Create(t) \/ Respond(t)
    BY <2>1 DEF Chat, Create, Respond
  <2>2. CASE CountMessages(t)
    BY <2>2, <1>f, LimitAssumption DEF CountMessages
  <2>3. CASE Insert(t)
    <3>1. CountedRoom'
      BY <2>3 DEF Insert
    <3>2. CASE stored' = stored
      BY <3>1, <3>2
    <3>3. CASE stored' = stored \cup {t} /\ Count = seen[t]
      <4>0. Cardinality(stored \cup {t}) <= Cardinality(stored) + 1
        <5>1. Cardinality(stored) \in Nat
          BY <1>f
        <5>2. Cardinality(stored \cup {t}) =
                IF t \in stored THEN Cardinality(stored) ELSE Cardinality(stored) + 1
          BY <1>f, FS_AddElement
        <5> QED BY <5>1, <5>2
      <4>1. Cardinality(stored') <= Cardinality(stored) + 1
        BY <4>0, <3>3
      <4>2. seen[t] < MaxMessages
        BY <2>3 DEF Insert, Runs
      <4>3. Cardinality(stored') \in Nat
        BY <1>f, <3>3, FS_AddElement, FS_CardinalityType
      <4> QED BY <3>1, <3>3, <4>1, <4>2, <4>3, <1>f, LimitAssumption
    <3> QED BY <2>3, <3>2, <3>3 DEF Insert
  <2> QED BY <1>2, <2>1, <2>2, <2>3 DEF TaskNext
<1>3. CASE Remove
  BY <1>3, FS_EmptySet, LimitAssumption DEF Remove
<1>4. CASE Crash
  BY <1>4 DEF Crash
<1>5. CASE DatabaseError
  BY <1>5 DEF DatabaseError
<1>6. CASE UNCHANGED vars
  BY <1>6 DEF vars
<1> QED BY <1>1, <1>2, <1>3, <1>4, <1>5, <1>6 DEF Next

\* A comparison never holds more than maxMessages answers, however many experts
\* answer at once and however many requests started it.
THEOREM AnswersAreLimited == Spec => []MessageLimit
<1>1. Init => LimitInv
  BY TypeInit, FS_EmptySet, LimitAssumption
     DEF Init, LimitInv, CountedRoom, MessageLimit, Count
<1>2. LimitInv => MessageLimit
  BY DEF LimitInv
<1> QED BY <1>1, <1>2, LimitNext, PTL DEF Spec

------------------------------------------------------------------------------
(* What ALL_RESPONSES_RECEIVED carries. *)

\* Nothing is asked before the launch and everything is settled after Gather.
TasksFollow ==
  \A s \in Starts, e \in Experts :
    /\ pc[s] \in {"idle", "update", "write"} => task[<<s, e>>] = "none"
    /\ pc[s] \in {"finish", "finishWrite", "done"} => task[<<s, e>>] \in Settled

\* The messages are those of the tasks whose insert was committed.
StoredFollows ==
  /\ \A t \in stored : task[t] \in {"stored", "fulfilled"}
  /\ status # Deleted =>
       \A t \in Tasks : task[t] \in {"stored", "fulfilled"} => t \in stored

SentInv == TypeOK /\ TasksFollow /\ StoredFollows /\ SentIsStored

\* Every step keeps the correspondence of tasks, messages and the announcement.
LEMMA SentNext == SentInv /\ [Next]_vars => SentInv'
<1> SUFFICES ASSUME SentInv, [Next]_vars PROVE SentInv'
  OBVIOUS
<1>t. TypeOK'
  BY TypeNext DEF SentInv
<1> SUFFICES TasksFollow' /\ StoredFollows' /\ SentIsStored'
  BY <1>t DEF SentInv
<1> USE DEF SentInv, TypeOK, Goto, Move, Tasks, Settled
<1>1. ASSUME NEW s \in Starts, Start(s) \/ StartUpdate(s) \/ Finish(s)
      PROVE TasksFollow' /\ StoredFollows' /\ SentIsStored'
  <2>1. TasksFollow'
    <3>1. CASE Start(s)
      BY <3>1 DEF Start, TasksFollow
    <3>2. CASE StartUpdate(s)
      BY <3>2 DEF StartUpdate, TasksFollow
    <3>3. CASE Finish(s)
      BY <3>3 DEF Finish, TasksFollow
    <3> QED BY <1>1, <3>1, <3>2, <3>3
  <2>2. StoredFollows'
    BY <1>1 DEF Start, StartUpdate, Finish, StoredFollows
  <2>3. SentIsStored'
    BY <1>1 DEF Start, StartUpdate, Finish, SentIsStored
  <2> QED BY <2>1, <2>2, <2>3
<1>2. ASSUME NEW s \in Starts, StartWrite(s)
      PROVE TasksFollow' /\ StoredFollows' /\ SentIsStored'
  <2>1. TasksFollow'
    BY <1>2 DEF StartWrite, TasksFollow
  <2>2. StoredFollows'
    <3>1. \A t \in Tasks : t[1] = s => task[t] = "none"
      BY <1>2 DEF StartWrite, TasksFollow
    <3> QED BY <1>2, <3>1 DEF StartWrite, StoredFollows, Written
  <2>3. SentIsStored'
    BY <1>2 DEF StartWrite, SentIsStored, Written
  <2> QED BY <2>1, <2>2, <2>3
<1>3. ASSUME NEW s \in Starts, Gather(s)
      PROVE TasksFollow' /\ StoredFollows' /\ SentIsStored'
  <2>1. TasksFollow'
    BY <1>3 DEF Gather, TasksFollow
  <2>2. StoredFollows'
    BY <1>3 DEF Gather, StoredFollows
  <2>3. SentIsStored'
    <3>1. status # Deleted => Completed(s) = {t \in stored : t[1] = s}
      BY <1>3 DEF Gather, Completed, StoredFollows
    <3> QED BY <1>3, <3>1 DEF Gather, SentIsStored
  <2> QED BY <2>1, <2>2, <2>3
<1>4. ASSUME NEW s \in Starts, FinishWrite(s)
      PROVE TasksFollow' /\ StoredFollows' /\ SentIsStored'
  <2>1. TasksFollow'
    BY <1>4 DEF FinishWrite, TasksFollow
  <2>2. StoredFollows'
    BY <1>4 DEF FinishWrite, StoredFollows, Written
  <2>3. SentIsStored'
    BY <1>4 DEF FinishWrite, SentIsStored, Written
  <2> QED BY <2>1, <2>2, <2>3
<1>5. ASSUME NEW t \in Tasks, TaskNext(t)
      PROVE TasksFollow' /\ StoredFollows' /\ SentIsStored'
  <2>0. pc' = pc /\ sent' = sent /\ status' = status
    BY <1>5 DEF TaskNext, Chat, Create, CountMessages, Insert, Respond
  <2>p. PICK s \in Starts, e \in Experts : t = <<s, e>>
    OBVIOUS
  <2>k. /\ task[t] \notin Settled \cup {"none"}
        /\ task' = [task EXCEPT ![t] = task'[t]]
    BY <1>5 DEF TaskNext, Chat, Create, CountMessages, Insert, Respond, Runs
  <2>1. TasksFollow'
    <3>1. pc[s] \notin {"idle", "update", "write", "finish", "finishWrite", "done"}
      BY <2>p, <2>k DEF TasksFollow
    <3> SUFFICES ASSUME NEW r \in Starts, NEW f \in Experts
                 PROVE /\ pc[r] \in {"idle", "update", "write"} => task'[<<r, f>>] = "none"
                       /\ pc[r] \in {"finish", "finishWrite", "done"}
                            => task'[<<r, f>>] \in Settled
      BY <2>0 DEF TasksFollow
    <3>2. CASE r = s
      BY <3>1, <3>2
    <3>3. CASE r # s
      <4>1. task'[<<r, f>>] = task[<<r, f>>]
        BY <2>p, <2>k, <3>3
      <4> QED BY <4>1 DEF TasksFollow
    <3> QED BY <3>2, <3>3
  <2>2. StoredFollows'
    <3>1. CASE Chat(t) \/ Create(t) \/ CountMessages(t)
      BY <3>1 DEF Chat, Create, CountMessages, Runs, StoredFollows
    <3>2. CASE Insert(t)
      BY <3>2 DEF Insert, Runs, StoredFollows
    <3>3. CASE Respond(t)
      BY <3>3 DEF Respond, Runs, StoredFollows
    <3> QED BY <1>5, <3>1, <3>2, <3>3 DEF TaskNext
  <2>3. SentIsStored'
    <3>1. pc[s] \notin {"finish", "finishWrite", "done"}
      BY <2>p, <2>k DEF TasksFollow
    <3>2. \A u \in Tasks : u[1] # s => (u \in stored' <=> u \in stored)
      <4>1. stored' = stored \/ stored' = stored \cup {t}
        BY <1>5 DEF TaskNext, Chat, Create, CountMessages, Insert, Respond
      <4>2. t[1] = s
        BY <2>p
      <4> QED BY <4>1, <4>2
    <3>3. stored' \subseteq Tasks
      BY <1>t
    <3> QED BY <2>0, <3>1, <3>2, <3>3 DEF SentIsStored
  <2> QED BY <2>1, <2>2, <2>3
<1>6. CASE Remove
  BY <1>6 DEF Remove, TasksFollow, StoredFollows, SentIsStored
<1>7. CASE Crash
  <2>1. TasksFollow'
    BY <1>7 DEF Crash, TasksFollow
  <2>2. StoredFollows' /\ SentIsStored'
    BY <1>7 DEF Crash, StoredFollows, SentIsStored
  <2> QED BY <2>1, <2>2
<1>8. CASE DatabaseError
  <2>1. CASE \E t \in Tasks : /\ \E where \in {"create", "count", "insert"} : Runs(t, where)
                               /\ Move(t, "rejected")
                               /\ UNCHANGED <<pc, status, stored, sent>>
    BY <2>1 DEF Runs, TasksFollow, StoredFollows, SentIsStored
  <2>2. CASE \E s \in Starts : /\ pc[s] \in {"update", "write", "finish", "finishWrite"}
                                /\ Goto(s, "lost")
                                /\ UNCHANGED <<task, status, stored, sent>>
    BY <2>2 DEF TasksFollow, StoredFollows, SentIsStored
  <2> QED BY <1>8, <2>1, <2>2 DEF DatabaseError
<1>9. CASE UNCHANGED vars
  BY <1>9 DEF vars, TasksFollow, StoredFollows, SentIsStored
<1> QED BY <1>1, <1>2, <1>3, <1>4, <1>5, <1>6, <1>7, <1>8, <1>9 DEF Next, RequestNext

\* ALL_RESPONSES_RECEIVED carries the stored answers, all of them and no others,
\* for any number of experts, requests and failures.
THEOREM AnnouncedIsStored == Spec => []SentIsStored
<1>1. Init => SentInv
  BY TypeInit DEF Init, SentInv, TasksFollow, StoredFollows, SentIsStored, Tasks
<1>2. SentInv => SentIsStored
  BY DEF SentInv
<1> QED BY <1>1, <1>2, SentNext, PTL DEF Spec
------------------------------------------------------------------------------
(* A completed comparison. *)

\* COMPLETED was written by a request that is through.
CompletedByRequest == status = "COMPLETED" => \E s \in Starts : pc[s] = "done"

\* A request that is through stays so, and the others write ACTIVE or are through
\* themselves.
LEMMA CompletedNext ==
  ASSUME TypeOK, CompletedByRequest, [Next]_vars
  PROVE  CompletedByRequest'
<1> USE DEF Goto, CompletedByRequest
<1> DEFINE Stays == UNCHANGED status /\ \A s \in Starts : pc[s] = "done" => pc'[s] = "done"
<1>a. pc \in [Starts -> StartPcs]
  BY DEF TypeOK
<1>1. ASSUME NEW s \in Starts, Start(s) \/ StartUpdate(s) \/ Gather(s) \/ Finish(s)
      PROVE  Stays
  BY <1>a, <1>1 DEF Start, StartUpdate, Gather, Finish
<1>2. ASSUME NEW s \in Starts, StartWrite(s) PROVE CompletedByRequest'
  BY <1>2 DEF StartWrite, Written, Deleted
<1>3. ASSUME NEW s \in Starts, FinishWrite(s) PROVE CompletedByRequest'
  BY <1>a, <1>3 DEF FinishWrite, Written, Deleted
<1>4. ASSUME NEW t \in Tasks, TaskNext(t) PROVE Stays
  BY <1>4 DEF TaskNext, Chat, Create, CountMessages, Insert, Respond
<1>5. CASE Remove
  BY <1>5 DEF Remove, Deleted
<1>6. ASSUME Crash \/ DatabaseError PROVE Stays
  BY <1>a, <1>6 DEF Crash, DatabaseError
<1>7. ASSUME UNCHANGED vars PROVE Stays
  BY <1>7 DEF vars
<1>8. Stays => CompletedByRequest'
  OBVIOUS
<1> HIDE DEF Stays
<1> QED BY <1>1, <1>2, <1>3, <1>4, <1>5, <1>6, <1>7, <1>8 DEF Next, RequestNext

\* The one request that launched a comparison is the one that completed it, and all
\* its calls have settled.
LEMMA SettledWhenCompleted ==
  ASSUME SentInv, CompletedByRequest, status = "COMPLETED", Cardinality(Launched) = 1,
         NEW t \in Tasks
  PROVE  task[t] \in Settled \cup {"none"}
<1>1. PICK r \in Starts : pc[r] = "done"
  BY DEF CompletedByRequest
<1>2. PICK s \in Starts, e \in Experts : t = <<s, e>>
  BY DEF Tasks
<1>3. task[<<r, e>>] \in Settled
  BY <1>1 DEF SentInv, TasksFollow
<1>4. r \in Launched
  BY <1>3 DEF Launched, Settled
<1>5. IsFiniteSet(Launched)
  BY FS_Subset, ExpertsAssumption DEF Launched
<1>6. PICK x : Launched = {x}
  BY <1>5, FS_Singleton
<1>7. CASE task[t] # "none"
  <2>1. s \in Launched
    BY <1>2, <1>7 DEF Launched
  <2> QED BY <1>2, <1>3, <1>4, <1>6, <2>1
<1> QED BY <1>7

\* A comparison that one request launched takes no answer any more once it is
\* COMPLETED, for any number of experts and whatever other requests are rejected,
\* lost or fail: allSettled leaves no call behind that could still store one.
THEOREM CompletedStaysFinal == Spec => CompletedIsFinal
<1> DEFINE Final == Cardinality(Launched) = 1 /\ status = "COMPLETED"
                      => stored' \subseteq stored
<1>1. SentInv /\ CompletedByRequest /\ [Next]_vars => [Final]_vars
  <2> SUFFICES ASSUME SentInv, CompletedByRequest, [Next]_vars,
                      Cardinality(Launched) = 1, status = "COMPLETED"
               PROVE  stored' \subseteq stored
    OBVIOUS
  <2>1. ASSUME NEW s \in Starts, Start(s) \/ RequestNext(s) PROVE stored' = stored
    BY <2>1 DEF Start, RequestNext, StartUpdate, StartWrite, Gather, Finish, FinishWrite
  <2>2. ASSUME NEW t \in Tasks, TaskNext(t) PROVE stored' = stored
    <3>1. task[t] # "insert"
      BY SettledWhenCompleted DEF Settled
    <3> QED BY <2>2, <3>1
            DEF TaskNext, Chat, Create, CountMessages, Insert, Respond, Runs
  <2>3. CASE Remove
    BY <2>3 DEF Remove
  <2>4. ASSUME Crash \/ DatabaseError \/ UNCHANGED vars PROVE stored' = stored
    BY <2>4 DEF Crash, DatabaseError, vars
  <2> QED BY <2>1, <2>2, <2>3, <2>4 DEF Next
<1>2. Init => SentInv /\ CompletedByRequest
  BY TypeInit DEF Init, SentInv, TasksFollow, StoredFollows, SentIsStored, Tasks,
                  CompletedByRequest
<1>3. SentInv /\ CompletedByRequest /\ [Next]_vars => SentInv' /\ CompletedByRequest'
  BY SentNext, CompletedNext DEF SentInv
<1> QED BY <1>1, <1>2, <1>3, PTL DEF Spec, CompletedIsFinal
==============================================================================

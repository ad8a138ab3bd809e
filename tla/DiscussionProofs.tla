--------------------------- MODULE DiscussionProofs ---------------------------
(***************************************************************************)
(* Proofs about Discussion for any number of requests, experts, messages   *)
(* and interventions.                                                      *)
(***************************************************************************)
EXTENDS DiscussionProperties, DiscussionRefinement, TLAPS

\* What the inductive argument needs of the types: every variable has its type
\* and an intervention being stored is there.
TypeInv == TypeOK /\ CommitHasHead

\* A sequence with an element appended: its type and its length.
LEMMA AppendFacts ==
  ASSUME NEW S, NEW s \in Seq(S), NEW x \in S
  PROVE  /\ Append(s, x) \in Seq(S)
         /\ Append(s, x) # <<>>
         /\ Len(Append(s, x)) = Len(s) + 1
<1>1. Append(s, x) \in Seq(S) /\ Len(Append(s, x)) = Len(s) + 1
  OBVIOUS
<1>2. Len(s) \in Nat /\ Len(<<>>) = 0
  OBVIOUS
<1> QED BY <1>1, <1>2

\* What is left of a sequence when its first element is taken.
LEMMA TailFacts ==
  ASSUME NEW S, NEW s \in Seq(S), s # <<>>
  PROVE  Head(s) \in S /\ Tail(s) \in Seq(S)
OBVIOUS

\* The places an action sends a start request or a loop to.
LEMMA PcFacts ==
  {"idle", "startUpdate", "startWrite", "startLaunch", "top", "waiting", "woken",
   "intervene", "interveneCommit", "count", "turn", "create", "commit", "evaluate",
   "pollCheck", "pollCreate", "pollRead", "pollCommit", "finish", "conclude",
   "concludeWrite", "ended", "fatal", "fatalWrite", "cleanup", "done", "failed",
   "crashed"} \subseteq Pcs
BY DEF Pcs, StartPcs, LoopPcs, TurnPcs, EndPcs, Over

\* The empty queue is a queue.
LEMMA EmptyFact == <<>> \in Seq(Interventions)
OBVIOUS

\* The next expert is an expert, and the loop's place a place.
LEMMA NextExpertFacts ==
  ASSUME TypeOK, NEW l \in Starts, NextExpert(l)
  PROVE  /\ pc' \in [Starts -> Pcs]
         /\ pc' = [pc EXCEPT ![l] = pc'[l]]
         /\ pc'[l] \in {"evaluate", "top"}
         /\ turn' \in [Starts -> 0 .. NExperts - 1]
         /\ round' \in [Starts -> Nat]
<1>1. (turn[l] + 1) % NExperts \in 0 .. NExperts - 1
  <2>1. turn[l] + 1 \in Nat
    BY ExpertsAssumption DEF TypeOK
  <2>2. \A n \in Nat : n % NExperts \in 0 .. NExperts - 1
    BY ExpertsAssumption
  <2> QED BY <2>1, <2>2
<1>2. turn' \in [Starts -> 0 .. NExperts - 1]
  BY <1>1 DEF TypeOK, NextExpert
<1>3. round' \in [Starts -> Nat]
  <2>1. round \in [Starts -> Nat] /\ round[l] + 1 \in Nat
    BY DEF TypeOK
  <2>2. round' = round \/ round' = [round EXCEPT ![l] = round[l] + 1]
    BY DEF NextExpert
  <2> QED BY <2>1, <2>2
<1> QED BY <1>2, <1>3, PcFacts DEF TypeOK, NextExpert, Goto

\* What is left to store are interventions.
LEMMA BatchFacts ==
  ASSUME TypeOK, NEW l \in Starts, batch[l] # <<>>
  PROVE  Head(batch[l]) \in Interventions /\ Tail(batch[l]) \in Seq(Interventions)
<1>1. batch[l] \in Seq(Interventions)
  BY DEF TypeOK
<1> QED BY <1>1, TailFacts

\* The session starts in a state of the right type.
LEMMA TypeInit == Init => TypeInv
<1> SUFFICES ASSUME Init PROVE TypeInv
  OBVIOUS
<1> USE DEF Init
<1>1. <<>> \in Seq(Interventions)
  BY EmptyFact
<1>2. 0 \in 0 .. NExperts - 1
  BY ExpertsAssumption
<1>3. /\ pc \in [Starts -> Pcs]
      /\ turn \in [Starts -> 0 .. NExperts - 1]
      /\ round \in [Starts -> Nat]
      /\ batch \in [Starts -> Seq(Interventions)]
  BY <1>1, <1>2 DEF Pcs, StartPcs
<1>4. /\ exit \in [Starts -> Exits]
      /\ reason \in [Starts -> Reasons]
      /\ ctl \in [Controls -> ControlPcs]
      /\ iv \in [Interventions -> SentStates]
  BY DEF Exits, Reasons, ControlPcs, SentStates
<1>5. CommitHasHead
  BY DEF CommitHasHead
<1> QED BY <1>1, <1>3, <1>4, <1>5 DEF TypeInv, TypeOK, Statuses, Terminal

\* Every step keeps the types, and an intervention being stored stays there.
LEMMA TypeNext == TypeInv /\ [Next]_vars => TypeInv'
<1> SUFFICES ASSUME TypeInv, [Next]_vars PROVE TypeInv'
  OBVIOUS
<1> USE DEF TypeInv, TypeOK, CommitHasHead, Goto, dbVars, mapVars, loopVars,
            reqVars
<1>1. ASSUME NEW s \in Starts, StartRead(s) PROVE TypeInv'
  BY <1>1, PcFacts DEF StartRead
<1>2. ASSUME NEW s \in Starts, StartUpdate(s) PROVE TypeInv'
  BY <1>2, PcFacts DEF StartUpdate
<1>3. ASSUME NEW s \in Starts, StartWrite(s) PROVE TypeInv'
  BY <1>3, PcFacts DEF StartWrite, Written, Statuses
<1>4. ASSUME NEW s \in Starts, StartLaunch(s) PROVE TypeInv'
  BY <1>4, PcFacts DEF StartLaunch
<1>5. ASSUME NEW l \in Starts, LoopTop(l) PROVE TypeInv'
  <2>1. pc' \in [Starts -> Pcs]
    BY <1>5, PcFacts DEF LoopTop, BeginInterventions, Exits
  <2>2. batch' \in [Starts -> Seq(Interventions)]
    BY <1>5, PcFacts DEF LoopTop, BeginInterventions, Exits
  <2>3. live' \subseteq Starts /\ resolver' \subseteq Starts
    BY <1>5, PcFacts DEF LoopTop, BeginInterventions, Exits
  <2>4. exit' \in [Starts -> Exits]
    BY <1>5, PcFacts DEF LoopTop, BeginInterventions, Exits
  <2>5. TypeOK'
    BY <1>5, <2>1, <2>2, <2>3, <2>4 DEF LoopTop
  <2>6. CommitHasHead'
    BY <1>5, PcFacts DEF LoopTop, BeginInterventions, Exits
  <2> QED BY <2>5, <2>6
<1>6. ASSUME NEW l \in Starts, LoopWoken(l) PROVE TypeInv'
  BY <1>6, PcFacts DEF LoopWoken, BeginInterventions
<1>7. ASSUME NEW l \in Starts, InterveneRead(l) PROVE TypeInv'
  <2>1. pc' \in [Starts -> Pcs]
    BY <1>7, PcFacts, BatchFacts DEF InterveneRead, SentStates
  <2>2. batch' \in [Starts -> Seq(Interventions)]
    BY <1>7, PcFacts, BatchFacts DEF InterveneRead, SentStates
  <2>3. iv' \in [Interventions -> SentStates]
    BY <1>7, PcFacts, BatchFacts DEF InterveneRead, SentStates
  <2>4. TypeOK'
    BY <1>7, <2>1, <2>2, <2>3 DEF InterveneRead
  <2>5. CommitHasHead'
    BY <1>7, PcFacts, BatchFacts DEF InterveneRead, SentStates
  <2> QED BY <2>4, <2>5
<1>8. ASSUME NEW l \in Starts, InterveneCommit(l) PROVE TypeInv'
  <2>1. pc' \in [Starts -> Pcs]
    BY <1>8, PcFacts, BatchFacts, AppendFacts DEF InterveneCommit, SentStates
  <2>2. batch' \in [Starts -> Seq(Interventions)]
    BY <1>8, PcFacts, BatchFacts, AppendFacts DEF InterveneCommit, SentStates
  <2>3. iv' \in [Interventions -> SentStates]
    BY <1>8, PcFacts, BatchFacts, AppendFacts DEF InterveneCommit, SentStates
  <2>4. posted' \in Seq(Interventions)
    <3>1. Head(batch[l]) \in Interventions
      BY <1>8, BatchFacts DEF InterveneCommit
    <3>2. Append(posted, Head(batch[l])) \in Seq(Interventions)
      BY <3>1, AppendFacts
    <3> QED BY <1>8, <3>2 DEF InterveneCommit
  <2>5. TypeOK'
    BY <1>8, <2>1, <2>2, <2>3, <2>4 DEF InterveneCommit
  <2>6. CommitHasHead'
    BY <1>8, PcFacts, BatchFacts, AppendFacts DEF InterveneCommit, SentStates
  <2> QED BY <2>5, <2>6
<1>9. ASSUME NEW l \in Starts, InterveneDone(l) PROVE TypeInv'
  BY <1>9, PcFacts DEF InterveneDone
<1>10. ASSUME NEW l \in Starts, LoopCount(l) PROVE TypeInv'
  BY <1>10, PcFacts DEF LoopCount, Exits
<1>11. ASSUME NEW l \in Starts, LoopTurn(l) PROVE TypeInv'
  <2>1. pc' \in [Starts -> Pcs]
    BY <1>11, PcFacts, NextExpertFacts DEF LoopTurn
  <2>2. turn' \in [Starts -> 0 .. NExperts - 1]
    <3>1. (turn[l] + 1) % NExperts \in 0 .. NExperts - 1
      BY ExpertsAssumption
    <3> QED BY <1>11, <3>1, NextExpertFacts DEF LoopTurn
  <2>3. round' \in [Starts -> Nat]
    BY <1>11, PcFacts, NextExpertFacts DEF LoopTurn
  <2>4. TypeOK'
    BY <1>11, <2>1, <2>2, <2>3 DEF LoopTurn
  <2>5. CommitHasHead'
    BY <1>11, PcFacts, NextExpertFacts DEF LoopTurn
  <2> QED BY <2>4, <2>5
<1>12. ASSUME NEW l \in Starts, LoopCreate(l) PROVE TypeInv'
  BY <1>12, PcFacts DEF LoopCreate
<1>13. ASSUME NEW l \in Starts, LoopCommit(l) PROVE TypeInv'
  <2>1. pc' \in [Starts -> Pcs]
    BY <1>13, PcFacts, NextExpertFacts DEF LoopCommit
  <2>2. turn' \in [Starts -> 0 .. NExperts - 1]
    BY <1>13, PcFacts, NextExpertFacts DEF LoopCommit
  <2>3. round' \in [Starts -> Nat]
    BY <1>13, PcFacts, NextExpertFacts DEF LoopCommit
  <2>4. said' \in Nat /\ spoken' \subseteq Nat
    <3>1. round[l] \in Nat
      OBVIOUS
    <3>2. CASE HasRoom
      <4>1. said' = said + 1 /\ spoken' = spoken \cup {round[l]}
        BY <1>13, <3>2 DEF LoopCommit
      <4>2. spoken \cup {round[l]} \subseteq Nat
        BY <3>1
      <4> QED BY <4>1, <4>2
    <3>3. CASE ~HasRoom
      BY <1>13, <3>3 DEF LoopCommit
    <3> QED BY <3>2, <3>3
  <2>5. TypeOK'
    BY <1>13, <2>1, <2>2, <2>3, <2>4 DEF LoopCommit
  <2>6. CommitHasHead'
    BY <1>13, PcFacts, NextExpertFacts DEF LoopCommit
  <2> QED BY <2>5, <2>6
<1>14. ASSUME NEW l \in Starts, LoopEvaluate(l) PROVE TypeInv'
  <2>1. pc' \in [Starts -> Pcs]
    BY <1>14, PcFacts DEF LoopEvaluate, Exits, StallsAfter
  <2>2. exit' \in [Starts -> Exits]
    BY <1>14, PcFacts DEF LoopEvaluate, Exits, StallsAfter
  <2>3. stallCount' \in Nat
    BY <1>14, PcFacts DEF LoopEvaluate, Exits, StallsAfter
  <2>4. TypeOK'
    BY <1>14, <2>1, <2>2, <2>3 DEF LoopEvaluate
  <2>5. CommitHasHead'
    BY <1>14, PcFacts DEF LoopEvaluate, Exits, StallsAfter
  <2> QED BY <2>4, <2>5
<1>15. ASSUME NEW l \in Starts, PollCheck(l) PROVE TypeInv'
  BY <1>15, PcFacts DEF PollCheck
<1>16. ASSUME NEW l \in Starts, PollCreate(l) PROVE TypeInv'
  <2>1. pc' \in [Starts -> Pcs]
    BY <1>16, PcFacts DEF PollCreate
  <2>2. autoPolls' \in Nat
    BY <1>16, PcFacts DEF PollCreate
  <2>3. TypeOK'
    BY <1>16, <2>1, <2>2 DEF PollCreate
  <2>4. CommitHasHead'
    BY <1>16, PcFacts DEF PollCreate
  <2> QED BY <2>3, <2>4
<1>17. ASSUME NEW l \in Starts, PollRead(l) PROVE TypeInv'
  BY <1>17, PcFacts DEF PollRead
<1>18. ASSUME NEW l \in Starts, PollCommit(l) PROVE TypeInv'
  <2>1. pc' \in [Starts -> Pcs]
    BY <1>18, PcFacts DEF PollCommit
  <2>2. asked' \in Nat
    BY <1>18, PcFacts DEF PollCommit
  <2>3. TypeOK'
    BY <1>18, <2>1, <2>2 DEF PollCommit
  <2>4. CommitHasHead'
    BY <1>18, PcFacts DEF PollCommit
  <2> QED BY <2>3, <2>4
<1>19. ASSUME NEW l \in Starts, LoopFinish(l) PROVE TypeInv'
  BY <1>19, PcFacts DEF LoopFinish, EndReason, Reasons
<1>20. ASSUME NEW l \in Starts, LoopConclude(l) PROVE TypeInv'
  BY <1>20, PcFacts DEF LoopConclude, AfterRejection
<1>21. ASSUME NEW l \in Starts, LoopConcludeWrite(l) PROVE TypeInv'
  BY <1>21, PcFacts DEF LoopConcludeWrite, Written, FinalStatus, AfterRejection, Statuses, Terminal
<1>22. ASSUME NEW l \in Starts, LoopEnded(l) PROVE TypeInv'
  BY <1>22, PcFacts DEF LoopEnded, ClearMaps
<1>23. ASSUME NEW l \in Starts, LoopFatal(l) PROVE TypeInv'
  BY <1>23, PcFacts DEF LoopFatal
<1>24. ASSUME NEW l \in Starts, LoopFatalWrite(l) PROVE TypeInv'
  BY <1>24, PcFacts DEF LoopFatalWrite, Written, Statuses, Terminal
<1>25. ASSUME NEW l \in Starts, LoopCleanup(l) PROVE TypeInv'
  BY <1>25, PcFacts DEF LoopCleanup, ClearMaps
<1>26. ASSUME NEW l \in Starts, LoopDatabaseError(l) PROVE TypeInv'
  BY <1>26, PcFacts DEF LoopDatabaseError, AfterRejection
<1>27. ASSUME NEW l \in Starts, InterveneDatabaseError(l) PROVE TypeInv'
  BY <1>27, PcFacts, BatchFacts DEF InterveneDatabaseError, SentStates
<1>28. ASSUME NEW c \in Controls, Pause(c) PROVE TypeInv'
  BY <1>28, PcFacts DEF Pause, ControlPcs
<1>29. ASSUME NEW c \in Controls, Resume(c) PROVE TypeInv'
  BY <1>29, PcFacts DEF Resume, Resolve, ControlPcs, Exits
<1>30. ASSUME NEW c \in Controls, ControlRead(c) PROVE TypeInv'
  BY <1>30, PcFacts DEF ControlRead, ControlPcs
<1>31. ASSUME NEW c \in Controls, ControlWrite(c) PROVE TypeInv'
  BY <1>31, PcFacts DEF ControlWrite, Written, Target, Statuses, ControlPcs
<1>32. ASSUME NEW i \in Interventions, QueueCheck(i) PROVE TypeInv'
  BY <1>32, PcFacts DEF QueueCheck, SentStates
<1>33. ASSUME NEW i \in Interventions, QueuePush(i) PROVE TypeInv'
  BY <1>33, PcFacts, AppendFacts DEF QueuePush, SentStates
<1>34. CASE Stop
  BY <1>34, PcFacts DEF Stop, Resolve, Exits
<1>35. CASE Remove
  BY <1>35, PcFacts, EmptyFact DEF Remove
<1>36. CASE Crash
  <2>1. pc' \in [Starts -> Pcs]
    BY <1>36, PcFacts DEF Crash
  <2>2. batch' \in [Starts -> Seq(Interventions)]
    BY <1>36, EmptyFact DEF Crash
  <2>3. ctl' \in [Controls -> ControlPcs] /\ iv' \in [Interventions -> SentStates]
    BY <1>36 DEF Crash, ControlPcs, SentStates
  <2>4. TypeOK'
    BY <1>36, <2>1, <2>2, <2>3, EmptyFact DEF Crash, ClearMaps
  <2>5. CommitHasHead'
    BY <1>36 DEF Crash, Over
  <2> QED BY <2>4, <2>5
<1>37. CASE RequestDatabaseError
  BY <1>37, PcFacts DEF RequestDatabaseError, ControlPcs
<1>38. CASE UNCHANGED vars
  BY <1>38 DEF vars
<1> QED
  BY <1>1, <1>2, <1>3, <1>4, <1>5, <1>6, <1>7, <1>8, <1>9, <1>10, <1>11, <1>12, <1>13, <1>14, <1>15, <1>16, <1>17, <1>18, <1>19, <1>20, <1>21, <1>22, <1>23, <1>24, <1>25, <1>26, <1>27, <1>28, <1>29, <1>30, <1>31, <1>32, <1>33, <1>34, <1>35, <1>36, <1>37, <1>38
     DEF Next, StartNext, LoopNext, ControlNext, InterventionNext, FaultNext

\* Every variable keeps its type, for every number of requests, experts, messages
\* and interventions and whatever faults occur (Discussion's actions).
THEOREM TypeCorrect == Spec => []TypeOK
<1>1. TypeInv => TypeOK
  BY DEF TypeInv
<1> QED BY <1>1, TypeInit, TypeNext, PTL DEF Spec

------------------------------------------------------------------------------
(* The message limit. *)

\* The three numbers that Count adds up.
LEMMA CountFacts == TypeOK => said \in Nat /\ asked \in Nat /\ Len(posted) \in Nat
BY DEF TypeOK

\* Where a loop's next step is the transaction of MessageService.create.
Committing == {"interveneCommit", "commit", "pollCommit"}

\* The transaction of MessageService.create stores one message, and only when
\* the count it takes leaves room; every other step leaves the messages alone or
\* deletes them with the session.
LEMMA MessageSteps ==
  ASSUME TypeInv, [Next]_vars
  PROVE  \/ UNCHANGED <<said, posted, asked>>
         \/ Remove
         \/ \E l \in Starts : pc[l] \in Committing /\ HasRoom /\ Count' = Count + 1
<1> DEFINE Same == UNCHANGED <<said, posted, asked>>
           Stores(l) == pc[l] \in Committing /\ HasRoom /\ Count' = Count + 1
<1> SUFFICES Same \/ Remove \/ \E l \in Starts : Stores(l)
  OBVIOUS
<1> USE DEF TypeInv
<1>1. ASSUME NEW l \in Starts, InterveneCommit(l) PROVE Same \/ Stores(l)
  <2>1. CASE HasRoom
    <3>1. Head(batch[l]) \in Interventions
      BY <1>1, BatchFacts DEF InterveneCommit, CommitHasHead
    <3>2. Len(posted') = Len(posted) + 1
      BY <1>1, <2>1, <3>1, AppendFacts DEF InterveneCommit, TypeOK
    <3>3. UNCHANGED <<said, asked>> /\ pc[l] \in Committing
      BY <1>1 DEF InterveneCommit, Committing
    <3> QED BY <2>1, <3>2, <3>3, CountFacts DEF Count
  <2>2. CASE ~HasRoom
    BY <1>1, <2>2 DEF InterveneCommit
  <2> QED BY <2>1, <2>2
<1>2. ASSUME NEW l \in Starts, LoopCommit(l) PROVE Same \/ Stores(l)
  <2>1. CASE HasRoom
    <3>1. /\ said' = said + 1 /\ UNCHANGED <<posted, asked>>
          /\ pc[l] \in Committing
      BY <1>2, <2>1 DEF LoopCommit, Committing
    <3> QED BY <2>1, <3>1, CountFacts DEF Count
  <2>2. CASE ~HasRoom
    BY <1>2, <2>2 DEF LoopCommit
  <2> QED BY <2>1, <2>2
<1>3. ASSUME NEW l \in Starts, PollCommit(l) PROVE Same \/ Stores(l)
  <2>1. CASE HasRoom
    <3>1. /\ asked' = asked + 1 /\ UNCHANGED <<posted, said>>
          /\ pc[l] \in Committing
      BY <1>3, <2>1 DEF PollCommit, Committing
    <3> QED BY <2>1, <3>1, CountFacts DEF Count
  <2>2. CASE ~HasRoom
    BY <1>3, <2>2 DEF PollCommit
  <2> QED BY <2>1, <2>2
<1>4. ASSUME NEW s \in Starts, StartNext(s) PROVE Same
  BY <1>4 DEF StartNext, StartRead, StartUpdate, StartWrite, StartLaunch, dbVars
<1>5. ASSUME NEW l \in Starts, LoopNext(l) PROVE Same \/ Stores(l)
  <2>1. CASE LoopTop(l) \/ LoopWoken(l) \/ InterveneRead(l) \/ InterveneDone(l)
    BY <2>1 DEF LoopTop, LoopWoken, InterveneRead, InterveneDone, dbVars
  <2>2. CASE LoopCount(l) \/ LoopTurn(l) \/ LoopCreate(l) \/ LoopEvaluate(l)
    BY <2>2 DEF LoopCount, LoopTurn, LoopCreate, LoopEvaluate, dbVars
  <2>3. CASE PollCheck(l) \/ PollCreate(l) \/ PollRead(l)
    BY <2>3 DEF PollCheck, PollCreate, PollRead, dbVars
  <2>4. CASE LoopFinish(l) \/ LoopConclude(l) \/ LoopConcludeWrite(l) \/ LoopEnded(l)
    BY <2>4 DEF LoopFinish, LoopConclude, LoopConcludeWrite, LoopEnded, dbVars
  <2>5. CASE LoopFatal(l) \/ LoopFatalWrite(l) \/ LoopCleanup(l)
    BY <2>5 DEF LoopFatal, LoopFatalWrite, LoopCleanup, dbVars
  <2> HIDE DEF Same, Stores
  <2> QED BY <1>1, <1>2, <1>3, <1>5, <2>1, <2>2, <2>3, <2>4, <2>5 DEF LoopNext
<1>6. ASSUME NEW c \in Controls, ControlNext(c) PROVE Same
  BY <1>6 DEF ControlNext, Pause, Resume, ControlRead, ControlWrite, dbVars
<1>7. ASSUME NEW i \in Interventions, InterventionNext(i) PROVE Same
  BY <1>7 DEF InterventionNext, QueueCheck, QueuePush, dbVars
<1>8. CASE Stop \/ Crash \/ RequestDatabaseError
  BY <1>8 DEF Stop, Crash, RequestDatabaseError, dbVars
<1>9. ASSUME NEW l \in Starts, LoopDatabaseError(l) \/ InterveneDatabaseError(l)
      PROVE  Same
  BY <1>9 DEF LoopDatabaseError, InterveneDatabaseError, dbVars
<1>10. CASE UNCHANGED vars
  BY <1>10 DEF vars, dbVars
<1> HIDE DEF Same, Stores
<1> QED
  BY <1>4, <1>5, <1>6, <1>7, <1>8, <1>9, <1>10 DEF Next, FaultNext

\* So the limit is kept.
LEMMA LimitNext == TypeInv /\ MessageLimit /\ [Next]_vars => MessageLimit'
<1> SUFFICES ASSUME TypeInv, MessageLimit, [Next]_vars
             PROVE  MessageLimit'
  OBVIOUS
<1>1. CASE UNCHANGED <<said, posted, asked>>
  BY <1>1 DEF MessageLimit, Count
<1>2. CASE Remove
  <2>1. said' = 0 /\ asked' = 0 /\ Len(posted') = 0
    BY <1>2 DEF Remove
  <2> QED BY <2>1, LimitAssumption DEF MessageLimit, Count
<1>3. CASE HasRoom /\ Count' = Count + 1
  <2>1. Count \in Nat
    BY CountFacts DEF TypeInv, Count
  <2> QED BY <1>3, <2>1, LimitAssumption DEF MessageLimit, HasRoom
<1> QED BY <1>1, <1>2, <1>3, MessageSteps

\* A session never stores more than maxMessages messages, for any number of start
\* requests, that is of loops, and any number of interventions: the re-check in
\* the transaction of MessageService.create is what keeps the limit.
THEOREM MessagesAreLimited == Spec => []MessageLimit
<1>1. Init => MessageLimit
  BY LimitAssumption DEF Init, MessageLimit, Count
<1> QED BY <1>1, TypeInit, TypeNext, LimitNext, PTL DEF Spec

------------------------------------------------------------------------------
(* The reason of SESSION_ENDED. *)

\* Messages and the rounds they belong to only leave the database with the
\* session, and a deleted session does not come back.
LEMMA RowsOnlyGrow ==
  ASSUME TypeInv, [Next]_vars, status' # Deleted
  PROVE  status # Deleted /\ Count' >= Count /\ spoken \subseteq spoken'
<1> USE DEF dbVars
<1>1. ~Remove
  BY DEF Remove
<1>2. Count' >= Count
  <2>1. Count \in Nat
    BY CountFacts DEF TypeInv, Count
  <2>2. CASE UNCHANGED <<said, posted, asked>>
    BY <2>1, <2>2 DEF Count
  <2>3. CASE Count' = Count + 1
    BY <2>1, <2>3
  <2> QED BY <1>1, <2>2, <2>3, MessageSteps
<1> DEFINE Goal == status # Deleted /\ spoken \subseteq spoken'
<1>3. ASSUME NEW s \in Starts, StartNext(s) PROVE Goal
  BY <1>3 DEF StartNext, StartRead, StartUpdate, StartWrite, StartLaunch, Written
<1>4. ASSUME NEW l \in Starts, LoopNext(l) PROVE Goal
  <2>1. CASE LoopTop(l) \/ LoopWoken(l) \/ InterveneRead(l) \/ InterveneCommit(l)
               \/ InterveneDone(l)
    BY <2>1 DEF LoopTop, LoopWoken, InterveneRead, InterveneCommit, InterveneDone
  <2>2. CASE LoopCount(l) \/ LoopTurn(l) \/ LoopCreate(l) \/ LoopCommit(l)
               \/ LoopEvaluate(l)
    BY <2>2 DEF LoopCount, LoopTurn, LoopCreate, LoopCommit, LoopEvaluate
  <2>3. CASE PollCheck(l) \/ PollCreate(l) \/ PollRead(l) \/ PollCommit(l)
    BY <2>3 DEF PollCheck, PollCreate, PollRead, PollCommit
  <2>4. CASE LoopFinish(l) \/ LoopConclude(l) \/ LoopConcludeWrite(l) \/ LoopEnded(l)
    BY <2>4 DEF LoopFinish, LoopConclude, LoopConcludeWrite, LoopEnded, Written
  <2>5. CASE LoopFatal(l) \/ LoopFatalWrite(l) \/ LoopCleanup(l)
    BY <2>5 DEF LoopFatal, LoopFatalWrite, LoopCleanup, Written
  <2> QED BY <1>4, <2>1, <2>2, <2>3, <2>4, <2>5 DEF LoopNext
<1>5. ASSUME NEW c \in Controls, ControlNext(c) PROVE Goal
  BY <1>5 DEF ControlNext, Pause, Resume, ControlRead, ControlWrite, Written
<1>6. ASSUME NEW i \in Interventions, InterventionNext(i) PROVE Goal
  BY <1>6 DEF InterventionNext, QueueCheck, QueuePush
<1>7. ASSUME Stop \/ Crash \/ RequestDatabaseError \/ UNCHANGED vars PROVE Goal
  <2>1. UNCHANGED <<status, spoken>>
    BY <1>7 DEF Stop, Crash, RequestDatabaseError, vars
  <2> QED BY <2>1
<1>8. ASSUME NEW l \in Starts, LoopDatabaseError(l) \/ InterveneDatabaseError(l)
      PROVE  Goal
  BY <1>8 DEF LoopDatabaseError, InterveneDatabaseError
<1> HIDE DEF Goal, dbVars
<1>9. Goal
  BY <1>1, <1>3, <1>4, <1>5, <1>6, <1>7, <1>8 DEF Next, FaultNext
<1> QED BY <1>2, <1>9 DEF Goal

\* What the way a loop l ended with says of the session, and the reason of the
\* way: no way out before the loop is left, and what was true of a session that
\* still exists stays true, for its messages only grow.
ReasonFits(l) ==
  /\ pc[l] \in StartPcs \cup TurnPcs => exit[l] = "none"
  /\ pc[l] = "finish" => exit[l] # "none"
  /\ reason[l] = "consensus" => exit[l] = "consensus"
  /\ status # Deleted =>
       /\ exit[l] = "consensus" => round[l] - 1 \in spoken
       /\ exit[l] = "limit" => Count >= MaxMessages
       /\ reason[l] = "max_messages" => exit[l] = "limit"
       /\ reason[l] = "cancelled" => exit[l] = "stopped"

\* The loops that resume and stop would move are waiting, so that they do not
\* change the way out of a loop that has one.
WaitersWait == \A l \in resolver : pc[l] = "waiting"

\* Only a loop that waits is ever in the slot.
LEMMA WaitersNext == TypeOK /\ WaitersWait /\ [Next]_vars => WaitersWait'
<1> SUFFICES ASSUME TypeOK, WaitersWait, [Next]_vars PROVE WaitersWait'
  OBVIOUS
<1> USE DEF WaitersWait, Goto, mapVars, loopVars
<1>0. pc \in [Starts -> Pcs] /\ resolver \subseteq Starts
  BY DEF TypeOK
<1>1. ASSUME NEW s \in Starts, StartNext(s) PROVE WaitersWait'
  BY <1>0, <1>1 DEF StartNext, StartRead, StartUpdate, StartWrite, StartLaunch
<1>2. ASSUME NEW l \in Starts, LoopNext(l) PROVE WaitersWait'
  <2>1. CASE LoopTop(l) \/ LoopWoken(l)
    BY <1>0, <2>1 DEF LoopTop, LoopWoken, BeginInterventions
  <2>2. CASE InterveneRead(l) \/ InterveneCommit(l) \/ InterveneDone(l)
    BY <1>0, <2>2 DEF InterveneRead, InterveneCommit, InterveneDone
  <2>3. CASE LoopCount(l) \/ LoopTurn(l) \/ LoopCreate(l) \/ LoopCommit(l)
    BY <1>0, <2>3 DEF LoopCount, LoopTurn, LoopCreate, LoopCommit, NextExpert
  <2>4. CASE LoopEvaluate(l)
    BY <1>0, <2>4 DEF LoopEvaluate
  <2>5. CASE PollCheck(l) \/ PollCreate(l) \/ PollRead(l) \/ PollCommit(l)
    BY <1>0, <2>5 DEF PollCheck, PollCreate, PollRead, PollCommit
  <2>6. CASE LoopFinish(l) \/ LoopConclude(l) \/ LoopConcludeWrite(l)
    BY <1>0, <2>6 DEF LoopFinish, LoopConclude, LoopConcludeWrite
  <2>7. CASE LoopFatal(l) \/ LoopFatalWrite(l)
    BY <1>0, <2>7 DEF LoopFatal, LoopFatalWrite
  <2>8. CASE LoopEnded(l) \/ LoopCleanup(l)
    BY <1>0, <2>8 DEF LoopEnded, LoopCleanup, ClearMaps
  <2> QED
    BY <1>2, <2>1, <2>2, <2>3, <2>4, <2>5, <2>6, <2>7, <2>8 DEF LoopNext
<1>3. ASSUME NEW c \in Controls, ControlNext(c) PROVE WaitersWait'
  BY <1>0, <1>3 DEF ControlNext, Pause, Resume, Resolve, ControlRead, ControlWrite
<1>4. ASSUME NEW i \in Interventions, InterventionNext(i) PROVE WaitersWait'
  BY <1>0, <1>4 DEF InterventionNext, QueueCheck, QueuePush
<1>5. CASE Stop
  BY <1>0, <1>5 DEF Stop, Resolve
<1>6. CASE Remove \/ Crash \/ RequestDatabaseError
  BY <1>0, <1>6 DEF Remove, Crash, ClearMaps, RequestDatabaseError
<1>7. ASSUME NEW l \in Starts, LoopDatabaseError(l) \/ InterveneDatabaseError(l)
      PROVE  WaitersWait'
  BY <1>0, <1>7 DEF LoopDatabaseError, InterveneDatabaseError
<1>8. CASE UNCHANGED vars
  BY <1>8 DEF vars
<1> QED
  BY <1>1, <1>2, <1>3, <1>4, <1>5, <1>6, <1>7, <1>8 DEF Next, FaultNext

\* A round with a consensus is one that experts spoke in: the fallback of an
\* evaluation is no consensus (evaluateConsensus).
LEMMA ConsensusNeedsMessages ==
  ASSUME NEW r, NEW e \in EvaluationsOf(r), Consensus(e)
  PROVE  r \in spoken
BY DEF EvaluationsOf, Consensus, Fallback

\* Every step keeps the way out and the reason of every loop true.
LEMMA ReasonNext ==
  ASSUME TypeInv, WaitersWait, [Next]_vars, NEW k \in Starts, ReasonFits(k)
  PROVE  ReasonFits(k)'
<1> USE DEF ReasonFits, Goto, dbVars, mapVars, loopVars, reqVars, StartPcs, TurnPcs
<1>a. /\ pc \in [Starts -> Pcs] /\ exit \in [Starts -> Exits]
      /\ reason \in [Starts -> Reasons] /\ round \in [Starts -> Nat]
  BY DEF TypeInv, TypeOK
<1>b. status' # Deleted => status # Deleted /\ Count' >= Count /\ spoken \subseteq spoken'
  BY RowsOnlyGrow
<1>c. Count \in Nat /\ Count' \in Nat /\ MaxMessages \in Nat
  <2>1. TypeOK /\ TypeOK'
    BY TypeNext DEF TypeInv
  <2>2. said' \in Nat /\ asked' \in Nat /\ Len(posted') \in Nat
    BY <2>1 DEF TypeOK
  <2> QED BY <2>1, <2>2, CountFacts, LimitAssumption DEF Count
<1>1. ASSUME NEW s \in Starts, StartNext(s) PROVE ReasonFits(k)'
  <2>1. CASE StartRead(s)
    BY <1>a, <1>b, <1>c, <2>1 DEF StartRead
  <2>2. CASE StartUpdate(s)
    BY <1>a, <1>b, <1>c, <2>2 DEF StartUpdate
  <2>3. CASE StartWrite(s)
    BY <1>a, <1>b, <1>c, <2>3 DEF StartWrite
  <2>4. CASE StartLaunch(s)
    BY <1>a, <1>b, <1>c, <2>4 DEF StartLaunch
  <2> QED BY <1>1, <2>1, <2>2, <2>3, <2>4 DEF StartNext
<1>2. ASSUME NEW l \in Starts, LoopNext(l) PROVE ReasonFits(k)'
  <2>1. CASE LoopTop(l)
    BY <1>a, <1>b, <1>c, <2>1 DEF LoopTop, BeginInterventions
  <2>2. CASE LoopWoken(l)
    BY <1>a, <1>b, <1>c, <2>2 DEF LoopWoken, BeginInterventions
  <2>3. CASE InterveneRead(l)
    BY <1>a, <1>b, <1>c, <2>3 DEF InterveneRead
  <2>4. CASE InterveneCommit(l)
    BY <1>a, <1>b, <1>c, <2>4 DEF InterveneCommit
  <2>5. CASE InterveneDone(l)
    BY <1>a, <1>b, <1>c, <2>5 DEF InterveneDone
  <2>6. CASE LoopCount(l)
    BY <1>a, <1>b, <1>c, <2>6 DEF LoopCount
  <2>7. CASE LoopTurn(l)
    BY <1>a, <1>b, <1>c, <2>7 DEF LoopTurn, NextExpert
  <2>8. CASE LoopCreate(l)
    BY <1>a, <1>b, <1>c, <2>8 DEF LoopCreate
  <2>9. CASE LoopCommit(l)
    BY <1>a, <1>b, <1>c, <2>9 DEF LoopCommit, NextExpert
  <2>10. CASE LoopEvaluate(l)
    <3>1. UNCHANGED <<status, spoken, round, reason>> /\ pc[l] = "evaluate"
      BY <2>10 DEF LoopEvaluate
    <3>2. PICK e \in EvaluationsOf(round[l] - 1) :
            IF Consensus(e)
              THEN exit' = [exit EXCEPT ![l] = "consensus"] /\ Goto(l, "finish")
              ELSE IF StallsAfter(e) >= StallLimit
                THEN exit' = [exit EXCEPT ![l] = "stalled"] /\ Goto(l, "finish")
                ELSE /\ Goto(l, IF Pollable(e) THEN "pollCheck" ELSE "top")
                     /\ UNCHANGED exit
      BY <2>10 DEF LoopEvaluate
    <3>3. Consensus(e) => round[l] - 1 \in spoken
      BY ConsensusNeedsMessages
    <3> QED BY <1>a, <1>b, <1>c, <3>1, <3>2, <3>3
  <2>11. CASE PollCheck(l)
    BY <1>a, <1>b, <1>c, <2>11 DEF PollCheck
  <2>12. CASE PollCreate(l)
    BY <1>a, <1>b, <1>c, <2>12 DEF PollCreate
  <2>13. CASE PollRead(l)
    BY <1>a, <1>b, <1>c, <2>13 DEF PollRead
  <2>14. CASE PollCommit(l)
    BY <1>a, <1>b, <1>c, <2>14 DEF PollCommit
  <2>15. CASE LoopFinish(l)
    <3>1. /\ UNCHANGED <<status, spoken, round, exit>>
          /\ pc' = [pc EXCEPT ![l] = "conclude"]
          /\ reason' = [reason EXCEPT ![l] = EndReason(l)]
          /\ l = k => exit[l] # "none"
      BY <2>15 DEF LoopFinish
    <3>2. /\ EndReason(l) = "consensus" => exit[l] = "consensus"
          /\ EndReason(l) = "max_messages" => exit[l] = "limit"
          /\ EndReason(l) = "cancelled" =>
               exit[l] \in {"stopped", "none"}
                 \/ (exit[l] = "limit" /\ ~(Count >= MaxMessages))
      BY <1>a DEF EndReason, Exits
    <3> QED BY <1>a, <1>b, <1>c, <3>1, <3>2
  <2>16. CASE LoopConclude(l)
    BY <1>a, <1>b, <1>c, <2>16 DEF LoopConclude, AfterRejection
  <2>17. CASE LoopConcludeWrite(l)
    BY <1>a, <1>b, <1>c, <2>17 DEF LoopConcludeWrite, AfterRejection
  <2>18. CASE LoopEnded(l)
    BY <1>a, <1>b, <1>c, <2>18 DEF LoopEnded
  <2>19. CASE LoopFatal(l)
    BY <1>a, <1>b, <1>c, <2>19 DEF LoopFatal
  <2>20. CASE LoopFatalWrite(l)
    BY <1>a, <1>b, <1>c, <2>20 DEF LoopFatalWrite
  <2>21. CASE LoopCleanup(l)
    BY <1>a, <1>b, <1>c, <2>21 DEF LoopCleanup
  <2> QED
    BY <1>2, <2>1, <2>2, <2>3, <2>4, <2>5, <2>6, <2>7, <2>8, <2>9, <2>10, <2>11,
       <2>12, <2>13, <2>14, <2>15, <2>16, <2>17, <2>18, <2>19, <2>20, <2>21
       DEF LoopNext
<1>3. ASSUME NEW c \in Controls, ControlNext(c) PROVE ReasonFits(k)'
  <2>1. CASE Resume(c)
    BY <1>a, <1>b, <1>c, <2>1 DEF Resume, Resolve, WaitersWait
  <2>2. CASE Pause(c) \/ ControlRead(c) \/ ControlWrite(c)
    BY <1>a, <1>b, <1>c, <2>2 DEF Pause, ControlRead, ControlWrite
  <2> QED BY <1>3, <2>1, <2>2 DEF ControlNext
<1>4. ASSUME NEW i \in Interventions, InterventionNext(i) PROVE ReasonFits(k)'
  BY <1>a, <1>b, <1>c, <1>4 DEF InterventionNext, QueueCheck, QueuePush
<1>5. CASE Stop
  BY <1>a, <1>b, <1>c, <1>5 DEF Stop, Resolve, WaitersWait
<1>6. CASE Remove
  BY <1>a, <1>b, <1>c, <1>6 DEF Remove
<1>7. CASE Crash
  BY <1>a, <1>b, <1>c, <1>7 DEF Crash, Running, LoopPcs, EndPcs, Over, Pcs
<1>8. CASE RequestDatabaseError
  BY <1>a, <1>b, <1>c, <1>8 DEF RequestDatabaseError
<1>9. ASSUME NEW l \in Starts, LoopDatabaseError(l) \/ InterveneDatabaseError(l)
      PROVE  ReasonFits(k)'
  <2>1. CASE LoopDatabaseError(l)
    BY <1>a, <1>b, <1>c, <2>1 DEF LoopDatabaseError, AfterRejection
  <2>2. CASE InterveneDatabaseError(l)
    BY <1>a, <1>b, <1>c, <2>2 DEF InterveneDatabaseError
  <2> QED BY <1>9, <2>1, <2>2
<1>10. CASE UNCHANGED vars
  BY <1>a, <1>b, <1>c, <1>10 DEF vars
<1> QED
  BY <1>1, <1>2, <1>3, <1>4, <1>5, <1>6, <1>7, <1>8, <1>9, <1>10 DEF Next, FaultNext

\* Whatever loops, pauses, stops, deletions and crashes a session has seen, the
\* reason that its SESSION_ENDED carried is true of it: a limit that was reached,
\* an agreement of experts that spoke, a stop (runDiscussionLoop).
THEOREM ReasonIsAlwaysTrue == Spec => []ReasonIsTrue
<1> DEFINE IInv == WaitersWait /\ \A l \in Starts : ReasonFits(l)
<1>1. Init => IInv
  BY DEF Init, WaitersWait, ReasonFits
<1>2. TypeInv /\ IInv /\ [Next]_vars => IInv'
  BY WaitersNext, ReasonNext DEF TypeInv
<1>3. TypeInv /\ MessageLimit /\ IInv => ReasonIsTrue
  <2>1. TypeInv => Count \in Nat
    BY CountFacts DEF TypeInv, Count
  <2> QED BY <2>1, LimitAssumption DEF ReasonIsTrue, ReasonFits, MessageLimit
<1> HIDE DEF IInv
<1>4. Spec => []TypeInv
  BY TypeInit, TypeNext, PTL DEF Spec
<1> QED BY <1>1, <1>2, <1>3, <1>4, MessagesAreLimited, PTL DEF Spec

------------------------------------------------------------------------------
(* One start request: control of the loop. *)

\* With s the only start request: the slot holds the promise the loop waits on and
\* nothing else, a loop waits only under a pause, and there is a flag as long as
\* the loop runs.  The first part is what NoLostWakeup lacks to be inductive:
\* resume and stop move whatever loop the slot names.
ControlInv(s) ==
  /\ resolver = IF pc[s] = "waiting" THEN {s} ELSE {}
  /\ pc[s] = "waiting" => flag = "paused"
  /\ flag # "none" <=> pc[s] \in LoopPcs

\* Every step of a session with one start request keeps its control in order.
LEMMA ControlNextInv ==
  ASSUME NEW s, Starts = {s}, TypeOK, ControlInv(s), [Next]_vars
  PROVE  ControlInv(s)'
<1> USE DEF ControlInv, LoopPcs, TurnPcs, EndPcs, Goto, dbVars, mapVars, loopVars,
            reqVars
<1>0. pc \in [Starts -> Pcs]
  BY DEF TypeOK
<1>1. CASE StartRead(s)
  BY <1>0, <1>1 DEF StartRead
<1>2. CASE StartUpdate(s)
  BY <1>0, <1>2 DEF StartUpdate
<1>3. CASE StartWrite(s)
  BY <1>0, <1>3 DEF StartWrite
<1>4. CASE StartLaunch(s)
  BY <1>0, <1>4 DEF StartLaunch
<1>5. CASE LoopTop(s)
  BY <1>0, <1>5 DEF LoopTop, BeginInterventions
<1>6. CASE LoopWoken(s)
  BY <1>0, <1>6 DEF LoopWoken, BeginInterventions
<1>7. CASE InterveneRead(s)
  BY <1>0, <1>7 DEF InterveneRead
<1>8. CASE InterveneCommit(s)
  BY <1>0, <1>8 DEF InterveneCommit
<1>9. CASE InterveneDone(s)
  BY <1>0, <1>9 DEF InterveneDone
<1>10. CASE LoopCount(s)
  BY <1>0, <1>10 DEF LoopCount
<1>11. CASE LoopTurn(s)
  BY <1>0, <1>11 DEF LoopTurn, NextExpert
<1>12. CASE LoopCreate(s)
  BY <1>0, <1>12 DEF LoopCreate
<1>13. CASE LoopCommit(s)
  BY <1>0, <1>13 DEF LoopCommit, NextExpert
<1>14. CASE LoopEvaluate(s)
  BY <1>0, <1>14 DEF LoopEvaluate
<1>15. CASE PollCheck(s)
  BY <1>0, <1>15 DEF PollCheck
<1>16. CASE PollCreate(s)
  BY <1>0, <1>16 DEF PollCreate
<1>17. CASE PollRead(s)
  BY <1>0, <1>17 DEF PollRead
<1>18. CASE PollCommit(s)
  BY <1>0, <1>18 DEF PollCommit
<1>19. CASE LoopFinish(s)
  BY <1>0, <1>19 DEF LoopFinish
<1>20. CASE LoopConclude(s)
  BY <1>0, <1>20 DEF LoopConclude, AfterRejection
<1>21. CASE LoopConcludeWrite(s)
  BY <1>0, <1>21 DEF LoopConcludeWrite, AfterRejection
<1>22. CASE LoopEnded(s)
  BY <1>0, <1>22 DEF LoopEnded, ClearMaps
<1>23. CASE LoopFatal(s)
  BY <1>0, <1>23 DEF LoopFatal
<1>24. CASE LoopFatalWrite(s)
  BY <1>0, <1>24 DEF LoopFatalWrite
<1>25. CASE LoopCleanup(s)
  BY <1>0, <1>25 DEF LoopCleanup, ClearMaps
<1>26. CASE LoopDatabaseError(s)
  BY <1>0, <1>26 DEF LoopDatabaseError, AfterRejection
<1>27. CASE InterveneDatabaseError(s)
  BY <1>0, <1>27 DEF InterveneDatabaseError
<1>28. ASSUME NEW c \in Controls, Pause(c) PROVE ControlInv(s)'
  BY <1>0, <1>28 DEF Pause
<1>29. ASSUME NEW c \in Controls, Resume(c) PROVE ControlInv(s)'
  BY <1>0, <1>29 DEF Resume, Resolve
<1>30. ASSUME NEW c \in Controls, ControlRead(c) PROVE ControlInv(s)'
  BY <1>0, <1>30 DEF ControlRead
<1>31. ASSUME NEW c \in Controls, ControlWrite(c) PROVE ControlInv(s)'
  BY <1>0, <1>31 DEF ControlWrite
<1>32. ASSUME NEW i \in Interventions, QueueCheck(i) PROVE ControlInv(s)'
  BY <1>0, <1>32 DEF QueueCheck
<1>33. ASSUME NEW i \in Interventions, QueuePush(i) PROVE ControlInv(s)'
  BY <1>0, <1>33 DEF QueuePush
<1>34. CASE Stop
  BY <1>0, <1>34 DEF Stop, Resolve
<1>35. CASE Remove
  BY <1>0, <1>35 DEF Remove
<1>36. CASE Crash
  BY <1>0, <1>36 DEF Crash, ClearMaps, Running, Over
<1>37. CASE RequestDatabaseError
  BY <1>0, <1>37 DEF RequestDatabaseError
<1>38. CASE UNCHANGED vars
  BY <1>38 DEF vars
<1> QED
  BY <1>1, <1>2, <1>3, <1>4, <1>5, <1>6, <1>7, <1>8, <1>9, <1>10, <1>11,
     <1>12, <1>13, <1>14, <1>15, <1>16, <1>17, <1>18, <1>19, <1>20, <1>21,
     <1>22, <1>23, <1>24, <1>25, <1>26, <1>27, <1>28, <1>29, <1>30, <1>31,
     <1>32, <1>33, <1>34, <1>35, <1>36, <1>37, <1>38
     DEF Next, StartNext, LoopNext, ControlNext, InterventionNext, FaultNext

\* Before the start there is no flag and nothing to wake.
LEMMA ControlInit ==
  ASSUME NEW s, Starts = {s}, Init
  PROVE  ControlInv(s)
BY DEF Init, ControlInv, LoopPcs, TurnPcs, EndPcs

\* A session with one start request is always under control.
LEMMA ControlAlways ==
  ASSUME NEW s, Starts = {s}
  PROVE  Spec => []ControlInv(s)
<1>1. Init => ControlInv(s)
  BY ControlInit
<1>2. TypeInv /\ ControlInv(s) /\ [Next]_vars => ControlInv(s)'
  BY ControlNextInv DEF TypeInv
<1> QED BY <1>1, <1>2, TypeInit, TypeNext, PTL DEF Spec

\* A paused session with one start request never loses its loop: whatever pause,
\* resume, stop and deletion do, in whatever order, the promise it waits on is the
\* one that resume and stop resolve (waitWhilePaused).
THEOREM WaitersCanBeWoken ==
  ASSUME NEW s, Starts = {s}
  PROVE  Spec => []NoLostWakeup
<1>1. ControlInv(s) => NoLostWakeup
  BY DEF ControlInv, NoLostWakeup
<1> QED BY <1>1, ControlAlways, PTL

\* A session with one start request can be controlled exactly while its loop runs:
\* the flag that pause, resume and stop look for is there from the launch to both
\* ways out of runDiscussionLoop.
THEOREM FlagFollowsLoop ==
  ASSUME NEW s, Starts = {s}
  PROVE  Spec => []FlagMeansLoop
<1>1. ControlInv(s) => FlagMeansLoop
  BY DEF ControlInv, FlagMeansLoop, Running
<1> QED BY <1>1, ControlAlways, PTL
------------------------------------------------------------------------------
(* One start request: how the session ends. *)

\* Where a loop is that neither stores nor concludes anything any more.
Silent == {"ended", "cleanup"} \cup Over

\* With s the only start request: a terminal status was written by the loop on its
\* way out, and COMPLETED by the write that says whether there was consensus.
\* That requests write PAUSED or ACTIVE over it does not matter: what they write is
\* not terminal.
EndInv(s) ==
  /\ status \in Terminal => pc[s] \in Silent
  /\ status = "COMPLETED" => pc[s] \in {"ended", "done", "crashed"}
  /\ status = "COMPLETED" => (agreed <=> exit[s] = "consensus")

\* The steps of the one loop that are not its last ones: it is not silent, so the
\* status is not terminal, and they leave the status alone.
LEMMA BusyKeepsEndInv ==
  ASSUME NEW s, EndInv(s), pc[s] \notin Silent, UNCHANGED status
  PROVE  EndInv(s)'
<1>1. status \notin Terminal
  BY DEF EndInv
<1> QED BY <1>1 DEF EndInv, Terminal

\* Every step of a session with one start request keeps its end in order.
LEMMA EndNext ==
  ASSUME NEW s, Starts = {s}, TypeInv, WaitersWait, EndInv(s), [Next]_vars
  PROVE  EndInv(s)'
<1> USE DEF Goto, dbVars, mapVars, loopVars, reqVars
<1>a. /\ pc \in [Starts -> Pcs] /\ exit \in [Starts -> Exits]
      /\ resolver \subseteq Starts /\ s \in Starts /\ agreed \in BOOLEAN
      /\ status \in Statuses \cup {Deleted}
  BY DEF TypeInv, TypeOK
<1>1. ASSUME StartNext(s) PROVE EndInv(s)'
  <2>1. CASE StartWrite(s)
    BY <1>a, <2>1 DEF StartWrite, EndInv, Written, Terminal, Deleted
  <2>2. CASE StartRead(s) \/ StartUpdate(s) \/ StartLaunch(s)
    <3>1. pc[s] \notin Silent /\ UNCHANGED status
      BY <2>2 DEF StartRead, StartUpdate, StartLaunch, Silent, Over
    <3> QED BY <3>1, BusyKeepsEndInv
  <2> QED BY <1>1, <2>1, <2>2 DEF StartNext
<1>2. ASSUME LoopNext(s) PROVE EndInv(s)'
  <2> DEFINE Busy == pc[s] \notin Silent /\ UNCHANGED status
  <2> USE DEF Silent, Over
  <2>1. CASE LoopTop(s) \/ LoopWoken(s) \/ InterveneRead(s) \/ InterveneCommit(s)
               \/ InterveneDone(s)
    <3>1. Busy
      BY <2>1 DEF LoopTop, LoopWoken, InterveneRead, InterveneCommit, InterveneDone
    <3> QED BY <3>1, BusyKeepsEndInv
  <2>2. CASE LoopCount(s) \/ LoopTurn(s) \/ LoopCreate(s) \/ LoopCommit(s)
               \/ LoopEvaluate(s)
    <3>1. Busy
      BY <2>2 DEF LoopCount, LoopTurn, LoopCreate, LoopCommit, LoopEvaluate
    <3> QED BY <3>1, BusyKeepsEndInv
  <2>3. CASE PollCheck(s) \/ PollCreate(s) \/ PollRead(s) \/ PollCommit(s)
    <3>1. Busy
      BY <2>3 DEF PollCheck, PollCreate, PollRead, PollCommit
    <3> QED BY <3>1, BusyKeepsEndInv
  <2>4. CASE LoopFinish(s) \/ LoopConclude(s) \/ LoopFatal(s)
    <3>1. Busy
      BY <2>4 DEF LoopFinish, LoopConclude, LoopFatal
    <3> QED BY <3>1, BusyKeepsEndInv
  <2>5. CASE LoopConcludeWrite(s)
    <3>1. CASE status = Deleted
      BY <2>5, <3>1 DEF LoopConcludeWrite, EndInv, Written, Terminal, Deleted
    <3>2. CASE status # Deleted
      <4>1. status' = FinalStatus(s) /\ pc'[s] = "ended" /\ UNCHANGED exit
        BY <1>a, <2>5, <3>2 DEF LoopConcludeWrite, Written
      <4>2. exit[s] # "stopped" => (agreed' <=> exit[s] = "consensus")
        BY <2>5, <3>2 DEF LoopConcludeWrite
      <4> QED BY <4>1, <4>2 DEF EndInv, FinalStatus, Terminal
    <3> QED BY <3>1, <3>2
  <2>6. CASE LoopFatalWrite(s)
    BY <1>a, <2>6 DEF LoopFatalWrite, EndInv, Written, Terminal, Deleted
  <2>7. CASE LoopEnded(s) \/ LoopCleanup(s)
    <3>1. /\ UNCHANGED <<status, agreed, exit>>
          /\ \/ pc[s] = "ended" /\ pc'[s] = "done"
             \/ pc[s] = "cleanup" /\ pc'[s] = "failed"
      BY <1>a, <2>7 DEF LoopEnded, LoopCleanup
    <3> QED BY <3>1 DEF EndInv
  <2> HIDE DEF Busy
  <2> QED BY <1>2, <2>1, <2>2, <2>3, <2>4, <2>5, <2>6, <2>7 DEF LoopNext
<1>3. ASSUME NEW c \in Controls, ControlNext(c) PROVE EndInv(s)'
  <2>1. CASE Resume(c)
    <3>1. UNCHANGED <<status, agreed>>
      BY <2>1 DEF Resume
    <3>2. s \notin resolver => pc'[s] = pc[s] /\ exit'[s] = exit[s]
      BY <1>a, <2>1 DEF Resume, Resolve
    <3>3. s \in resolver => pc[s] \notin Silent
      BY DEF WaitersWait, Silent, Over
    <3> QED BY <3>1, <3>2, <3>3, BusyKeepsEndInv DEF EndInv
  <2>2. CASE Pause(c) \/ ControlRead(c)
    BY <2>2 DEF Pause, ControlRead, EndInv
  <2>3. CASE ControlWrite(c)
    BY <2>3 DEF ControlWrite, EndInv, Written, Target, Terminal, Deleted
  <2> QED BY <1>3, <2>1, <2>2, <2>3 DEF ControlNext
<1>4. ASSUME NEW i \in Interventions, InterventionNext(i) PROVE EndInv(s)'
  BY <1>4 DEF InterventionNext, QueueCheck, QueuePush, EndInv
<1>5. CASE Stop
  <2>1. UNCHANGED <<status, agreed>>
    BY <1>5 DEF Stop
  <2>2. s \notin resolver => pc'[s] = pc[s] /\ exit'[s] = exit[s]
    BY <1>a, <1>5 DEF Stop, Resolve
  <2>3. s \in resolver => pc[s] \notin Silent
    BY DEF WaitersWait, Silent, Over
  <2> QED BY <2>1, <2>2, <2>3, BusyKeepsEndInv DEF EndInv
<1>6. CASE Remove
  BY <1>6 DEF Remove, EndInv, Terminal, Deleted
<1>7. CASE Crash
  <2>1. UNCHANGED <<status, agreed, exit>>
    BY <1>7 DEF Crash
  <2>2. pc[s] \in Over => pc'[s] = pc[s]
    BY <1>a, <1>7 DEF Crash, Running, LoopPcs, TurnPcs, EndPcs, Over
  <2>3. pc[s] \in LoopPcs => pc'[s] = "crashed"
    BY <1>a, <1>7 DEF Crash, Running
  <2> QED BY <2>1, <2>2, <2>3 DEF EndInv, Silent, Over, LoopPcs, EndPcs
<1>8. CASE RequestDatabaseError
  <2>1. UNCHANGED <<status, agreed, exit>>
    BY <1>8 DEF RequestDatabaseError
  <2>2. pc'[s] = pc[s] \/ pc[s] \in {"startUpdate", "startWrite"}
    BY <1>a, <1>8 DEF RequestDatabaseError
  <2> QED BY <2>1, <2>2, BusyKeepsEndInv DEF EndInv, Silent, Over
<1>9. CASE LoopDatabaseError(s) \/ InterveneDatabaseError(s)
  <2>1. pc[s] \notin Silent /\ UNCHANGED status
    BY <1>9 DEF LoopDatabaseError, InterveneDatabaseError, Silent, Over
  <2> QED BY <2>1, BusyKeepsEndInv
<1>10. CASE UNCHANGED vars
  BY <1>10 DEF vars, EndInv
<1> QED
  BY <1>1, <1>2, <1>3, <1>4, <1>5, <1>6, <1>7, <1>8, <1>9, <1>10 DEF Next, FaultNext

\* The end of a session with one start request is always in order.
LEMMA EndAlways ==
  ASSUME NEW s, Starts = {s}
  PROVE  Spec => []EndInv(s)
<1>1. Init => WaitersWait /\ EndInv(s)
  BY DEF Init, WaitersWait, EndInv, Terminal
<1>2. TypeInv /\ WaitersWait /\ EndInv(s) /\ [Next]_vars => WaitersWait' /\ EndInv(s)'
  BY WaitersNext, EndNext DEF TypeInv
<1> QED BY <1>1, <1>2, TypeInit, TypeNext, PTL DEF Spec

\* A session with one start request that ends COMPLETED says that consensus was
\* reached exactly when its loop ended for that, in whatever order pause and resume
\* requests write its row (concludeSession).
THEOREM AgreedIsAlwaysTrue ==
  ASSUME NEW s, Starts = {s}
  PROVE  Spec => []AgreedIsTrue
<1>1. EndInv(s) => AgreedIsTrue
  BY DEF EndInv, AgreedIsTrue
<1> QED BY <1>1, EndAlways, PTL

\* A session with one start request gets no message once it is COMPLETED or
\* CANCELLED, although MessageService.create checks the status outside its
\* transaction: only the loop that would write the message writes such a status.
THEOREM TerminalSessionIsSilent ==
  ASSUME NEW s, Starts = {s}
  PROVE  Spec => NoMessageWhenTerminal
<1>1. TypeInv /\ EndInv(s) /\ [Next]_vars => [Count' > Count => status \notin Terminal]_vars
  <2> SUFFICES ASSUME TypeInv, EndInv(s), [Next]_vars, Count' > Count
               PROVE  status \notin Terminal
    OBVIOUS
  <2>1. Count \in Nat
    BY CountFacts DEF TypeInv, Count
  <2>2. CASE UNCHANGED <<said, posted, asked>>
    BY <2>1, <2>2 DEF Count
  <2>3. CASE Remove
    <3>1. Count' = 0
      BY <2>3 DEF Remove, Count
    <3> QED BY <2>1, <3>1
  <2>4. CASE \E l \in Starts : pc[l] \in Committing
    BY <2>4 DEF EndInv, Committing, Silent, Over
  <2> QED BY <2>2, <2>3, <2>4, MessageSteps
<1>2. Spec => []TypeInv
  BY TypeInit, TypeNext, PTL DEF Spec
<1> QED BY <1>1, <1>2, EndAlways, PTL DEF Spec, NoMessageWhenTerminal
------------------------------------------------------------------------------
(* One start request: the order of the interventions. *)

\* x is an element of a, the acknowledgements in order.
Acked(x, a) == \E m \in 1 .. Len(a) : x = a[m]

\* x was acknowledged before y.
Before(x, y, a) == \E m, n \in 1 .. Len(a) : m < n /\ x = a[m] /\ y = a[n]

\* Every element of q was acknowledged.
Drawn(q, a) == \A j \in 1 .. Len(q) : Acked(q[j], a)

\* Everything in p was acknowledged before everything in q.
Precedes(p, q, a) == \A j \in 1 .. Len(p), k \in 1 .. Len(q) : Before(p[j], q[k], a)

\* The elements of q are in the order of their acknowledgements.
Ordered(q, a) == \A j, k \in 1 .. Len(q) : j < k => Before(q[j], q[k], a)

\* What Append does to the elements and the indices.
LEMMA AppendElements ==
  ASSUME NEW S, NEW q \in Seq(S), NEW x \in S
  PROVE  /\ Len(q) \in Nat
         /\ Len(Append(q, x)) = Len(q) + 1
         /\ \A j \in 1 .. Len(q) : Append(q, x)[j] = q[j]
         /\ Append(q, x)[Len(q) + 1] = x
         /\ \A j \in 1 .. Len(Append(q, x)) : j \in 1 .. Len(q) \/ j = Len(q) + 1
OBVIOUS

\* What taking the first element does to them.
LEMMA TailElements ==
  ASSUME NEW S, NEW q \in Seq(S), q # <<>>
  PROVE  /\ 1 \in 1 .. Len(q)
         /\ Head(q) = q[1]
         /\ \A j \in 1 .. Len(Tail(q)) :
              j \in Nat /\ Tail(q)[j] = q[j + 1] /\ j + 1 \in 1 .. Len(q) /\ 1 < j + 1
         /\ \A j, k \in 1 .. Len(Tail(q)) : j < k => j + 1 < k + 1
<1>1. Len(q) \in Nat \ {0} /\ Head(q) = q[1] /\ Len(Tail(q)) = Len(q) - 1
  OBVIOUS
<1>2. \A j \in 1 .. Len(Tail(q)) : Tail(q)[j] = q[j + 1]
  OBVIOUS
<1>3. \A j \in 1 .. Len(Tail(q)) : j \in Nat /\ j + 1 \in 1 .. Len(q) /\ 1 < j + 1
  BY <1>1
<1>4. \A j, k \in 1 .. Len(Tail(q)) : j < k => j + 1 < k + 1
  BY <1>3
<1> QED BY <1>1, <1>2, <1>3, <1>4

\* A new acknowledgement comes after the earlier ones, whose order it leaves alone.
LEMMA AckFacts ==
  ASSUME NEW S, NEW a \in Seq(S), NEW z \in S
  PROVE  /\ Acked(z, Append(a, z))
         /\ \A x : Acked(x, a) => Acked(x, Append(a, z)) /\ Before(x, z, Append(a, z))
         /\ \A x, y : Before(x, y, a) => Before(x, y, Append(a, z))
<1> DEFINE b == Append(a, z)
<1>1. /\ Len(a) \in Nat /\ Len(b) = Len(a) + 1
      /\ \A j \in 1 .. Len(a) : b[j] = a[j]
      /\ b[Len(a) + 1] = z
  BY AppendElements
<1> HIDE DEF b
<1>2. Len(a) + 1 \in 1 .. Len(b) /\ \A m \in 1 .. Len(a) : m \in 1 .. Len(b) /\ m < Len(a) + 1
  BY <1>1
<1>3. Acked(z, b)
  BY <1>1, <1>2 DEF Acked
<1>4. ASSUME NEW x, Acked(x, a) PROVE Acked(x, b) /\ Before(x, z, b)
  <2>1. PICK m \in 1 .. Len(a) : x = a[m]
    BY <1>4 DEF Acked
  <2>2. m \in 1 .. Len(b) /\ x = b[m] /\ m < Len(a) + 1
    BY <1>1, <1>2, <2>1
  <2> QED BY <1>1, <1>2, <2>2 DEF Acked, Before
<1>5. ASSUME NEW x, NEW y, Before(x, y, a) PROVE Before(x, y, b)
  <2>1. PICK m \in 1 .. Len(a), n \in 1 .. Len(a) : m < n /\ x = a[m] /\ y = a[n]
    BY <1>5 DEF Before
  <2>2. m \in 1 .. Len(b) /\ n \in 1 .. Len(b) /\ x = b[m] /\ y = b[n]
    BY <1>1, <1>2, <2>1
  <2> QED BY <2>1, <2>2 DEF Before
<1> QED BY <1>3, <1>4, <1>5 DEF b

\* An acknowledgement changes nothing about the earlier ones.
LEMMA LaterAck ==
  ASSUME NEW S, NEW a \in Seq(S), NEW x \in S, NEW p, NEW q
  PROVE  /\ Drawn(q, a) => Drawn(q, Append(a, x))
         /\ Precedes(p, q, a) => Precedes(p, q, Append(a, x))
         /\ Ordered(q, a) => Ordered(q, Append(a, x))
BY AckFacts DEF Drawn, Precedes, Ordered

\* An intervention that is acknowledged and pushed comes after all earlier ones.
LEMMA PushInOrder ==
  ASSUME NEW S, NEW a \in Seq(S), NEW x \in S, NEW p, NEW q \in Seq(S),
         Drawn(p, a), Drawn(q, a)
  PROVE  /\ Drawn(Append(q, x), Append(a, x))
         /\ Ordered(q, a) => Ordered(Append(q, x), Append(a, x))
         /\ Precedes(p, q, a) => Precedes(p, Append(q, x), Append(a, x))
<1> DEFINE b == Append(a, x)
           r == Append(q, x)
<1>1. /\ Len(q) \in Nat /\ r[Len(q) + 1] = x
      /\ \A j \in 1 .. Len(q) : r[j] = q[j]
      /\ \A j \in 1 .. Len(r) : j \in 1 .. Len(q) \/ j = Len(q) + 1
  BY AppendElements
<1>2. /\ Acked(x, b)
      /\ \A y : Acked(y, a) => Acked(y, b) /\ Before(y, x, b)
      /\ \A y, z : Before(y, z, a) => Before(y, z, b)
  BY AckFacts
<1> HIDE DEF b, r
<1>3. \A j, k \in 1 .. Len(r) : j < k => j \in 1 .. Len(q)
  BY <1>1
<1>4. Drawn(r, b)
  BY <1>1, <1>2 DEF Drawn
<1>5. Ordered(q, a) => Ordered(r, b)
  BY <1>1, <1>2, <1>3 DEF Ordered, Drawn
<1>6. Precedes(p, q, a) => Precedes(p, r, b)
  BY <1>1, <1>2 DEF Precedes, Drawn
<1> QED BY <1>4, <1>5, <1>6 DEF b, r

\* Taking the first element leaves the others in order.
LEMMA TailInOrder ==
  ASSUME NEW S, NEW a, NEW p, NEW q \in Seq(S), q # <<>>
  PROVE  /\ Drawn(q, a) => Drawn(Tail(q), a)
         /\ Ordered(q, a) => Ordered(Tail(q), a)
         /\ Precedes(p, q, a) => Precedes(p, Tail(q), a)
<1> DEFINE t == Tail(q)
<1>1. /\ \A j \in 1 .. Len(t) : t[j] = q[j + 1] /\ j + 1 \in 1 .. Len(q)
      /\ \A j, k \in 1 .. Len(t) : j < k => j + 1 < k + 1
  BY TailElements
<1> HIDE DEF t
<1>2. Drawn(q, a) => Drawn(t, a)
  BY <1>1 DEF Drawn
<1>3. Ordered(q, a) => Ordered(t, a)
  BY <1>1 DEF Ordered
<1>4. Precedes(p, q, a) => Precedes(p, t, a)
  BY <1>1 DEF Precedes
<1> QED BY <1>2, <1>3, <1>4 DEF t

\* Moving the first element of q, which p precedes, to the end of p keeps both in
\* order and p before what is left of q.
LEMMA MoveInOrder ==
  ASSUME NEW S, NEW a, NEW p \in Seq(S), NEW q \in Seq(S), q # <<>>,
         Drawn(p, a), Drawn(q, a), Ordered(p, a), Ordered(q, a), Precedes(p, q, a)
  PROVE  /\ Drawn(Append(p, Head(q)), a)
         /\ Ordered(Append(p, Head(q)), a)
         /\ Precedes(Append(p, Head(q)), Tail(q), a)
<1> DEFINE r == Append(p, Head(q))
           t == Tail(q)
<1>1. Head(q) \in S
  BY TailFacts
<1>2. /\ Len(p) \in Nat /\ r[Len(p) + 1] = Head(q)
      /\ \A j \in 1 .. Len(p) : r[j] = p[j]
      /\ \A j \in 1 .. Len(r) : j \in 1 .. Len(p) \/ j = Len(p) + 1
  BY <1>1, AppendElements
<1>3. /\ 1 \in 1 .. Len(q) /\ Head(q) = q[1]
      /\ \A j \in 1 .. Len(t) : t[j] = q[j + 1] /\ j + 1 \in 1 .. Len(q) /\ 1 < j + 1
  BY TailElements
<1> HIDE DEF r, t
<1>4. \A j, k \in 1 .. Len(r) : j < k => j \in 1 .. Len(p)
  BY <1>2
<1>5. Drawn(r, a)
  BY <1>2, <1>3 DEF Drawn
<1>6. Ordered(r, a)
  BY <1>2, <1>3, <1>4 DEF Ordered, Precedes
<1>7. Precedes(r, t, a)
  <2> SUFFICES ASSUME NEW j \in 1 .. Len(r), NEW k \in 1 .. Len(t)
               PROVE  Before(r[j], t[k], a)
    BY DEF Precedes
  <2>1. t[k] = q[k + 1] /\ k + 1 \in 1 .. Len(q) /\ 1 < k + 1
    BY <1>3
  <2>2. j \in 1 .. Len(p) => Before(p[j], q[k + 1], a)
    BY <2>1 DEF Precedes
  <2>3. Before(q[1], q[k + 1], a)
    BY <1>3, <2>1 DEF Ordered
  <2> QED BY <1>2, <1>3, <2>1, <2>2, <2>3
<1> QED BY <1>5, <1>6, <1>7 DEF r, t
\* The empty queue is in order with everything.
LEMMA EmptyInOrder ==
  ASSUME NEW a, NEW q
  PROVE  /\ Drawn(<<>>, a) /\ Ordered(<<>>, a)
         /\ Precedes(q, <<>>, a) /\ Precedes(<<>>, q, a)
<1>1. 1 .. Len(<<>>) = {}
  OBVIOUS
<1> QED BY <1>1 DEF Drawn, Ordered, Precedes

\* Where the loop is inside processInterventions.
Processing == {"intervene", "interveneCommit"}

\* With s the only start request: what is stored, what the loop has left to store
\* and what the queue holds are each in the order of their acknowledgements, and
\* what is stored comes before what is still to be stored.  While the loop iterates,
\* the array in the map holds what was already stored too, which is why the queue
\* follows the stored ones only outside processInterventions.
OrderInv(s) ==
  /\ live = IF pc[s] \in Processing THEN {s} ELSE {}
  /\ pc[s] \notin Processing => batch[s] = <<>> /\ Precedes(posted, queue, acks)
  /\ Drawn(posted, acks) /\ Drawn(queue, acks) /\ Drawn(batch[s], acks)
  /\ Ordered(posted, acks) /\ Ordered(queue, acks) /\ Ordered(batch[s], acks)
  /\ Precedes(posted, batch[s], acks)

\* A step that stores and queues nothing and neither enters nor leaves
\* processInterventions.
LEMMA StillKeepsOrder ==
  ASSUME NEW s, OrderInv(s), UNCHANGED <<posted, queue, batch, live, acks>>,
         pc'[s] \in Processing <=> pc[s] \in Processing
  PROVE  OrderInv(s)'
BY DEF OrderInv

\* A step that leaves processInterventions, or stays outside, with an empty queue.
LEMMA ClearKeepsOrder ==
  ASSUME NEW s, OrderInv(s), UNCHANGED <<posted, acks>>,
         queue' = <<>>, live' = {}, batch'[s] = <<>>, pc'[s] \notin Processing
  PROVE  OrderInv(s)'
<1>1. /\ Drawn(<<>>, acks) /\ Ordered(<<>>, acks) /\ Precedes(posted, <<>>, acks)
  BY EmptyInOrder
<1> QED BY <1>1 DEF OrderInv

\* The loop begins to process what the queue holds, or passes on when it is empty.
LEMMA BeginKeepsOrder ==
  ASSUME NEW s, Starts = {s}, TypeOK, OrderInv(s), pc[s] \notin Processing,
         BeginInterventions(s), UNCHANGED <<posted, queue, acks>>
  PROVE  OrderInv(s)'
<1>1. pc \in [Starts -> Pcs] /\ batch \in [Starts -> Seq(Interventions)] /\ s \in Starts
  BY DEF TypeOK
<1>2. CASE queue = <<>>
  <2>1. pc'[s] = "count" /\ UNCHANGED <<batch, live>>
    BY <1>1, <1>2 DEF BeginInterventions, Goto
  <2> QED BY <2>1, StillKeepsOrder DEF Processing
<1>3. CASE queue # <<>>
  <2>1. pc'[s] = "intervene" /\ batch'[s] = queue /\ live' = live \cup {s}
    BY <1>1, <1>3 DEF BeginInterventions, Goto
  <2>2. live' = {s}
    BY <2>1 DEF OrderInv
  <2> QED BY <2>1, <2>2 DEF OrderInv, Processing
<1> QED BY <1>2, <1>3

\* An intervention that is not stored leaves the loop's list.
LEMMA DropKeepsOrder ==
  ASSUME NEW s, Starts = {s}, TypeOK, OrderInv(s), pc[s] \in Processing, batch[s] # <<>>,
         batch' = [batch EXCEPT ![s] = Tail(@)], pc'[s] \in Processing,
         UNCHANGED <<posted, queue, live, acks>>
  PROVE  OrderInv(s)'
<1>1. batch[s] \in Seq(Interventions) /\ batch'[s] = Tail(batch[s])
  BY DEF TypeOK
<1>2. /\ Drawn(Tail(batch[s]), acks) /\ Ordered(Tail(batch[s]), acks)
      /\ Precedes(posted, Tail(batch[s]), acks)
  BY <1>1, TailInOrder DEF OrderInv
<1> QED BY <1>1, <1>2 DEF OrderInv

\* Every step of a session with one start request keeps its interventions in order.
LEMMA OrderNext ==
  ASSUME NEW s, Starts = {s}, TypeInv, WaitersWait, OrderInv(s), [Next]_vars
  PROVE  OrderInv(s)'
<1> USE DEF Goto, dbVars, mapVars, loopVars, reqVars
<1> DEFINE Still == /\ UNCHANGED <<posted, queue, batch, live, acks>>
                    /\ pc'[s] \in Processing <=> pc[s] \in Processing
<1>a. /\ TypeOK /\ s \in Starts /\ pc \in [Starts -> Pcs] /\ resolver \subseteq Starts
      /\ batch \in [Starts -> Seq(Interventions)] /\ batch[s] \in Seq(Interventions)
      /\ posted \in Seq(Interventions) /\ queue \in Seq(Interventions)
      /\ acks \in Seq(Interventions)
  BY DEF TypeInv, TypeOK
<1>b. Still => OrderInv(s)'
  BY StillKeepsOrder
<1>c. pc[s] \notin Processing => batch[s] = <<>>
  BY DEF OrderInv
<1>1. ASSUME StartNext(s) PROVE OrderInv(s)'
  <2>1. CASE StartLaunch(s)
    <3>1. /\ UNCHANGED <<posted, acks, batch>> /\ queue' = <<>> /\ live' = {}
          /\ pc'[s] \notin Processing /\ pc[s] \notin Processing
      BY <1>a, <2>1 DEF StartLaunch, Processing
    <3> QED BY <1>c, <3>1, ClearKeepsOrder
  <2>2. CASE StartRead(s) \/ StartUpdate(s) \/ StartWrite(s)
    <3>1. Still
      BY <1>a, <2>2 DEF StartRead, StartUpdate, StartWrite, Processing
    <3> QED BY <1>b, <3>1
  <2> QED BY <1>1, <2>1, <2>2 DEF StartNext
<1>2. ASSUME LoopNext(s) PROVE OrderInv(s)'
  <2>1. CASE LoopTop(s)
    <3>1. pc[s] \notin Processing /\ UNCHANGED <<posted, queue, acks>>
      BY <2>1 DEF LoopTop, Processing
    <3>2. CASE flag \in {"paused", "stopped"}
      <4>1. Still
        BY <1>a, <2>1, <3>2 DEF LoopTop, Processing
      <4> QED BY <1>b, <4>1
    <3>3. CASE flag \in {"none", "running"}
      <4>1. BeginInterventions(s)
        BY <2>1, <3>3 DEF LoopTop
      <4> QED BY <1>a, <3>1, <4>1, BeginKeepsOrder
    <3> QED BY <2>1, <3>2, <3>3 DEF LoopTop
  <2>2. CASE LoopWoken(s)
    <3>1. pc[s] \notin Processing /\ UNCHANGED <<posted, queue, acks>> /\ BeginInterventions(s)
      BY <2>2 DEF LoopWoken, Processing
    <3> QED BY <1>a, <3>1, BeginKeepsOrder
  <2>3. CASE InterveneRead(s)
    <3>1. CASE status = "ACTIVE"
      <4>1. Still
        BY <1>a, <2>3, <3>1 DEF InterveneRead, Processing
      <4> QED BY <1>b, <4>1
    <3>2. CASE status # "ACTIVE"
      BY <1>a, <2>3, <3>2, DropKeepsOrder DEF InterveneRead, Processing
    <3> QED BY <3>1, <3>2
  <2>4. CASE InterveneCommit(s)
    <3>1. batch[s] # <<>>
      BY <1>a, <2>4 DEF InterveneCommit, TypeInv, CommitHasHead
    <3>2. CASE HasRoom
      <4>1. /\ posted' = Append(posted, Head(batch[s])) /\ batch'[s] = Tail(batch[s])
            /\ pc[s] \in Processing /\ pc'[s] \in Processing
            /\ UNCHANGED <<queue, live, acks>>
        BY <1>a, <2>4, <3>2 DEF InterveneCommit, Processing
      <4>2. /\ Drawn(posted', acks) /\ Ordered(posted', acks)
            /\ Precedes(posted', Tail(batch[s]), acks)
        BY <1>a, <3>1, <4>1, MoveInOrder DEF OrderInv
      <4>3. Drawn(Tail(batch[s]), acks) /\ Ordered(Tail(batch[s]), acks)
        BY <1>a, <3>1, TailInOrder DEF OrderInv
      <4> QED BY <4>1, <4>2, <4>3 DEF OrderInv
    <3>3. CASE ~HasRoom
      BY <1>a, <2>4, <3>1, <3>3, DropKeepsOrder DEF InterveneCommit, Processing
    <3> QED BY <3>2, <3>3
  <2>5. CASE InterveneDone(s)
    <3>1. /\ UNCHANGED <<posted, acks>> /\ queue' = <<>> /\ live' = {} /\ batch'[s] = <<>>
          /\ pc'[s] \notin Processing
      BY <1>a, <2>5 DEF InterveneDone, Processing
    <3> QED BY <3>1, ClearKeepsOrder
  <2>6. CASE LoopCount(s) \/ LoopTurn(s) \/ LoopCreate(s) \/ LoopCommit(s)
    <3>1. Still
      BY <1>a, <2>6 DEF LoopCount, LoopTurn, LoopCreate, LoopCommit, NextExpert, Processing
    <3> QED BY <1>b, <3>1
  <2>7. CASE LoopEvaluate(s)
    <3>1. Still
      BY <1>a, <2>7 DEF LoopEvaluate, Processing
    <3> QED BY <1>b, <3>1
  <2>8. CASE PollCheck(s) \/ PollCreate(s) \/ PollRead(s) \/ PollCommit(s)
    <3>1. Still
      BY <1>a, <2>8 DEF PollCheck, PollCreate, PollRead, PollCommit, Processing
    <3> QED BY <1>b, <3>1
  <2>9. CASE LoopFinish(s) \/ LoopConclude(s) \/ LoopConcludeWrite(s)
    <3>1. Still
      BY <1>a, <2>9 DEF LoopFinish, LoopConclude, LoopConcludeWrite, AfterRejection,
                        Processing
    <3> QED BY <1>b, <3>1
  <2>10. CASE LoopFatal(s) \/ LoopFatalWrite(s)
    <3>1. Still
      BY <1>a, <2>10 DEF LoopFatal, LoopFatalWrite, Processing
    <3> QED BY <1>b, <3>1
  <2>11. CASE LoopEnded(s) \/ LoopCleanup(s)
    <3>1. /\ UNCHANGED <<posted, acks, batch>> /\ queue' = <<>> /\ live' = {}
          /\ pc'[s] \notin Processing /\ pc[s] \notin Processing
      BY <1>a, <2>11 DEF LoopEnded, LoopCleanup, ClearMaps, Processing
    <3> QED BY <1>c, <3>1, ClearKeepsOrder
  <2> QED
    BY <1>2, <2>1, <2>2, <2>3, <2>4, <2>5, <2>6, <2>7, <2>8, <2>9, <2>10, <2>11
       DEF LoopNext
<1>3. ASSUME NEW c \in Controls, ControlNext(c) PROVE OrderInv(s)'
  <2>1. Still
    BY <1>a, <1>3 DEF ControlNext, Pause, Resume, Resolve, ControlRead, ControlWrite,
                      WaitersWait, Processing
  <2> QED BY <1>b, <2>1
<1>4. ASSUME NEW i \in Interventions, InterventionNext(i) PROVE OrderInv(s)'
  <2>1. CASE QueueCheck(i)
    <3>1. Still
      BY <2>1 DEF QueueCheck
    <3> QED BY <1>b, <3>1
  <2>2. CASE QueuePush(i)
    <3>1. /\ acks' = Append(acks, i) /\ queue' = Append(queue, i)
          /\ batch'[s] = IF s \in live THEN Append(batch[s], i) ELSE batch[s]
          /\ UNCHANGED <<posted, live, pc>>
      BY <1>a, <2>2 DEF QueuePush
    <3>2. s \in live <=> pc[s] \in Processing
      BY DEF OrderInv
    <3>3. /\ Drawn(posted, acks') /\ Ordered(posted, acks')
          /\ Precedes(posted, batch[s], acks')
          /\ Drawn(batch[s], acks') /\ Ordered(batch[s], acks')
      BY <1>a, <3>1, LaterAck DEF OrderInv
    <3>4. /\ Drawn(queue', acks') /\ Ordered(queue', acks')
          /\ Precedes(posted, queue, acks) => Precedes(posted, queue', acks')
      BY <1>a, <3>1, PushInOrder DEF OrderInv
    <3>5. LET q == Append(batch[s], i)
          IN  Drawn(q, acks') /\ Ordered(q, acks') /\ Precedes(posted, q, acks')
      BY <1>a, <3>1, PushInOrder DEF OrderInv
    <3> QED BY <3>1, <3>2, <3>3, <3>4, <3>5 DEF OrderInv
  <2> QED BY <1>4, <2>1, <2>2 DEF InterventionNext
<1>5. CASE Stop
  <2>1. Still
    BY <1>a, <1>5 DEF Stop, Resolve, WaitersWait, Processing
  <2> QED BY <1>b, <2>1
<1>6. CASE Remove
  <2>1. posted' = <<>> /\ UNCHANGED <<queue, batch, live, acks, pc>>
    BY <1>6 DEF Remove
  <2>2. /\ Drawn(<<>>, acks) /\ Ordered(<<>>, acks)
        /\ Precedes(<<>>, queue, acks) /\ Precedes(<<>>, batch[s], acks)
    BY EmptyInOrder
  <2> QED BY <2>1, <2>2 DEF OrderInv
<1>7. CASE Crash
  <2>1. /\ UNCHANGED <<posted, acks>> /\ queue' = <<>> /\ live' = {} /\ batch'[s] = <<>>
    BY <1>a, <1>7 DEF Crash, ClearMaps
  <2>2. pc'[s] \notin Processing
    BY <1>a, <1>7 DEF Crash, Over, Processing
  <2> QED BY <2>1, <2>2, ClearKeepsOrder
<1>8. CASE RequestDatabaseError
  <2>1. Still
    BY <1>a, <1>8 DEF RequestDatabaseError, Processing
  <2> QED BY <1>b, <2>1
<1>9. CASE LoopDatabaseError(s)
  <2>1. Still
    BY <1>a, <1>9 DEF LoopDatabaseError, AfterRejection, Processing
  <2> QED BY <1>b, <2>1
<1>10. CASE InterveneDatabaseError(s)
  <2>1. batch[s] # <<>>
    BY <1>a, <1>10 DEF InterveneDatabaseError, TypeInv, CommitHasHead
  <2> QED BY <1>a, <1>10, <2>1, DropKeepsOrder DEF InterveneDatabaseError, Processing
<1>11. CASE UNCHANGED vars
  <2>1. Still
    BY <1>11 DEF vars
  <2> QED BY <1>b, <2>1
<1> HIDE DEF Still
<1> QED
  BY <1>1, <1>2, <1>3, <1>4, <1>5, <1>6, <1>7, <1>8, <1>9, <1>10, <1>11
     DEF Next, FaultNext

\* A session with one start request stores its interventions in the order they were
\* acknowledged, although requests push to the array the loop iterates over and any
\* of them may fail to be stored (queueIntervention, processInterventions).
THEOREM InterventionsKeepTheirOrder ==
  ASSUME NEW s, Starts = {s}
  PROVE  Spec => []PostedInOrder
<1>1. Init => WaitersWait /\ OrderInv(s)
  <2> SUFFICES ASSUME Init PROVE WaitersWait /\ OrderInv(s)
    OBVIOUS
  <2>1. /\ posted = <<>> /\ queue = <<>> /\ batch[s] = <<>> /\ live = {}
        /\ pc[s] \notin Processing /\ WaitersWait
    BY DEF Init, Processing, WaitersWait
  <2>2. Drawn(<<>>, acks) /\ Ordered(<<>>, acks) /\ Precedes(<<>>, <<>>, acks)
    BY EmptyInOrder
  <2> QED BY <2>1, <2>2 DEF OrderInv
<1>2. TypeInv /\ WaitersWait /\ OrderInv(s) /\ [Next]_vars => WaitersWait' /\ OrderInv(s)'
  BY WaitersNext, OrderNext DEF TypeInv
<1>3. OrderInv(s) => PostedInOrder
  BY DEF OrderInv, Ordered, Before, PostedInOrder
<1> QED BY <1>1, <1>2, <1>3, TypeInit, TypeNext, PTL DEF Spec
\* An intervention is acknowledged once, for its request pushes it once.
AckedOnce ==
  /\ \A m, n \in 1 .. Len(acks) : acks[m] = acks[n] => m = n
  /\ \A i \in Interventions : iv[i] \in {"new", "checked"} => ~Acked(i, acks)

\* Every step keeps it so, for any number of loops.
LEMMA AckedOnceNext ==
  ASSUME TypeInv, AckedOnce, [Next]_vars
  PROVE  AckedOnce'
<1> USE DEF Goto, dbVars, mapVars, loopVars, reqVars
<1> DEFINE Fresh(i) == iv[i] \in {"new", "checked"}
           Older == UNCHANGED acks /\ \A i \in Interventions : Fresh(i)' => Fresh(i)
<1>a. /\ iv \in [Interventions -> SentStates] /\ batch \in [Starts -> Seq(Interventions)]
      /\ acks \in Seq(Interventions)
  BY DEF TypeInv, TypeOK
<1>b. Older => AckedOnce'
  BY DEF AckedOnce
<1>1. ASSUME NEW s \in Starts, StartNext(s) PROVE Older
  BY <1>1 DEF StartNext, StartRead, StartUpdate, StartWrite, StartLaunch
<1>2. ASSUME NEW l \in Starts, LoopNext(l) PROVE Older
  <2>1. CASE LoopTop(l) \/ LoopWoken(l) \/ InterveneDone(l)
    BY <2>1 DEF LoopTop, LoopWoken, InterveneDone
  <2>2. CASE InterveneRead(l)
    BY <1>a, <2>2 DEF InterveneRead
  <2>3. CASE InterveneCommit(l)
    BY <1>a, <2>3 DEF InterveneCommit
  <2>4. CASE LoopCount(l) \/ LoopTurn(l) \/ LoopCreate(l) \/ LoopCommit(l)
               \/ LoopEvaluate(l)
    BY <2>4 DEF LoopCount, LoopTurn, LoopCreate, LoopCommit, LoopEvaluate
  <2>5. CASE PollCheck(l) \/ PollCreate(l) \/ PollRead(l) \/ PollCommit(l)
    BY <2>5 DEF PollCheck, PollCreate, PollRead, PollCommit
  <2>6. CASE LoopFinish(l) \/ LoopConclude(l) \/ LoopConcludeWrite(l) \/ LoopEnded(l)
    BY <2>6 DEF LoopFinish, LoopConclude, LoopConcludeWrite, LoopEnded
  <2>7. CASE LoopFatal(l) \/ LoopFatalWrite(l) \/ LoopCleanup(l)
    BY <2>7 DEF LoopFatal, LoopFatalWrite, LoopCleanup
  <2> HIDE DEF Older
  <2> QED BY <1>2, <2>1, <2>2, <2>3, <2>4, <2>5, <2>6, <2>7 DEF LoopNext
<1>3. ASSUME NEW c \in Controls, ControlNext(c) PROVE Older
  BY <1>3 DEF ControlNext, Pause, Resume, ControlRead, ControlWrite
<1>4. ASSUME NEW i \in Interventions, QueueCheck(i) PROVE Older
  BY <1>a, <1>4 DEF QueueCheck
<1>5. ASSUME NEW i \in Interventions, QueuePush(i) PROVE AckedOnce'
  <2>1. /\ acks' = Append(acks, i) /\ iv' = [iv EXCEPT ![i] = "queued"]
        /\ iv[i] = "checked"
    BY <1>5 DEF QueuePush
  <2>2. ~Acked(i, acks)
    BY <2>1 DEF AckedOnce
  <2>3. /\ Len(acks) \in Nat /\ acks'[Len(acks) + 1] = i
        /\ \A m \in 1 .. Len(acks) : acks'[m] = acks[m]
        /\ \A m \in 1 .. Len(acks') : m \in 1 .. Len(acks) \/ m = Len(acks) + 1
    BY <1>a, <2>1, AppendElements
  <2>4. \A m \in 1 .. Len(acks) : acks[m] # i
    BY <2>2 DEF Acked
  <2>5. ASSUME NEW m \in 1 .. Len(acks'), NEW n \in 1 .. Len(acks'), acks'[m] = acks'[n]
        PROVE  m = n
    BY <2>3, <2>4, <2>5 DEF AckedOnce
  <2>6. ASSUME NEW j \in Interventions, Fresh(j)' PROVE ~Acked(j, acks')
    <3>1. j # i /\ ~Acked(j, acks)
      BY <1>a, <2>1, <2>6 DEF AckedOnce
    <3> QED BY <2>3, <3>1 DEF Acked
  <2> QED BY <2>5, <2>6 DEF AckedOnce
<1>6. ASSUME Stop \/ Remove \/ RequestDatabaseError PROVE Older
  BY <1>6 DEF Stop, Remove, RequestDatabaseError
<1>7. ASSUME Crash PROVE Older
  BY <1>a, <1>7 DEF Crash
<1>8. ASSUME NEW l \in Starts, LoopDatabaseError(l) \/ InterveneDatabaseError(l)
      PROVE  Older
  BY <1>a, <1>8 DEF LoopDatabaseError, InterveneDatabaseError
<1>9. ASSUME UNCHANGED vars PROVE Older
  BY <1>9 DEF vars
<1> HIDE DEF Older
<1> QED
  BY <1>b, <1>1, <1>2, <1>3, <1>4, <1>5, <1>6, <1>7, <1>8, <1>9
     DEF Next, InterventionNext, FaultNext

\* No intervention is stored twice.
StoredOnce == \A j, k \in 1 .. Len(posted) : posted[j] = posted[k] => j = k

\* A session with one start request stores no intervention twice, whatever it is
\* doing when the intervention is pushed and whatever fails (processInterventions
\* replaces the array it iterated over, queueIntervention pushes to that array).
THEOREM InterventionsAreStoredOnce ==
  ASSUME NEW s, Starts = {s}
  PROVE  Spec => []StoredOnce
<1>1. Init => AckedOnce
  BY DEF Init, AckedOnce, Acked
<1>2. TypeInv /\ AckedOnce /\ [Next]_vars => AckedOnce'
  BY AckedOnceNext
<1>3. TypeInv /\ AckedOnce /\ PostedInOrder => StoredOnce
  <2> SUFFICES ASSUME TypeInv, AckedOnce, PostedInOrder,
                      NEW j \in 1 .. Len(posted), NEW k \in 1 .. Len(posted),
                      posted[j] = posted[k]
               PROVE  j = k
    BY DEF StoredOnce
  <2>1. \A x \in 1 .. Len(acks), y \in 1 .. Len(acks) : x < y => acks[x] # acks[y]
    BY DEF AckedOnce
  <2>2. ~(j < k)
    BY <2>1 DEF PostedInOrder
  <2>3. ~(k < j)
    BY <2>1 DEF PostedInOrder
  <2> QED BY <2>2, <2>3
<1> QED BY <1>1, <1>2, <1>3, InterventionsKeepTheirOrder, TypeInit, TypeNext, PTL DEF Spec
------------------------------------------------------------------------------
(* One start request: the session implements DiscussionLifecycle. *)

\* The abstract state of a session with s the only start request.
LEMMA AbstractState ==
  ASSUME NEW s, Starts = {s}
  PROVE  /\ Phase = IF flag # "none" THEN flag
                    ELSE IF pc[s] \in Over THEN "over" ELSE "pending"
         /\ UnderWay <=> pc[s] \in PastFlagTest
         /\ Phase' = IF flag' # "none" THEN flag'
                     ELSE IF pc'[s] \in Over THEN "over" ELSE "pending"
         /\ UnderWay' <=> pc'[s] \in PastFlagTest
BY DEF Phase, UnderWay

\* A step that the abstract session does not see.
LEMMA StutterStep ==
  ASSUME NEW s, Starts = {s}, UNCHANGED <<flag, said>>,
         pc'[s] \in PastFlagTest <=> pc[s] \in PastFlagTest,
         pc'[s] \in Over <=> pc[s] \in Over
  PROVE  UNCHANGED Lifecycle!vars
<1>1. UNCHANGED Phase
  BY AbstractState
<1>2. UnderWay' = UnderWay
  BY AbstractState DEF UnderWay
<1> QED BY <1>1, <1>2 DEF Lifecycle!vars

\* A turn that comes to its end without a message.
LEMMA SkipStep ==
  ASSUME NEW s, Starts = {s}, UNCHANGED <<flag, said>>,
         pc[s] \in PastFlagTest, pc'[s] \in LoopPcs \ PastFlagTest
  PROVE  Lifecycle!Skip
<1>1. pc[s] \notin Over /\ pc'[s] \notin Over
  BY DEF Over, PastFlagTest, LoopPcs, TurnPcs, EndPcs
<1>2. UNCHANGED Phase
  BY <1>1, AbstractState
<1>3. UnderWay /\ ~UnderWay'
  BY AbstractState
<1> QED BY <1>2, <1>3 DEF Lifecycle!Skip
\* The loop comes to its end, or the process does: the flag goes with it.
LEMMA EndStep ==
  ASSUME NEW s, Starts = {s}, flag \in {"running", "paused", "stopped"},
         flag' = "none", pc'[s] \in Over, UNCHANGED said
  PROVE  Lifecycle!End
<1>1. pc'[s] \notin PastFlagTest
  BY DEF Over, PastFlagTest
<1>2. Phase \in {"running", "paused", "stopped"} /\ Phase' = "over"
  BY AbstractState
<1>3. UnderWay' = FALSE
  BY <1>1, AbstractState DEF UnderWay
<1> QED BY <1>2, <1>3 DEF Lifecycle!End

\* Every step of a session with one start request that is not deleted is one of the
\* abstract session, or none.
LEMMA LifecycleStep ==
  ASSUME NEW s, Starts = {s}, "remove" \notin Faults, TypeInv, ControlInv(s),
         [Next]_vars
  PROVE  [Lifecycle!Next]_(Lifecycle!vars)
<1> USE DEF Goto, dbVars, mapVars, loopVars, reqVars, PastFlagTest, Over
<1> DEFINE Step == [Lifecycle!Next]_(Lifecycle!vars)
           Unseen == /\ UNCHANGED <<flag, said>>
                     /\ pc'[s] \in PastFlagTest <=> pc[s] \in PastFlagTest
                     /\ pc'[s] \in Over <=> pc[s] \in Over
           Skips == /\ UNCHANGED <<flag, said>>
                    /\ pc[s] \in PastFlagTest
                    /\ pc'[s] \in LoopPcs \ PastFlagTest
           Ends == /\ flag \in {"running", "paused", "stopped"} /\ flag' = "none"
                   /\ pc'[s] \in Over /\ UNCHANGED said
<1>a. /\ s \in Starts /\ pc \in [Starts -> Pcs] /\ said \in Nat
      /\ flag \in {"none", "running", "paused", "stopped"}
  BY DEF TypeInv, TypeOK
<1>b. Unseen => Step
  BY StutterStep
<1>c. Skips => Step
  BY SkipStep DEF Lifecycle!Next
<1>d. Ends => Step
  BY EndStep DEF Lifecycle!Next
<1>e. flag # "none" <=> pc[s] \in LoopPcs
  BY DEF ControlInv
<1>f. resolver = IF pc[s] = "waiting" THEN {s} ELSE {}
  BY DEF ControlInv
<1> USE DEF LoopPcs, TurnPcs, EndPcs
<1>1. ASSUME StartNext(s) PROVE Step
  <2>1. CASE StartLaunch(s)
    <3>1. /\ flag = "none" /\ flag' = "running" /\ UNCHANGED said
          /\ pc[s] = "startLaunch" /\ pc'[s] = "count"
      BY <1>a, <1>e, <2>1 DEF StartLaunch
    <3>2. Phase = "pending" /\ Phase' = "running"
      BY <3>1, AbstractState
    <3>3. UnderWay' = TRUE
      BY <3>1, AbstractState DEF UnderWay
    <3> QED BY <3>1, <3>2, <3>3 DEF Lifecycle!Next, Lifecycle!Start
  <2>2. CASE StartRead(s) \/ StartUpdate(s) \/ StartWrite(s)
    <3>1. Unseen
      BY <1>a, <2>2 DEF StartRead, StartUpdate, StartWrite
    <3> QED BY <1>b, <3>1
  <2> QED BY <1>1, <2>1, <2>2 DEF StartNext
<1>2. ASSUME LoopNext(s) PROVE Step
  <2>1. CASE LoopTop(s)
    <3>1. CASE flag \in {"paused", "stopped"}
      <4>1. Unseen
        BY <1>a, <2>1, <3>1 DEF LoopTop
      <4> QED BY <1>b, <4>1
    <3>2. CASE flag \in {"none", "running"}
      <4>1. /\ flag = "running" /\ UNCHANGED <<flag, said>>
            /\ pc[s] = "top" /\ pc'[s] \in {"count", "intervene"}
        BY <1>a, <1>e, <2>1, <3>2 DEF LoopTop, BeginInterventions
      <4>2. Phase = "running" /\ UNCHANGED Phase /\ ~UnderWay
        BY <4>1, AbstractState
      <4>3. UnderWay' = TRUE
        BY <4>1, AbstractState DEF UnderWay
      <4> QED BY <4>1, <4>2, <4>3 DEF Lifecycle!Next, Lifecycle!BeginTurn
    <3> QED BY <1>a, <3>1, <3>2
  <2>2. CASE LoopWoken(s)
    <3>1. Unseen
      BY <1>a, <2>2 DEF LoopWoken, BeginInterventions
    <3> QED BY <1>b, <3>1
  <2>3. CASE InterveneRead(s) \/ InterveneCommit(s) \/ InterveneDone(s)
    <3>1. Unseen
      BY <1>a, <2>3 DEF InterveneRead, InterveneCommit, InterveneDone
    <3> QED BY <1>b, <3>1
  <2>4. CASE LoopCount(s)
    <3>1. Unseen \/ Skips
      BY <1>a, <2>4 DEF LoopCount
    <3> QED BY <1>b, <1>c, <3>1
  <2>5. CASE LoopTurn(s)
    <3>1. Unseen \/ Skips
      BY <1>a, <2>5 DEF LoopTurn, NextExpert
    <3> QED BY <1>b, <1>c, <3>1
  <2>6. CASE LoopCreate(s)
    <3>1. Unseen \/ Skips
      BY <1>a, <2>6 DEF LoopCreate
    <3> QED BY <1>b, <1>c, <3>1
  <2>7. CASE LoopCommit(s)
    <3>1. CASE HasRoom
      <4>1. /\ said' = said + 1 /\ UNCHANGED flag
            /\ pc[s] = "commit" /\ pc'[s] \in {"evaluate", "top"}
        BY <1>a, <2>7, <3>1 DEF LoopCommit, NextExpert
      <4>2. said < MaxMessages
        BY <3>1, CountFacts, LimitAssumption DEF HasRoom, Count, TypeInv
      <4>3. UNCHANGED Phase /\ UnderWay
        BY <4>1, AbstractState
      <4>4. UnderWay' = FALSE
        BY <4>1, AbstractState DEF UnderWay
      <4> QED BY <4>1, <4>2, <4>3, <4>4 DEF Lifecycle!Next, Lifecycle!Speak
    <3>2. CASE ~HasRoom
      <4>1. Skips
        BY <1>a, <2>7, <3>2 DEF LoopCommit
      <4> QED BY <1>c, <4>1
    <3> QED BY <3>1, <3>2
  <2>8. CASE LoopEvaluate(s)
    <3>1. Unseen
      BY <1>a, <2>8 DEF LoopEvaluate
    <3> QED BY <1>b, <3>1
  <2>9. CASE PollCheck(s) \/ PollCreate(s) \/ PollRead(s) \/ PollCommit(s)
    <3>1. Unseen
      BY <1>a, <2>9 DEF PollCheck, PollCreate, PollRead, PollCommit
    <3> QED BY <1>b, <3>1
  <2>10. CASE LoopFinish(s) \/ LoopConclude(s) \/ LoopConcludeWrite(s)
    <3>1. Unseen
      BY <1>a, <2>10 DEF LoopFinish, LoopConclude, LoopConcludeWrite, AfterRejection
    <3> QED BY <1>b, <3>1
  <2>11. CASE LoopFatal(s) \/ LoopFatalWrite(s)
    <3>1. Unseen
      BY <1>a, <2>11 DEF LoopFatal, LoopFatalWrite
    <3> QED BY <1>b, <3>1
  <2>12. CASE LoopEnded(s) \/ LoopCleanup(s)
    <3>1. Ends
      BY <1>a, <1>e, <2>12 DEF LoopEnded, LoopCleanup, ClearMaps
    <3> QED BY <1>d, <3>1
  <2> HIDE DEF Step
  <2> QED
    BY <1>2, <2>1, <2>2, <2>3, <2>4, <2>5, <2>6, <2>7, <2>8, <2>9, <2>10, <2>11,
       <2>12 DEF LoopNext
<1>3. ASSUME NEW c \in Controls, ControlNext(c) PROVE Step
  <2>1. CASE Pause(c)
    <3>1. flag = "running" /\ flag' = "paused" /\ UNCHANGED <<said, pc>>
      BY <2>1 DEF Pause
    <3>2. Phase = "running" /\ Phase' = "paused"
      BY <3>1, AbstractState
    <3>3. UnderWay' = UnderWay
      BY <3>1 DEF UnderWay
    <3> QED BY <3>1, <3>2, <3>3 DEF Lifecycle!Next, Lifecycle!Pause
  <2>2. CASE Resume(c)
    <3>1. /\ flag = "paused" /\ flag' = "running" /\ UNCHANGED said
          /\ pc'[s] = IF pc[s] = "waiting" THEN "woken" ELSE pc[s]
      BY <1>a, <1>f, <2>2 DEF Resume, Resolve
    <3>2. Phase = "paused" /\ Phase' = "running"
      BY <3>1, AbstractState
    <3>3. UnderWay' \in {UnderWay, TRUE}
      <4>1. CASE pc[s] = "waiting"
        <5>1. UnderWay' = TRUE
          BY <3>1, <4>1, AbstractState DEF UnderWay
        <5> QED BY <5>1
      <4>2. CASE pc[s] # "waiting"
        <5>1. UnderWay' = UnderWay
          BY <3>1, <4>2, AbstractState DEF UnderWay
        <5> QED BY <5>1
      <4> QED BY <4>1, <4>2
    <3> QED BY <3>1, <3>2, <3>3 DEF Lifecycle!Next, Lifecycle!Resume
  <2>3. CASE ControlRead(c) \/ ControlWrite(c)
    <3>1. Unseen
      BY <2>3 DEF ControlRead, ControlWrite
    <3> QED BY <1>b, <3>1
  <2> HIDE DEF Step
  <2> QED BY <1>3, <2>1, <2>2, <2>3 DEF ControlNext
<1>4. ASSUME NEW i \in Interventions, InterventionNext(i) PROVE Step
  <2>1. Unseen
    BY <1>4 DEF InterventionNext, QueueCheck, QueuePush
  <2> QED BY <1>b, <2>1
<1>5. ASSUME Stop PROVE Step
  <2>1. /\ flag \in {"running", "paused"} /\ flag' = "stopped" /\ UNCHANGED said
        /\ pc'[s] = IF pc[s] = "waiting" THEN "finish" ELSE pc[s]
    BY <1>a, <1>f, <1>5 DEF Stop, Resolve
  <2>2. Phase \in {"running", "paused"} /\ Phase' = "stopped"
    BY <2>1, AbstractState
  <2>3. UnderWay' = UnderWay
    BY <2>1, AbstractState DEF UnderWay
  <2> QED BY <2>1, <2>2, <2>3 DEF Lifecycle!Next, Lifecycle!Stop
<1>6. ASSUME Crash PROVE Step
  <2>1. CASE flag # "none"
    <3>1. Ends
      BY <1>a, <1>e, <1>6, <2>1 DEF Crash, ClearMaps, Running
    <3> QED BY <1>d, <3>1
  <2>2. CASE flag = "none"
    <3>1. Unseen
      BY <1>a, <1>e, <1>6, <2>2 DEF Crash, ClearMaps, Running
    <3> QED BY <1>b, <3>1
  <2> QED BY <2>1, <2>2
<1>7. ASSUME RequestDatabaseError PROVE Step
  <2>1. Unseen
    BY <1>a, <1>7 DEF RequestDatabaseError
  <2> QED BY <1>b, <2>1
<1>8. ASSUME LoopDatabaseError(s) PROVE Step
  <2>1. Unseen \/ Skips
    BY <1>a, <1>8 DEF LoopDatabaseError, AfterRejection
  <2> QED BY <1>b, <1>c, <2>1
<1>9. ASSUME InterveneDatabaseError(s) PROVE Step
  <2>1. Unseen
    BY <1>a, <1>9 DEF InterveneDatabaseError
  <2> QED BY <1>b, <2>1
<1>10. ASSUME UNCHANGED vars PROVE Step
  <2>1. Unseen
    BY <1>10 DEF vars
  <2> QED BY <1>b, <2>1
<1>11. ~Remove
  BY DEF Remove
<1> HIDE DEF Step
<1>12. Step
  BY <1>1, <1>2, <1>3, <1>4, <1>5, <1>6, <1>7, <1>8, <1>9, <1>10, <1>11
     DEF Next, FaultNext
<1> QED BY <1>12 DEF Step

\* A session with one start request that is not deleted behaves as the abstract one,
\* whatever requests, interventions, failures and crashes there are: at most the
\* turn that was under way when it was paused or stopped still adds a message, and
\* an ended session is silent.  Deleting it takes its messages away, which the
\* abstract session has no step for.
THEOREM LoopImplementsLifecycle ==
  ASSUME NEW s, Starts = {s}, "remove" \notin Faults
  PROVE  Spec => Lifecycle!Spec
<1>1. Init => Lifecycle!Init
  <2> SUFFICES ASSUME Init PROVE Lifecycle!Init
    OBVIOUS
  <2>1. flag = "none" /\ pc[s] = "idle" /\ said = 0
    BY DEF Init
  <2>2. Phase = "pending"
    BY <2>1, AbstractState DEF Over
  <2>3. UnderWay = FALSE
    BY <2>1, AbstractState DEF PastFlagTest, UnderWay
  <2> QED BY <2>1, <2>2, <2>3 DEF Lifecycle!Init
<1>2. TypeInv /\ ControlInv(s) /\ [Next]_vars => [Lifecycle!Next]_(Lifecycle!vars)
  BY LifecycleStep
<1>3. Spec => []TypeInv
  BY TypeInit, TypeNext, PTL DEF Spec
<1> QED BY <1>1, <1>2, <1>3, ControlAlways, PTL DEF Spec, Lifecycle!Spec
==============================================================================

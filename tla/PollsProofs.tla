------------------------------ MODULE PollsProofs ------------------------------
(***************************************************************************)
(* Theorems about Polls, for any number of experts, messages, rounds and   *)
(* users' polls, and every failure, deletion and crash.                    *)
(***************************************************************************)
EXTENDS Polls, TLAPS

Message == [author : 0..Experts, round : Nat]
Poll    == [by : {"system", "user"}, round : Nat]
Judged  == [round : Nat, of : SUBSET Nat]

\* What Append does to a sequence.
LEMMA Appended ==
  ASSUME NEW S, NEW s \in Seq(S), NEW x \in S
  PROVE  /\ Append(s, x) \in Seq(S) /\ Len(Append(s, x)) = Len(s) + 1 /\ Len(s) \in Nat
         /\ \A i \in 1..Len(s) : Append(s, x)[i] = s[i]
         /\ Append(s, x)[Len(s) + 1] = x
OBVIOUS

\* What each step does, told for the proofs below: the steps of the loop that only move
\* it, and those of the summary.
Moves == Skip \/ SkipEmpty \/ PollCheck \/ LoopBreak \/ LoopEnded \/ LoopFatal
Summing == SummaryRead \/ SummaryStore \/ SummaryFails

\* Every step is one of these.
LEMMA Steps ==
  ASSUME [Next]_vars
  PROVE  \/ Reply \/ Moves \/ Evaluate \/ PollCreate \/ PollMessage
         \/ (\E x \in extracting : StoreVote(x)) \/ (\E x \in extracting : LoseVote(x))
         \/ Summing \/ CreateUserPoll \/ RemoveSession
         \/ (\E e \in 1..Experts : RemoveExpert(e)) \/ Crash \/ UNCHANGED vars
BY DEF Next, Loop, Moves, Summing

------------------------------------------------------------------------------
(* Types. *)

\* Initially every variable has its type.
LEMMA TypeInit == Init => TypeOK
BY PollsAssumption DEF Init, TypeOK

\* NextExpert keeps the loop's types, whatever else its step does.
LEMMA NextExpertType ==
  ASSUME TypeOK, pc = "turns", NextExpert
  PROVE  /\ pc' \in {"turns", "evaluate"} /\ turn' \in 0..(Experts - 1)
         /\ round' \in Nat \ {0} /\ activePoll' \in Nat
BY PollsAssumption DEF TypeOK, NextExpert

\* Every step keeps every variable in its type.
LEMMA TypeNext == TypeOK /\ [Next]_vars => TypeOK'
<1> SUFFICES ASSUME TypeOK, [Next]_vars PROVE TypeOK'
  OBVIOUS
<1> USE PollsAssumption DEF rowVars, loopVars, summaryVars, Outside, SummaryStep, Ids
<1>0. messages \in Seq(Message) /\ polls \in Seq(Poll)
  BY DEF TypeOK, Message, Poll
<1>n. Len(messages) \in Nat /\ Len(polls) \in Nat
  BY <1>0
<1>1. CASE Reply
  <2>0. pc' \in {"turns", "evaluate"} /\ turn' \in 0..(Experts - 1)
        /\ round' \in Nat \ {0} /\ activePoll' \in Nat
    BY <1>1, NextExpertType DEF Reply, Turn
  <2>1. [author |-> turn + 1, round |-> round] \in Message /\ turn + 1 \in 1..Experts
    BY <1>1 DEF Reply, TypeOK, Message
  <2>2. messages' \in Seq(Message) /\ Len(messages) + 1 \in Nat
    BY <1>0, <1>1, <2>1, Appended DEF Reply
  <2>3. extracting' \subseteq Vote
    BY <1>1, <2>1, <2>2 DEF Reply, TypeOK, Vote
  <2> QED BY <1>1, <2>0, <2>2, <2>3 DEF Reply, TypeOK, Message
<1>2. CASE Moves
  <2>1. CASE Skip
    BY <2>1, NextExpertType DEF Skip, Turn, TypeOK
  <2>2. CASE SkipEmpty
    <3>1. turn' \in 0..(Experts - 1)
      BY <2>2 DEF SkipEmpty, TypeOK
    <3> QED BY <2>2, <3>1 DEF SkipEmpty, TypeOK
  <2>3. CASE PollCheck \/ LoopBreak \/ LoopEnded \/ LoopFatal
    BY <2>3 DEF PollCheck, LoopBreak, LoopEnded, LoopFatal, TypeOK
  <2> QED BY <1>2, <2>1, <2>2, <2>3 DEF Moves
<1>3. CASE Evaluate
  <2>1. RepliesOf(round - 1) \in SUBSET Nat
    BY <1>n DEF RepliesOf
  <2>2. round - 1 \in Nat
    BY DEF TypeOK
  <2>3. evaluations' \in Seq(Judged) /\ evaluated' \in Nat
    <3>1. [round |-> round - 1, of |-> RepliesOf(round - 1)] \in Judged
      BY <2>1, <2>2 DEF Judged
    <3>2. evaluations \in Seq(Judged)
      BY DEF TypeOK, Judged
    <3> QED BY <1>3, <2>2, <3>1, <3>2, Appended DEF Evaluate, EvaluateConsensus
  <2> QED BY <1>3, <2>3 DEF Evaluate, EvaluateConsensus, TypeOK, Judged
<1>4. CASE PollCreate
  <2>1. [by |-> "system", round |-> round] \in Poll
    BY DEF TypeOK, Poll
  <2>2. polls' \in Seq(Poll) /\ activePoll' \in Nat
    BY <1>0, <1>4, <2>1, Appended DEF PollCreate
  <2> QED BY <1>4, <2>2 DEF PollCreate, TypeOK, Poll
<1>5. CASE PollMessage
  <2>1. [author |-> 0, round |-> round] \in Message
    BY DEF TypeOK, Message
  <2>2. messages' \in Seq(Message)
    BY <1>0, <1>5, <2>1, Appended DEF PollMessage
  <2> QED BY <1>5, <2>2 DEF PollMessage, TypeOK, Message
<1>6. ASSUME NEW x \in extracting, StoreVote(x) \/ LoseVote(x) PROVE TypeOK'
  BY <1>6 DEF StoreVote, LoseVote, TypeOK, Vote
<1>7. CASE Summing
  <2>1. Ids \subseteq Nat
    BY <1>n
  <2> QED BY <1>7, <2>1 DEF Summing, SummaryRead, SummaryStore, SummaryFails, TypeOK
<1>8. CASE CreateUserPoll
  <2>1. [by |-> "user", round |-> round] \in Poll
    BY DEF TypeOK, Poll
  <2>2. polls' \in Seq(Poll)
    BY <1>0, <1>8, <2>1, Appended DEF CreateUserPoll
  <2> QED BY <1>8, <2>2 DEF CreateUserPoll, TypeOK, Poll
<1>9. CASE RemoveSession
  <2>1. <<>> \in Seq(Message) /\ <<>> \in Seq(Poll) /\ <<>> \in Seq(Judged)
    OBVIOUS
  <2> QED BY <1>9, <2>1 DEF RemoveSession, TypeOK, Message, Poll, Judged
<1>10. ASSUME NEW e \in 1..Experts, RemoveExpert(e) PROVE TypeOK'
  BY <1>10 DEF RemoveExpert, TypeOK
<1>11. CASE Crash
  BY <1>11 DEF Crash, TypeOK, Vote
<1>12. CASE UNCHANGED vars
  BY <1>12 DEF vars, TypeOK
<1> QED BY Steps, <1>1, <1>2, <1>3, <1>4, <1>5, <1>6, <1>7, <1>8, <1>9, <1>10, <1>11, <1>12

\* Every reachable state has its types.
THEOREM TypeCorrect == Spec => []TypeOK
BY TypeInit, TypeNext, PTL DEF Spec

------------------------------------------------------------------------------
(* Rows only grow, until the session is removed with all of them. *)

Between == {"evaluate", "pollCheck", "pollCreate"}

SystemPoll(p) == p \in 1..Len(polls) /\ polls[p].by = "system"

\* A removed session has left nothing.
NothingLeft ==
  ~kept => messages = <<>> /\ evaluations = <<>> /\ polls = <<>> /\ votes = {} /\ outcome = {}

\* No message is of a round to come, nor of one that has yet to begin.
RoundsPass ==
  /\ round # 0
  /\ \A m \in Ids : messages[m].round <= round
  /\ pc \in Between => \A m \in Ids : messages[m].round < round

\* The active poll is the only one that the system made in this round.
PollIsActive ==
  /\ pc \in Between => activePoll = 0
  /\ kept /\ activePoll # 0 => SystemPoll(activePoll) /\ polls[activePoll].round = round
  /\ \A p \in 1..Len(polls) : polls[p].by = "system" =>
       polls[p].round <= round /\ (polls[p].round = round => p = activePoll)

\* A vote, or one being read, is its expert's reply to a poll the system made, of the
\* round of the poll.
Honest(x) ==
  /\ SystemPoll(x.poll)
  /\ x.message \in Ids
  /\ messages[x.message] = [author |-> x.expert, round |-> polls[x.poll].round]

VotesAreHonest ==
  /\ \A x \in extracting : x.poll # 0 /\ (kept => Honest(x))
  /\ \A v \in votes : Honest(v)

\* The order of the rounds, of the evaluations and of the summary.
OrderInv ==
  /\ \A i \in 1..Len(evaluations) :
       evaluations[i].round < round /\ (pc = "evaluate" => evaluations[i].round + 1 < round)
  /\ summarizing # "none" => pc = "over"
  /\ summarizing = "read" /\ kept => transcript = Ids

Inv == /\ TypeOK /\ NothingLeft /\ RoundsPass /\ PollIsActive
       /\ VotesAreHonest /\ VotesOfRound /\ EachReplyCounts
       /\ OrderInv /\ EvaluationIsOfRound /\ SummaryIsComplete

\* What is true of the messages and polls stays true of them, and the new ones come
\* last; or the session is removed.
RowsGrow ==
  /\ kept' = kept
  /\ Len(messages) <= Len(messages') /\ \A m \in Ids : messages'[m] = messages[m]
  /\ Len(polls) <= Len(polls') /\ \A p \in 1..Len(polls) : polls'[p] = polls[p]

\* Initially nothing has happened.
LEMMA InvInit == Init => Inv
<1> SUFFICES ASSUME Init PROVE Inv
  OBVIOUS
<1>1. TypeOK
  BY TypeInit
<1>2. Ids = {} /\ 1..Len(polls) = {}
  BY DEF Init, Ids
<1> QED
  BY <1>1, <1>2 DEF Init, Inv, NothingLeft, RoundsPass, PollIsActive, VotesAreHonest,
     VotesOfRound, EachReplyCounts, OrderInv, EvaluationIsOfRound, SummaryIsComplete, Between

\* What the types say of the sequences.
LEMMA Lengths ==
  ASSUME TypeOK
  PROVE  /\ messages \in Seq(Message) /\ polls \in Seq(Poll)
         /\ Len(messages) \in Nat /\ Len(polls) \in Nat
         /\ \A m \in Ids : messages[m] \in Message /\ messages[m].round \in Nat /\ messages[m].author \in Nat
         /\ \A p \in 1..Len(polls) : polls[p] \in Poll /\ polls[p].round \in Nat
<1>1. messages \in Seq(Message) /\ polls \in Seq(Poll)
  BY DEF TypeOK, Message, Poll
<1>2. \A m \in Ids : messages[m] \in Message
  BY <1>1 DEF Ids
<1>3. \A p \in 1..Len(polls) : polls[p] \in Poll
  BY <1>1
<1> QED BY <1>1, <1>2, <1>3, PollsAssumption DEF Message, Poll

\* Every step but the removal of the session lets the rows grow.
LEMMA Growth ==
  ASSUME TypeOK, [Next]_vars
  PROVE  RowsGrow \/ RemoveSession
<1> USE Lengths DEF RowsGrow, rowVars, Ids
<1>1. CASE Reply
  <2>1. [author |-> turn + 1, round |-> round] \in Message
    BY <1>1 DEF Reply, TypeOK, Message
  <2> QED BY <1>1, <2>1, Appended DEF Reply
<1>2. CASE Moves
  BY <1>2 DEF Moves, Skip, SkipEmpty, PollCheck, LoopBreak, LoopEnded, LoopFatal
<1>3. CASE Evaluate
  BY <1>3 DEF Evaluate, EvaluateConsensus
<1>4. CASE PollCreate
  <2>1. [by |-> "system", round |-> round] \in Poll
    BY DEF TypeOK, Poll
  <2> QED BY <1>4, <2>1, Appended DEF PollCreate
<1>5. CASE PollMessage
  <2>1. [author |-> 0, round |-> round] \in Message
    BY PollsAssumption DEF TypeOK, Message
  <2> QED BY <1>5, <2>1, Appended DEF PollMessage
<1>6. ASSUME NEW x \in extracting, StoreVote(x) \/ LoseVote(x) PROVE RowsGrow
  BY <1>6 DEF StoreVote, LoseVote
<1>7. CASE Summing
  BY <1>7 DEF Summing, SummaryRead, SummaryStore, SummaryFails, SummaryStep
<1>8. CASE CreateUserPoll
  <2>1. [by |-> "user", round |-> round] \in Poll
    BY DEF TypeOK, Poll
  <2> QED BY <1>8, <2>1, Appended DEF CreateUserPoll
<1>10. ASSUME NEW e \in 1..Experts, RemoveExpert(e) PROVE RowsGrow
  BY <1>10 DEF RemoveExpert
<1>11. CASE Crash
  BY <1>11 DEF Crash
<1>12. CASE UNCHANGED vars
  BY <1>12 DEF vars
<1> QED BY Steps, <1>1, <1>2, <1>3, <1>4, <1>5, <1>6, <1>7, <1>8, <1>10, <1>11, <1>12

\* A vote's evidence does not go away.
LEMMA HonestStays ==
  ASSUME TypeOK, TypeOK', RowsGrow, NEW x, Honest(x)
  PROVE  Honest(x)'
<1>1. Len(messages') \in Nat /\ Len(polls') \in Nat
  BY DEF TypeOK
<1>2. SystemPoll(x.poll)' /\ polls'[x.poll] = polls[x.poll]
  BY <1>1, Lengths DEF Honest, SystemPoll, RowsGrow
<1>3. x.message \in Ids' /\ messages'[x.message] = messages[x.message]
  BY <1>1, Lengths DEF Honest, RowsGrow, Ids
<1> QED BY <1>2, <1>3 DEF Honest

------------------------------------------------------------------------------
(* The invariant, part by part. *)

\* A removed session stays empty: whatever adds a row wants the session.
LEMMA NothingLeftNext == Inv /\ [Next]_vars => NothingLeft'
<1> SUFFICES ASSUME Inv, [Next]_vars PROVE NothingLeft'
  OBVIOUS
<1> USE DEF Inv, NothingLeft, rowVars
<1>1. CASE Reply \/ Evaluate \/ PollCreate \/ PollMessage \/ CreateUserPoll
  BY <1>1 DEF Reply, Evaluate, EvaluateConsensus, PollCreate, PollMessage, CreateUserPoll
<1>2. CASE Moves \/ Crash
  BY <1>2 DEF Moves, Skip, SkipEmpty, PollCheck, LoopBreak, LoopEnded, LoopFatal, Crash
<1>3. ASSUME NEW x \in extracting, StoreVote(x) PROVE NothingLeft'
  <2>1. x.poll \in Nat /\ x.poll # 0
    BY DEF TypeOK, Vote, VotesAreHonest
  <2>2. polls # <<>>
    BY <1>3, <2>1 DEF StoreVote, Storable
  <2> QED BY <1>3, <2>2 DEF StoreVote
<1>4. ASSUME NEW x \in extracting, LoseVote(x) PROVE NothingLeft'
  BY <1>4 DEF LoseVote
<1>5. CASE Summing
  BY <1>5 DEF Summing, SummaryRead, SummaryStore, SummaryFails, SummaryStep
<1>6. CASE RemoveSession
  BY <1>6 DEF RemoveSession
<1>7. ASSUME NEW e \in 1..Experts, RemoveExpert(e) PROVE NothingLeft'
  BY <1>7 DEF RemoveExpert
<1>8. CASE UNCHANGED vars
  BY <1>8 DEF vars
<1> QED BY Steps, <1>1, <1>2, <1>3, <1>4, <1>5, <1>6, <1>7, <1>8

\* Messages are of rounds that have begun: only the end of a round moves the round on.
LEMMA RoundsPassNext == Inv /\ [Next]_vars => RoundsPass'
<1> SUFFICES ASSUME Inv, [Next]_vars PROVE RoundsPass'
  OBVIOUS
<1> USE Lengths DEF Inv, RoundsPass, rowVars, loopVars, Between
<1>r. round \in Nat
  BY DEF TypeOK
<1>1. CASE Reply
  <2> DEFINE new == [author |-> turn + 1, round |-> round]
  <2>1. new \in Message
    BY <1>1 DEF Reply, TypeOK, Message
  <2>2. messages' = Append(messages, new)
    BY <1>1 DEF Reply
  <2>3. \A m \in Ids' : messages'[m].round <= round
    BY <1>r, <2>1, <2>2, Appended DEF Ids
  <2>4. (round' = round /\ pc' = "turns") \/ round' = round + 1
    BY <1>1 DEF Reply, Turn, NextExpert
  <2>5. \A m \in Ids' : messages'[m].round \in Nat
    <3>1. TypeOK'
      BY TypeNext
    <3>2. messages' \in Seq(Message)
      BY <3>1 DEF TypeOK, Message
    <3>3. \A m \in Ids' : messages'[m] \in Message
      BY <3>2 DEF Ids
    <3> QED BY <3>3 DEF Message
  <2> QED BY <1>r, <2>3, <2>4, <2>5
<1>2. CASE Moves
  <2>1. CASE Skip
    <3>1. (round' = round /\ pc' = "turns") \/ round' = round + 1
      BY <2>1 DEF Skip, Turn, NextExpert
    <3> QED BY <1>r, <2>1, <3>1 DEF Skip, Ids
  <2>2. CASE SkipEmpty \/ PollCheck \/ LoopBreak \/ LoopEnded \/ LoopFatal
    BY <2>2 DEF SkipEmpty, Turn, PollCheck, LoopBreak, LoopEnded, LoopFatal, Ids
  <2> QED BY <1>2, <2>1, <2>2 DEF Moves
<1>3. CASE Evaluate
  BY <1>3 DEF Evaluate, EvaluateConsensus, Ids
<1>4. CASE PollCreate
  BY <1>4 DEF PollCreate, Ids
<1>5. CASE PollMessage
  <2> DEFINE new == [author |-> 0, round |-> round]
  <2>1. new \in Message
    BY PollsAssumption DEF TypeOK, Message
  <2>2. messages' = Append(messages, new)
    BY <1>5 DEF PollMessage
  <2>3. \A m \in Ids' : messages'[m].round <= round
    BY <1>r, <2>1, <2>2, Appended DEF Ids
  <2> QED BY <1>5, <2>3 DEF PollMessage
<1>6. ASSUME NEW x \in extracting, StoreVote(x) \/ LoseVote(x) PROVE RoundsPass'
  BY <1>6 DEF StoreVote, LoseVote, Ids
<1>7. CASE Summing
  BY <1>7 DEF Summing, SummaryRead, SummaryStore, SummaryFails, SummaryStep, Ids
<1>8. CASE CreateUserPoll
  BY <1>8 DEF CreateUserPoll, Outside, Ids
<1>9. CASE RemoveSession
  BY <1>9 DEF RemoveSession, Outside, Ids
<1>10. ASSUME NEW e \in 1..Experts, RemoveExpert(e) PROVE RoundsPass'
  BY <1>10 DEF RemoveExpert, Outside, Ids
<1>11. CASE Crash
  BY <1>11 DEF Crash, Ids
<1>12. CASE UNCHANGED vars
  BY <1>12 DEF vars, Ids
<1> QED BY Steps, <1>1, <1>2, <1>3, <1>4, <1>5, <1>6, <1>7, <1>8, <1>9, <1>10, <1>11, <1>12

\* The active poll stays the only one of its round: a poll is made between rounds, when
\* none is active, and the end of a round forgets it.
LEMMA PollIsActiveNext == Inv /\ [Next]_vars => PollIsActive'
<1> SUFFICES ASSUME Inv, [Next]_vars PROVE PollIsActive'
  OBVIOUS
<1> USE Lengths DEF Inv, PollIsActive, rowVars, loopVars, Between, SystemPoll
<1>r. round \in Nat /\ activePoll \in Nat
  BY DEF TypeOK
<1>1. CASE Reply \/ Skip
  <2>1. UNCHANGED <<kept, polls>>
    BY <1>1 DEF Reply, Skip
  <2>2. \/ pc' = "turns" /\ round' = round /\ activePoll' = activePoll
        \/ round' = round + 1 /\ activePoll' = 0
    BY <1>1 DEF Reply, Skip, Turn, NextExpert
  <2> QED BY <1>r, <2>1, <2>2
<1>2. CASE SkipEmpty \/ PollCheck \/ LoopBreak \/ LoopEnded \/ LoopFatal
  BY <1>2 DEF SkipEmpty, Turn, PollCheck, LoopBreak, LoopEnded, LoopFatal
<1>3. CASE Evaluate
  BY <1>3 DEF Evaluate, EvaluateConsensus
<1>4. CASE PollCreate
  <2> DEFINE new == [by |-> "system", round |-> round]
  <2>1. new \in Poll
    BY DEF TypeOK, Poll
  <2>2. polls' = Append(polls, new) /\ activePoll' = Len(polls) + 1 /\ UNCHANGED <<kept, round>>
        /\ pc' = "pollMessage" /\ activePoll = 0
    <3>1. Len(Append(polls, new)) = Len(polls) + 1
      BY <2>1, Appended
    <3> QED BY <1>4, <3>1 DEF PollCreate
  <2>3. /\ Len(polls') = Len(polls) + 1 /\ polls'[Len(polls) + 1] = new
        /\ \A p \in 1..Len(polls) : polls'[p] = polls[p]
    BY <2>1, <2>2, Appended
  <2> QED BY <1>r, <2>2, <2>3
<1>5. CASE PollMessage
  BY <1>5 DEF PollMessage
<1>6. ASSUME NEW x \in extracting, StoreVote(x) \/ LoseVote(x) PROVE PollIsActive'
  BY <1>6 DEF StoreVote, LoseVote
<1>7. CASE Summing
  BY <1>7 DEF Summing, SummaryRead, SummaryStore, SummaryFails, SummaryStep
<1>8. CASE CreateUserPoll
  <2> DEFINE new == [by |-> "user", round |-> round]
  <2>1. new \in Poll
    BY DEF TypeOK, Poll
  <2>2. polls' = Append(polls, new) /\ UNCHANGED <<kept, loopVars>>
    BY <1>8 DEF CreateUserPoll, Outside
  <2>3. /\ Len(polls') = Len(polls) + 1 /\ polls'[Len(polls) + 1] = new
        /\ \A p \in 1..Len(polls) : polls'[p] = polls[p]
    BY <2>1, <2>2, Appended
  <2> QED BY <1>r, <2>2, <2>3
<1>9. CASE RemoveSession
  BY <1>9 DEF RemoveSession, Outside
<1>10. ASSUME NEW e \in 1..Experts, RemoveExpert(e) PROVE PollIsActive'
  BY <1>10 DEF RemoveExpert, Outside
<1>11. CASE Crash
  BY <1>11 DEF Crash
<1>12. CASE UNCHANGED vars
  BY <1>12 DEF vars
<1> QED
  BY Steps, <1>1, <1>2, <1>3, <1>4, <1>5, <1>6, <1>7, <1>8, <1>9, <1>10, <1>11, <1>12 DEF Moves

------------------------------------------------------------------------------
(* Votes. *)

\* What becomes of the votes and of the calls that read them: a reply to an active poll
\* starts one, one is stored or lost, and a removal takes votes away.
LEMMA VoteSteps ==
  ASSUME TypeOK, [Next]_vars
  PROVE  \/ Reply /\ votes' = votes
         \/ \E x \in extracting : StoreVote(x)
         \/ extracting' \subseteq extracting /\ votes' \subseteq votes
BY Steps DEF Moves, Summing, Reply, Skip, SkipEmpty, PollCheck, LoopBreak, LoopEnded,
   LoopFatal, Evaluate, EvaluateConsensus, PollCreate, PollMessage, LoseVote, SummaryRead, SummaryStore,
   SummaryFails, SummaryStep, CreateUserPoll, RemoveSession, RemoveExpert, Crash, Outside,
   rowVars, vars

\* Votes and calls stay honest: a call is started with the active poll, which is of the
\* round the reply is of, and rows only grow; a removed session has no poll to vote in.
LEMMA VotesAreHonestNext == Inv /\ [Next]_vars => VotesAreHonest'
<1> SUFFICES ASSUME Inv, [Next]_vars PROVE VotesAreHonest'
  OBVIOUS
<1> USE DEF Inv, VotesAreHonest
<1>t. TypeOK'
  BY TypeNext
<1>1. CASE RemoveSession
  <2>1. votes' = {} /\ kept' = FALSE /\ extracting' = extracting
    BY <1>1 DEF RemoveSession, Outside
  <2> QED BY <2>1
<1>2. CASE RowsGrow
  <2>1. \A v \in votes : Honest(v)'
    BY <1>2, <1>t, HonestStays
  <2>2. \A x \in extracting : x.poll # 0 /\ (kept' => Honest(x)')
    BY <1>2, <1>t, HonestStays DEF RowsGrow
  <2>3. CASE Reply /\ votes' = votes
    <3> DEFINE new == [author |-> turn + 1, round |-> round]
               x == [poll |-> activePoll, expert |-> turn + 1, message |-> Len(messages) + 1]
    <3>1. new \in Message
      BY <2>3 DEF Reply, TypeOK, Message
    <3>2. messages' = Append(messages, new) /\ kept /\ polls' = polls
          /\ (activePoll = 0 => extracting' = extracting)
          /\ (activePoll # 0 => extracting' = extracting \cup {x})
      BY <2>3 DEF Reply
    <3>3. Len(messages) + 1 \in Ids' /\ messages'[Len(messages) + 1] = new
      BY <3>1, <3>2, Lengths, Appended DEF Ids
    <3> HIDE DEF x
    <3>4. ASSUME NEW y, y = x, activePoll # 0 PROVE y.poll # 0 /\ Honest(y)'
      <4>1. SystemPoll(activePoll) /\ polls[activePoll].round = round
        BY <3>2, <3>4 DEF PollIsActive
      <4>2. y.poll = activePoll /\ y.expert = turn + 1 /\ y.message = Len(messages) + 1
        BY <3>4 DEF x
      <4>3. SystemPoll(y.poll)'
        BY <3>2, <4>1, <4>2 DEF SystemPoll
      <4>4. messages'[y.message] = [author |-> y.expert, round |-> polls'[y.poll].round]
        BY <3>2, <3>3, <4>1, <4>2
      <4> QED BY <3>3, <3>4, <4>1, <4>2, <4>3, <4>4 DEF Honest
    <3>5. \A y \in extracting' : y \in extracting \/ (activePoll # 0 /\ y = x)
      BY <3>2
    <3> QED BY <2>1, <2>2, <2>3, <3>2, <3>4, <3>5
  <2>4. ASSUME NEW x \in extracting, StoreVote(x) PROVE VotesAreHonest'
    <3>1. x.poll \in Nat /\ x.poll # 0 /\ x.poll <= Len(polls)
      BY <2>4 DEF StoreVote, Storable, TypeOK, Vote
    <3>2. kept
      BY <3>1 DEF NothingLeft
    <3>3. votes' = votes \cup {x} /\ extracting' \subseteq extracting /\ kept' = kept
      BY <2>4 DEF StoreVote
    <3> QED BY <2>1, <2>2, <3>2, <3>3
  <2>5. CASE extracting' \subseteq extracting /\ votes' \subseteq votes
    BY <2>1, <2>2, <2>5
  <2> QED BY VoteSteps, <2>3, <2>4, <2>5
<1> QED BY Growth, <1>1, <1>2

\* A vote is stored only if its expert has none in its poll.
LEMMA VotesOfRoundNext == Inv /\ [Next]_vars => VotesOfRound'
<1> SUFFICES ASSUME Inv, [Next]_vars PROVE VotesOfRound'
  OBVIOUS
<1>1. \A v \in votes' : Honest(v)'
  BY VotesAreHonestNext DEF VotesAreHonest
<1>2. \A v, w \in votes' : v.poll = w.poll /\ v.expert = w.expert => v = w
  <2>1. CASE votes' \subseteq votes
    BY <2>1 DEF Inv, VotesOfRound
  <2>2. ASSUME NEW x \in extracting, StoreVote(x)
        PROVE  \A v, w \in votes' : v.poll = w.poll /\ v.expert = w.expert => v = w
    BY <2>2 DEF StoreVote, Storable, Inv, VotesOfRound
  <2> QED BY VoteSteps, <2>1, <2>2 DEF Inv
<1>3. ASSUME NEW v \in votes'
      PROVE  /\ v.poll \in 1..Len(polls') /\ v.message \in Ids'
             /\ messages'[v.message].author = v.expert
             /\ messages'[v.message].round = polls'[v.poll].round
  <2>1. /\ v.poll \in 1..Len(polls') /\ v.message \in Ids'
        /\ messages'[v.message] = [author |-> v.expert, round |-> polls'[v.poll].round]
    BY <1>1 DEF Honest, SystemPoll
  <2> QED BY <2>1
<1> QED BY <1>2, <1>3 DEF VotesOfRound

\* A reply of a poll's round is counted, being counted or lost, in terms of this state.
Counted(p, m) == m \in lost \/ \E x \in votes \cup extracting : x.poll = p /\ x.message = m

\* What has been counted stays so, unless its expert is removed.
LEMMA CountedStays ==
  ASSUME Inv, [Next]_vars, RowsGrow, kept,
         NEW p, NEW m \in Ids, Counted(p, m), messages[m].author \in members'
  PROVE  Counted(p, m)'
<1> USE DEF Counted, rowVars, vars
<1>1. ASSUME NEW x \in extracting, StoreVote(x) \/ LoseVote(x) PROVE Counted(p, m)'
  BY <1>1 DEF StoreVote, LoseVote
<1>2. ASSUME NEW e \in 1..Experts, RemoveExpert(e) PROVE Counted(p, m)'
  <2>1. messages[m].author # e /\ UNCHANGED <<extracting, lost>>
        /\ votes' = {v \in votes : v.expert # e}
    BY <1>2 DEF RemoveExpert, Outside
  <2>2. ASSUME NEW v \in votes, v.message = m PROVE v.expert = messages[m].author
    <3>1. messages[v.message] = [author |-> v.expert, round |-> polls[v.poll].round]
      BY DEF Inv, VotesAreHonest, Honest
    <3> QED BY <2>2, <3>1
  <2> QED BY <2>1, <2>2
<1>3. CASE Crash
  BY <1>3 DEF Crash
<1>4. CASE \/ Moves \/ Reply \/ Evaluate \/ PollCreate \/ PollMessage \/ Summing
           \/ CreateUserPoll \/ UNCHANGED vars
  BY <1>4 DEF Moves, Summing, Reply, Skip, SkipEmpty, PollCheck, LoopBreak, LoopEnded,
     LoopFatal, Evaluate, EvaluateConsensus, PollCreate, PollMessage, SummaryRead, SummaryStore,
     SummaryFails, SummaryStep, CreateUserPoll, Outside
<1>5. CASE RemoveSession
  BY <1>5 DEF RemoveSession, RowsGrow
<1> QED BY Steps, <1>1, <1>2, <1>3, <1>4, <1>5

\* Every reply of a poll's round is counted: one that is given while the poll is active
\* starts its call in the same step, and a poll is made before the round's first reply.
LEMMA EachReplyCountsNext == Inv /\ [Next]_vars => EachReplyCounts'
<1> SUFFICES ASSUME Inv, [Next]_vars,
                    NEW p \in (1..Len(polls))', NEW m \in Ids',
                    polls'[p].by = "system", messages'[m].round = polls'[p].round,
                    messages'[m].author \in members'
             PROVE  Counted(p, m)'
  BY DEF EachReplyCounts, Counted
<1> USE Lengths DEF Inv
<1>r. round \in Nat
  BY DEF TypeOK
<1>m. members' \subseteq members /\ members \subseteq 1..Experts
  BY Steps DEF TypeOK, Moves, Summing, Reply, Skip, SkipEmpty, PollCheck, LoopBreak, LoopEnded,
     LoopFatal, Evaluate, EvaluateConsensus, PollCreate, PollMessage, StoreVote, LoseVote, SummaryRead,
     SummaryStore, SummaryFails, SummaryStep, CreateUserPoll, RemoveSession, RemoveExpert,
     Crash, Outside, rowVars, vars
<1>1. CASE RemoveSession
  BY <1>1 DEF RemoveSession, Ids
<1>2. CASE RowsGrow /\ ~kept
  <2>1. messages' = <<>>
    BY <1>2, NothingLeftNext DEF RowsGrow, NothingLeft
  <2> QED BY <2>1 DEF Ids
<1>3. CASE RowsGrow /\ kept
  <2>1. CASE m \in Ids /\ p \in 1..Len(polls)
    <3>1. messages'[m] = messages[m] /\ polls'[p] = polls[p]
      BY <1>3, <2>1 DEF RowsGrow
    <3>2. Counted(p, m)
      BY <1>m, <2>1, <3>1 DEF EachReplyCounts, Counted
    <3> QED BY <1>3, <2>1, <3>1, <3>2, CountedStays
  <2>2. CASE m \notin Ids
    <3>1. messages' # messages
      BY <2>2 DEF Ids
    <3>2. CASE PollMessage
      <4> DEFINE new == [author |-> 0, round |-> round]
      <4>1. new \in Message
        BY PollsAssumption DEF TypeOK, Message
      <4>2. messages' = Append(messages, new)
        BY <3>2 DEF PollMessage
      <4>3. m = Len(messages) + 1 /\ messages'[m] = new
        BY <2>2, <4>1, <4>2, Appended DEF Ids
      <4> QED BY <1>m, <4>3
    <3>3. CASE Reply
      <4> DEFINE new == [author |-> turn + 1, round |-> round]
                 x == [poll |-> activePoll, expert |-> turn + 1, message |-> Len(messages) + 1]
      <4>1. new \in Message
        BY <3>3 DEF Reply, TypeOK, Message
      <4>2. messages' = Append(messages, new) /\ polls' = polls
            /\ (activePoll # 0 => extracting' = extracting \cup {x})
        BY <3>3 DEF Reply
      <4>3. m = Len(messages) + 1 /\ messages'[m] = new
        BY <2>2, <4>1, <4>2, Appended DEF Ids
      <4>4. p = activePoll /\ activePoll # 0
        BY <4>2, <4>3 DEF PollIsActive
      <4>5. x \in extracting' /\ x.poll = p /\ x.message = m
        BY <4>2, <4>3, <4>4
      <4> QED BY <4>5 DEF Counted
    <3>4. PollMessage \/ Reply
      BY Steps, <3>1, <1>3 DEF Moves, Summing, Skip, SkipEmpty, PollCheck, LoopBreak, LoopEnded,
         LoopFatal, Evaluate, EvaluateConsensus, PollCreate, StoreVote, LoseVote, SummaryRead, SummaryStore,
         SummaryFails, SummaryStep, CreateUserPoll, RemoveSession, RemoveExpert, Crash,
         Outside, rowVars, vars, RowsGrow
    <3> QED BY <3>2, <3>3, <3>4
  <2>3. CASE m \in Ids /\ p \notin 1..Len(polls)
    <3>1. polls' # polls
      BY <2>3
    <3>2. PollCreate \/ CreateUserPoll
      BY Steps, <3>1, <1>3 DEF Moves, Summing, Skip, SkipEmpty, PollCheck, LoopBreak, LoopEnded,
         LoopFatal, Evaluate, EvaluateConsensus, Reply, PollMessage, StoreVote, LoseVote, SummaryRead, SummaryStore,
         SummaryFails, SummaryStep, RemoveSession, RemoveExpert, Crash,
         Outside, rowVars, vars, RowsGrow
    <3>3. CASE PollCreate
      <4> DEFINE new == [by |-> "system", round |-> round]
      <4>1. new \in Poll
        BY DEF TypeOK, Poll
      <4>2. polls' = Append(polls, new) /\ messages' = messages /\ pc \in Between
        BY <3>3 DEF PollCreate, Between
      <4>3. p = Len(polls) + 1 /\ polls'[p] = new
        BY <2>3, <4>1, <4>2, Appended
      <4> QED BY <1>r, <2>3, <4>2, <4>3 DEF RoundsPass
    <3>4. CASE CreateUserPoll
      <4> DEFINE new == [by |-> "user", round |-> round]
      <4>1. new \in Poll
        BY DEF TypeOK, Poll
      <4>2. polls' = Append(polls, new)
        BY <3>4 DEF CreateUserPoll
      <4>3. p = Len(polls) + 1 /\ polls'[p] = new
        BY <2>3, <4>1, <4>2, Appended
      <4> QED BY <4>3
    <3> QED BY <3>2, <3>3, <3>4
  <2> QED BY <2>1, <2>2, <2>3
<1> QED BY Growth, <1>1, <1>2, <1>3

------------------------------------------------------------------------------
(* Evaluations and the summary. *)

\* What the types say of the evaluations.
LEMMA EvaluationsTyped ==
  ASSUME TypeOK
  PROVE  /\ evaluations \in Seq(Judged) /\ Len(evaluations) \in Nat
         /\ \A i \in 1..Len(evaluations) : evaluations[i].round \in Nat
<1>1. evaluations \in Seq(Judged) /\ \A x \in Judged : x.round \in Nat
  BY DEF TypeOK, Judged
<1> QED BY <1>1

\* An evaluation comes after those that are there, and is of the round that has ended.
LEMMA EvaluationAdded ==
  ASSUME TypeOK, Evaluate
  PROVE  LET new == [round |-> round - 1, of |-> RepliesOf(round - 1)] IN
         \/ evaluations' = evaluations
         \/ /\ Len(evaluations') = Len(evaluations) + 1 /\ Len(evaluations) \in Nat
            /\ \A i \in 1..Len(evaluations) : evaluations'[i] = evaluations[i]
            /\ evaluations'[Len(evaluations) + 1] = new
<1> DEFINE new == [round |-> round - 1, of |-> RepliesOf(round - 1)]
<1>1. Ids \subseteq Nat /\ round - 1 \in Nat
  BY Lengths DEF TypeOK, Ids
<1>2. new \in Judged
  BY <1>1 DEF Judged, RepliesOf
<1>3. evaluations' = evaluations \/ evaluations' = Append(evaluations, new)
  BY DEF Evaluate, EvaluateConsensus
<1> HIDE DEF new
<1>4. ASSUME evaluations' = Append(evaluations, new)
      PROVE  /\ Len(evaluations') = Len(evaluations) + 1 /\ Len(evaluations) \in Nat
             /\ \A i \in 1..Len(evaluations) : evaluations'[i] = evaluations[i]
             /\ evaluations'[Len(evaluations) + 1] = new
  BY <1>2, <1>4, EvaluationsTyped, Appended
<1> QED BY <1>3, <1>4 DEF new

\* Evaluations are of rounds that are over, and once the summary is asked for the loop
\* adds nothing: the loop is over by then.
LEMMA OrderInvNext == Inv /\ [Next]_vars => OrderInv'
<1> SUFFICES ASSUME Inv, [Next]_vars PROVE OrderInv'
  OBVIOUS
<1> USE Lengths DEF Inv, OrderInv, rowVars, loopVars, summaryVars
<1>r. round \in Nat /\ \A i \in 1..Len(evaluations) : evaluations[i].round \in Nat
  BY EvaluationsTyped DEF TypeOK
<1>1. CASE Reply
  <2>1. /\ pc = "turns" /\ evaluations' = evaluations /\ UNCHANGED summaryVars
        /\ (round' = round /\ pc' = "turns") \/ (round' = round + 1 /\ pc' = "evaluate")
    BY <1>1 DEF Reply, Turn, NextExpert
  <2> QED BY <1>r, <2>1
<1>2. CASE Moves
  <2>1. CASE Skip
    <3>1. /\ pc = "turns" /\ evaluations' = evaluations /\ UNCHANGED summaryVars
          /\ (round' = round /\ pc' = "turns") \/ (round' = round + 1 /\ pc' = "evaluate")
      BY <2>1 DEF Skip, Turn, NextExpert
    <3> QED BY <1>r, <3>1
  <2>2. CASE SkipEmpty \/ PollCheck \/ LoopBreak \/ LoopEnded \/ LoopFatal
    BY <2>2 DEF SkipEmpty, Turn, PollCheck, LoopBreak, LoopEnded, LoopFatal, Ids
  <2> QED BY <1>2, <2>1, <2>2 DEF Moves
<1>3. CASE Evaluate
  <2>1. /\ pc = "evaluate" /\ pc' \in {"turns", "pollCheck", "ended"}
        /\ round' = round /\ UNCHANGED summaryVars
    BY <1>3 DEF Evaluate, EvaluateConsensus
  <2>2. \A i \in 1..Len(evaluations') :
          \/ i \in 1..Len(evaluations) /\ evaluations'[i] = evaluations[i]
          \/ evaluations'[i].round = round - 1
    BY <1>3, EvaluationAdded
  <2> QED BY <1>r, <2>1, <2>2
<1>4. CASE PollCreate
  BY <1>4 DEF PollCreate
<1>5. CASE PollMessage
  BY <1>5 DEF PollMessage
<1>6. ASSUME NEW x \in extracting, StoreVote(x) \/ LoseVote(x) PROVE OrderInv'
  BY <1>6 DEF StoreVote, LoseVote, Ids
<1>7. CASE Summing
  BY <1>7 DEF Summing, SummaryRead, SummaryStore, SummaryFails, SummaryStep, Ids
<1>8. CASE CreateUserPoll
  BY <1>8 DEF CreateUserPoll, Outside, Ids
<1>9. CASE RemoveSession
  BY <1>9 DEF RemoveSession, Outside
<1>10. ASSUME NEW e \in 1..Experts, RemoveExpert(e) PROVE OrderInv'
  BY <1>10 DEF RemoveExpert, Outside, Ids
<1>11. CASE Crash
  BY <1>11 DEF Crash
<1>12. CASE UNCHANGED vars
  BY <1>12 DEF vars, Ids
<1> QED
  BY Steps, <1>1, <1>2, <1>3, <1>4, <1>5, <1>6, <1>7, <1>8, <1>9, <1>10, <1>11, <1>12

\* The replies of a round once the step is taken.
WillHaveReplies(r) == {m \in Ids' : messages'[m].round = r /\ messages'[m].author # 0}

\* The replies of a round that is over are the same from then on.
LEMMA RepliesStay ==
  ASSUME Inv, [Next]_vars, RowsGrow, NEW r \in Nat, r < round
  PROVE  RepliesOf(r)' = RepliesOf(r)
<1> USE Lengths DEF RepliesOf
<1>r. round \in Nat
  BY DEF Inv, TypeOK
<1>1. CASE Reply
  <2> DEFINE new == [author |-> turn + 1, round |-> round]
  <2>1. new \in Message
    BY <1>1 DEF Reply, Inv, TypeOK, Message
  <2>2. messages' = Append(messages, new) /\ new.round = round
    BY <1>1 DEF Reply
  <2>3. Ids' = Ids \cup {Len(messages) + 1} /\ messages'[Len(messages) + 1].round = round
    BY <2>1, <2>2, Appended DEF Ids, Inv
  <2> QED BY <1>r, <2>3 DEF RowsGrow, Inv
<1>2. CASE PollMessage
  <2> DEFINE new == [author |-> 0, round |-> round]
  <2>1. new \in Message
    BY PollsAssumption DEF Inv, TypeOK, Message
  <2>2. messages' = Append(messages, new) /\ new.round = round
    BY <1>2 DEF PollMessage
  <2>3. Ids' = Ids \cup {Len(messages) + 1} /\ messages'[Len(messages) + 1].round = round
    BY <2>1, <2>2, Appended DEF Ids, Inv
  <2> QED BY <1>r, <2>3 DEF RowsGrow, Inv
<1>3. messages' = messages \/ Reply \/ PollMessage \/ RemoveSession
  BY Steps DEF Moves, Summing, Skip, SkipEmpty, PollCheck, LoopBreak, LoopEnded,
     LoopFatal, Evaluate, EvaluateConsensus, PollCreate, StoreVote, LoseVote, SummaryRead, SummaryStore,
     SummaryFails, SummaryStep, CreateUserPoll, RemoveExpert, Crash, rowVars, vars
<1>4. CASE RemoveSession
  <2>1. kept /\ kept' = FALSE
    BY <1>4 DEF RemoveSession
  <2> QED BY <2>1 DEF RowsGrow
<1> QED BY <1>1, <1>2, <1>3, <1>4 DEF Ids

\* The steps that leave the evaluations alone but keep or empty them.
LEMMA EvaluationsStay ==
  ASSUME [Next]_vars
  PROVE  evaluations' = evaluations \/ Evaluate \/ RemoveSession
BY Steps DEF Moves, Summing, Reply, Skip, SkipEmpty, PollCheck, LoopBreak, LoopEnded,
   LoopFatal, PollCreate, PollMessage, StoreVote, LoseVote, SummaryRead, SummaryStore,
   SummaryFails, SummaryStep, CreateUserPoll, RemoveExpert, Crash, rowVars, vars

\* The loop asks about the round that has ended before it does anything else.
LEMMA EvaluatedNext ==
  ASSUME Inv, [Next]_vars, pc' \notin {"evaluate", "over"}
  PROVE  evaluated' = round' - 1
<1> USE DEF rowVars, loopVars
<1>0. pc \notin {"evaluate", "over"} => evaluated = round - 1
  BY DEF Inv, EvaluationIsOfRound
<1>1. CASE Evaluate
  BY <1>1 DEF Evaluate, EvaluateConsensus
<1>2. CASE Reply \/ Skip
  BY <1>0, <1>2 DEF Reply, Skip, Turn, NextExpert
<1>3. CASE SkipEmpty \/ PollCheck \/ LoopBreak \/ LoopEnded \/ LoopFatal \/ Crash
  BY <1>0, <1>3 DEF SkipEmpty, Turn, PollCheck, LoopBreak, LoopEnded, LoopFatal, Crash
<1>4. CASE PollCreate \/ PollMessage
  BY <1>0, <1>4 DEF PollCreate, PollMessage
<1>5. CASE Summing
  BY <1>0, <1>5 DEF Summing, SummaryRead, SummaryStore, SummaryFails, SummaryStep
<1>6. CASE \/ CreateUserPoll \/ RemoveSession \/ (\E e \in 1..Experts : RemoveExpert(e))
           \/ UNCHANGED vars
  BY <1>0, <1>6 DEF CreateUserPoll, RemoveSession, RemoveExpert, Outside, vars
<1>7. ASSUME NEW x \in extracting, StoreVote(x) \/ LoseVote(x) PROVE evaluated' = round' - 1
  BY <1>0, <1>7 DEF StoreVote, LoseVote
<1> QED BY Steps, <1>1, <1>2, <1>3, <1>4, <1>5, <1>6, <1>7 DEF Moves

\* A round is evaluated when its last turn has passed, and from its replies.
LEMMA EvaluationIsOfRoundNext == Inv /\ [Next]_vars => EvaluationIsOfRound'
<1> SUFFICES ASSUME Inv, [Next]_vars PROVE EvaluationIsOfRound'
  OBVIOUS
<1> DEFINE Are == \A i \in 1..Len(evaluations') :
                    evaluations'[i].of = WillHaveReplies(evaluations'[i].round)
           Ordered == \A i, j \in 1..Len(evaluations') :
                        i < j => evaluations'[i].round < evaluations'[j].round
<1>r. /\ round \in Nat /\ \A i \in 1..Len(evaluations) : evaluations[i].round \in Nat
      /\ Len(evaluations) \in Nat
  BY EvaluationsTyped DEF Inv, TypeOK
<1>e. Are /\ Ordered => EvaluationIsOfRound'
  BY EvaluatedNext DEF EvaluationIsOfRound, WillHaveReplies, RepliesOf
<1>1. CASE RemoveSession
  <2>1. evaluations' = <<>>
    BY <1>1 DEF RemoveSession
  <2>2. 1..Len(evaluations') = {}
    BY <2>1
  <2> QED BY <1>e, <2>2
<1>2. CASE RowsGrow
  <2>1. \A i \in 1..Len(evaluations) :
          /\ evaluations[i].of = RepliesOf(evaluations[i].round)
          /\ evaluations[i].of = WillHaveReplies(evaluations[i].round)
    <3>1. \A i \in 1..Len(evaluations) :
            evaluations[i].of = RepliesOf(evaluations[i].round) /\ evaluations[i].round < round
      BY DEF Inv, EvaluationIsOfRound, OrderInv
    <3> QED BY <1>r, <1>2, <3>1, RepliesStay DEF WillHaveReplies, RepliesOf
  <2>2. CASE evaluations' = evaluations
    <3>1. Are
      BY <2>1, <2>2
    <3>2. Ordered
      BY <2>2 DEF Inv, EvaluationIsOfRound
    <3> QED BY <1>e, <3>1, <3>2
  <2>3. CASE Evaluate /\ evaluations' # evaluations
    <3> DEFINE r == round - 1
               new == [round |-> r, of |-> RepliesOf(r)]
               n == Len(evaluations) + 1
    <3>1. /\ Len(evaluations') = n /\ evaluations'[n] = new
          /\ \A i \in 1..Len(evaluations) : evaluations'[i] = evaluations[i]
      BY <2>3, EvaluationAdded DEF Inv
    <3>2. \A i \in 1..Len(evaluations) : evaluations[i].round < r
      BY <1>r, <2>3 DEF Inv, OrderInv, Evaluate
    <3>3. new.of = RepliesOf(r) /\ new.round = r
      OBVIOUS
    <3>4. \A t : WillHaveReplies(t) = RepliesOf(t)
      BY <2>3 DEF Evaluate, EvaluateConsensus, WillHaveReplies, RepliesOf, Ids
    <3>5. \A i \in 1..Len(evaluations') : i = n \/ i \in 1..Len(evaluations)
      BY <1>r, <3>1
    <3> HIDE DEF new, r, n
    <3>6. Are
      <4>1. evaluations'[n].of = WillHaveReplies(evaluations'[n].round)
        BY <3>1, <3>3, <3>4
      <4>2. \A i \in 1..Len(evaluations) : evaluations'[i].of = WillHaveReplies(evaluations'[i].round)
        BY <2>1, <3>1
      <4> QED BY <3>5, <4>1, <4>2
    <3>7. Ordered
      <4> SUFFICES ASSUME NEW i \in 1..Len(evaluations'), NEW j \in 1..Len(evaluations'), i < j
                   PROVE  evaluations'[i].round < evaluations'[j].round
        OBVIOUS
      <4>1. i \in 1..Len(evaluations)
        BY <1>r, <3>1 DEF n
      <4>2. CASE j = n
        BY <3>1, <3>2, <3>3, <4>1, <4>2
      <4>3. CASE j \in 1..Len(evaluations)
        BY <3>1, <4>1, <4>3 DEF Inv, EvaluationIsOfRound
      <4> QED BY <3>5, <4>2, <4>3
    <3> QED BY <1>e, <3>6, <3>7
  <2>4. evaluations' = evaluations \/ (Evaluate /\ evaluations' # evaluations)
    <3>1. ~RemoveSession
      BY <1>2 DEF RemoveSession, RowsGrow
    <3> QED BY <3>1, EvaluationsStay
  <2> QED BY <2>2, <2>3, <2>4
<1> QED BY <1>1, <1>2, Growth DEF Inv

\* The summary is stored while nothing can add a message any more.
LEMMA SummaryIsCompleteNext == Inv /\ [Next]_vars => SummaryIsComplete'
<1> SUFFICES ASSUME Inv, [Next]_vars PROVE SummaryIsComplete'
  OBVIOUS
<1> USE DEF Inv, SummaryIsComplete, rowVars, loopVars, Ids
<1>1. CASE Reply \/ Evaluate \/ PollCreate \/ PollMessage
  BY <1>1 DEF Reply, Evaluate, EvaluateConsensus, PollCreate, PollMessage, Turn
<1>2. CASE Moves \/ Crash
  BY <1>2 DEF Moves, Skip, SkipEmpty, PollCheck, LoopBreak, LoopEnded, LoopFatal, Crash, Turn
<1>3. ASSUME NEW x \in extracting, StoreVote(x) \/ LoseVote(x) PROVE SummaryIsComplete'
  BY <1>3 DEF StoreVote, LoseVote
<1>4. CASE Summing
  BY <1>4 DEF Summing, SummaryRead, SummaryStore, SummaryFails, SummaryStep, OrderInv
<1>5. CASE CreateUserPoll \/ RemoveSession
  BY <1>5 DEF CreateUserPoll, RemoveSession, Outside
<1>6. ASSUME NEW e \in 1..Experts, RemoveExpert(e) PROVE SummaryIsComplete'
  BY <1>6 DEF RemoveExpert, Outside
<1>7. CASE UNCHANGED vars
  BY <1>7 DEF vars
<1> QED BY Steps, <1>1, <1>2, <1>3, <1>4, <1>5, <1>6, <1>7

------------------------------------------------------------------------------
(* The theorems. *)

\* Every step keeps the invariant.
LEMMA InvNext == Inv /\ [Next]_vars => Inv'
BY TypeNext, NothingLeftNext, RoundsPassNext, PollIsActiveNext, VotesAreHonestNext,
   VotesOfRoundNext, EachReplyCountsNext, OrderInvNext, EvaluationIsOfRoundNext,
   SummaryIsCompleteNext DEF Inv

\* The invariant holds of the specification.
THEOREM Invariance == Spec => []Inv
BY InvInit, InvNext, PTL DEF Spec

\* A vote is its expert's own reply, given in the poll's round where the system made the
\* poll, and the expert's only one in it.
THEOREM VotesAreOfRound == Spec => []VotesOfRound
<1>1. Inv => VotesOfRound
  BY DEF Inv
<1> QED BY Invariance, <1>1, PTL

\* Every reply in a poll's round is counted, being counted, or lost in the logged way.
THEOREM RepliesAreCounted == Spec => []EachReplyCounts
<1>1. Inv => EachReplyCounts
  BY DEF Inv
<1> QED BY Invariance, <1>1, PTL

\* A round is evaluated at most once and in its order, from all of its replies and no
\* others, and the loop goes on only once it has asked about the round that ended.
THEOREM EvaluationsAreOfRound == Spec => []EvaluationIsOfRound
<1>1. Inv => EvaluationIsOfRound
  BY DEF Inv
<1> QED BY Invariance, <1>1, PTL

\* A stored summary was made from every message of the session.
THEOREM SummariesAreComplete == Spec => []SummaryIsComplete
<1>1. Inv => SummaryIsComplete
  BY DEF Inv
<1> QED BY Invariance, <1>1, PTL
==============================================================================

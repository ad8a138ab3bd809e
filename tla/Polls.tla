--------------------------------- MODULE Polls ---------------------------------
(***************************************************************************)
(* The rows that ConsensusService (src/consensus/consensus.service.ts)     *)
(* leaves of one discussion: evaluations of its rounds, polls with the     *)
(* votes taken from the experts' replies, and the summary.  The loop waits *)
(* for an evaluation and for a poll's row, but not for the votes nor for   *)
(* the summary, which go on beside it and after its end.                   *)
(*                                                                         *)
(* Of the loop only the order of its turns and rounds is left: Discussion  *)
(* says when it ends.  What the evaluator answers is any answer.           *)
(***************************************************************************)
EXTENDS Naturals, Sequences, FiniteSets

CONSTANTS
  Experts,       \* the number of experts
  MaxMessages,   \* session.maxMessages
  MaxRounds,     \* rounds that begin (bound: one without replies adds no message)
  MaxUserPolls   \* polls that users create (bound)

ASSUME PollsAssumption ==
  /\ Experts \in Nat \ {0} /\ MaxMessages \in Nat
  /\ MaxRounds \in Nat /\ MaxUserPolls \in Nat

VARIABLES
  (* rows *)
  kept,        \* the session's row exists
  members,     \* experts whose rows exist
  messages,    \* author and round of each; the author of a poll's message is 0
  evaluations, \* in the order of their rows: round of each, and the messages it was
               \* made from (history)
  evaluated,   \* the round that evaluateConsensus was asked about last (history)
  polls,       \* who created each, and currentRound then (history)
  votes,       \* poll and expert of each, and the reply it was taken from (history)
  outcome,     \* the messages that the summary stored was made from
  (* the loop *)
  pc,          \* "turns", "evaluate", "pollCheck", "pollCreate", "pollMessage",
               \* "ended", "over"
  turn,        \* currentExpertIndex % experts.length
  round,       \* currentRound
  activePoll,  \* 0 when there is none
  (* beside the loop *)
  extracting,  \* calls of extractVote under way
  summarizing, \* generateSummary: "none", "asked" or "read"
  transcript,  \* the messages it read
  (* history, read by the properties only *)
  lost         \* replies whose vote was not stored

rowVars  == <<kept, members, messages, evaluations, evaluated, polls, votes, outcome>>
loopVars == <<pc, turn, round, activePoll>>
summaryVars == <<summarizing, transcript>>
vars == <<rowVars, loopVars, extracting, summaryVars, lost>>

Ids == 1..Len(messages)
RepliesOf(r) == {m \in Ids : messages[m].round = r /\ messages[m].author # 0}

Init ==
  /\ kept = TRUE /\ members = 1..Experts
  /\ messages = <<>> /\ evaluations = <<>> /\ evaluated = 0 /\ polls = <<>> /\ votes = {} /\ outcome = {}
  /\ pc = "turns" /\ turn = 0 /\ round = 1 /\ activePoll = 0
  /\ extracting = {} /\ summarizing = "none" /\ transcript = {} /\ lost = {}

------------------------------------------------------------------------------
(***************************************************************************)
(* The loop's turns.                                                       *)
(***************************************************************************)
Turn == pc = "turns" /\ round <= MaxRounds

\* Mutant: the poll stays active after its round.
NextExpertPolled ==
  IF turn + 1 = Experts
    THEN pc' = "evaluate" /\ turn' = 0 /\ round' = round + 1 /\ UNCHANGED activePoll
    ELSE turn' = turn + 1 /\ UNCHANGED <<pc, round, activePoll>>

\* Mutant: the index passes the last expert.
NextExpertUnwrapped ==
  /\ turn' = turn + 1
  /\ IF turn + 1 = Experts
       THEN pc' = "evaluate" /\ round' = round + 1 /\ activePoll' = 0
       ELSE UNCHANGED <<pc, round, activePoll>>

\* The end of a turn, and of a round with the last expert's.
NextExpert ==
  IF turn + 1 = Experts
    THEN pc' = "evaluate" /\ turn' = 0 /\ round' = round + 1 /\ activePoll' = 0
    ELSE turn' = turn + 1 /\ UNCHANGED <<pc, round, activePoll>>

\* Mutant: the vote of an expert is taken once, from the first reply to a poll.
ReplyPolledOnce ==
  LET expert == turn + 1  m == Len(messages) + 1 IN
  /\ Turn /\ Len(messages) < MaxMessages
  /\ kept /\ expert \in members
  /\ messages' = Append(messages, [author |-> expert, round |-> round])
  /\ extracting' = IF activePoll # 0 /\ \A i \in Ids : messages[i].round # round \/ messages[i].author = 0
                     THEN extracting \cup {[poll |-> activePoll, expert |-> expert, message |-> m]}
                     ELSE extracting
  /\ NextExpert
  /\ UNCHANGED <<kept, members, evaluations, evaluated, polls, votes, outcome, summaryVars, lost>>

\* The expert whose turn it is answers.  MessageService.create wants the session and
\* the expert's place in it.
Reply ==
  LET expert == turn + 1  m == Len(messages) + 1 IN
  /\ Turn /\ Len(messages) < MaxMessages
  /\ kept /\ expert \in members
  /\ messages' = Append(messages, [author |-> expert, round |-> round])
  /\ extracting' = IF activePoll # 0
                     THEN extracting \cup {[poll |-> activePoll, expert |-> expert, message |-> m]}
                     ELSE extracting
  /\ NextExpert
  /\ UNCHANGED <<kept, members, evaluations, evaluated, polls, votes, outcome, summaryVars, lost>>

\* A transient error ends the turn without a message.
Skip ==
  /\ Turn
  /\ NextExpert
  /\ UNCHANGED <<rowVars, extracting, summaryVars, lost>>

\* An empty reply passes the end of the round by: after the last expert's, the first
\* has another turn in the same round.
SkipEmpty ==
  /\ Turn
  /\ turn' = (turn + 1) % Experts
  /\ UNCHANGED <<rowVars, pc, round, activePoll, extracting, summaryVars, lost>>

(***************************************************************************)
(* The end of a round.                                                     *)
(***************************************************************************)
\* evaluateConsensus for a round: one that fails, or has no reply to go by, leaves no row.
\* The loop takes it for a stalled round, and for no agreement.
EvaluateConsensus(r, next) ==
  /\ evaluated' = r
  /\ \/ /\ pc' \in next \ {"pollCheck"}
        /\ UNCHANGED evaluations
     \/ /\ kept /\ RepliesOf(r) # {}
        /\ evaluations' = Append(evaluations, [round |-> r, of |-> RepliesOf(r)])
        /\ pc' \in next
  /\ UNCHANGED <<kept, members, messages, polls, votes, outcome, turn, round, activePoll,
                 extracting, summaryVars, lost>>

\* Mutant: the evaluation is of the round that begins.
EvaluateBegun ==
  pc = "evaluate" /\ EvaluateConsensus(round, {"turns", "pollCheck", "ended"})

\* Mutant: the round may be evaluated again before the next one begins.
EvaluateAgain ==
  pc = "evaluate" /\ EvaluateConsensus(round - 1, {"turns", "pollCheck", "ended", "evaluate"})

\* The loop goes on with the next round, with a poll, or ends.
Evaluate ==
  pc = "evaluate" /\ EvaluateConsensus(round - 1, {"turns", "pollCheck", "ended"})

\* hasAutoPolledSession; users' polls do not count.
PollCheck ==
  /\ pc = "pollCheck"
  /\ pc' = IF \E p \in 1..Len(polls) : polls[p].by = "system" THEN "turns" ELSE "pollCreate"
  /\ UNCHANGED <<rowVars, turn, round, activePoll, extracting, summaryVars, lost>>

\* createPoll
PollCreate ==
  /\ pc = "pollCreate" /\ kept
  /\ polls' = Append(polls, [by |-> "system", round |-> round])
  /\ activePoll' = Len(polls')
  /\ pc' = "pollMessage"
  /\ UNCHANGED <<kept, members, messages, evaluations, evaluated, votes, outcome, turn, round,
                 extracting, summaryVars, lost>>

PollMessage ==
  /\ pc = "pollMessage" /\ kept /\ Len(messages) < MaxMessages
  /\ messages' = Append(messages, [author |-> 0, round |-> round])
  /\ pc' = "turns"
  /\ UNCHANGED <<kept, members, evaluations, evaluated, polls, votes, outcome, turn, round, activePoll,
                 extracting, summaryVars, lost>>

(***************************************************************************)
(* The end of the loop.                                                    *)
(***************************************************************************)
\* A stop or the limit.
LoopBreak ==
  /\ pc = "turns"
  /\ pc' = "ended"
  /\ UNCHANGED <<rowVars, turn, round, activePoll, extracting, summaryVars, lost>>

\* After 'session-ended' the summary is started, and not awaited.
LoopEnded ==
  /\ pc = "ended"
  /\ pc' = "over"
  /\ summarizing' = "asked"
  /\ UNCHANGED <<rowVars, turn, round, activePoll, extracting, transcript, lost>>

\* An error that ends the discussion: any query or a reply may be refused.
LoopFatal ==
  /\ pc # "over"
  /\ pc' = "over"
  /\ UNCHANGED <<rowVars, turn, round, activePoll, extracting, summaryVars, lost>>

(***************************************************************************)
(* Votes and the summary, which nobody awaits.                             *)
(***************************************************************************)
\* pollVote.create: the poll and the expert exist, and the expert has no vote in it.
Storable(x) ==
  /\ x.poll <= Len(polls) /\ x.expert \in members
  /\ \A v \in votes : v.poll # x.poll \/ v.expert # x.expert

StoreVote(x) ==
  /\ x \in extracting /\ Storable(x)
  /\ extracting' = extracting \ {x}
  /\ votes' = votes \cup {x}
  /\ UNCHANGED <<kept, members, messages, evaluations, evaluated, polls, outcome, loopVars,
                 summaryVars, lost>>

\* The evaluator fails, or the row is refused: the rejection is logged.
LoseVote(x) ==
  /\ x \in extracting
  /\ extracting' = extracting \ {x}
  /\ lost' = lost \cup {x.message}
  /\ UNCHANGED <<rowVars, loopVars, summaryVars>>

SummaryStep == UNCHANGED <<kept, members, messages, evaluations, evaluated, polls, votes, loopVars,
                           extracting, lost>>

\* Mutant: the summary is made from the newest message only.
SummaryReadLatest ==
  /\ summarizing = "asked"
  /\ summarizing' = IF messages = <<>> THEN "none" ELSE "read"
  /\ transcript' = Ids \ 1..(Len(messages) - 1)
  /\ UNCHANGED outcome
  /\ SummaryStep

\* generateSummary: all messages, in one pass or in chunks; none, no summary.
SummaryRead ==
  /\ summarizing = "asked"
  /\ summarizing' = IF messages = <<>> THEN "none" ELSE "read"
  /\ transcript' = Ids
  /\ UNCHANGED outcome
  /\ SummaryStep

SummaryStore ==
  /\ summarizing = "read" /\ kept
  /\ outcome' = transcript
  /\ summarizing' = "none"
  /\ UNCHANGED transcript
  /\ SummaryStep

\* A query fails, the evaluator fails or its answer has not the fields asked for.
SummaryFails ==
  /\ summarizing # "none"
  /\ summarizing' = "none"
  /\ UNCHANGED <<outcome, transcript>>
  /\ SummaryStep

(***************************************************************************)
(* Users, and faults.                                                      *)
(***************************************************************************)
Outside == UNCHANGED <<loopVars, extracting, summaryVars, lost>>

\* POST sessions/:id/poll, whatever the session's status: a row, but no message that
\* would ask the experts.
CreateUserPoll ==
  /\ kept
  /\ Cardinality({p \in 1..Len(polls) : polls[p].by = "user"}) < MaxUserPolls
  /\ polls' = Append(polls, [by |-> "user", round |-> round])
  /\ UNCHANGED <<kept, members, messages, evaluations, evaluated, votes, outcome>>
  /\ Outside

\* The rows of a session go with it.
RemoveSession ==
  /\ kept
  /\ kept' = FALSE
  /\ messages' = <<>> /\ evaluations' = <<>> /\ polls' = <<>> /\ votes' = {} /\ outcome' = {}
  /\ UNCHANGED <<members, evaluated>>
  /\ Outside

\* An expert's votes and places in sessions go with it; its messages stay.
RemoveExpert(e) ==
  /\ e \in members
  /\ members' = members \ {e}
  /\ votes' = {v \in votes : v.expert # e}
  /\ UNCHANGED <<kept, messages, evaluations, evaluated, polls, outcome>>
  /\ Outside

\* Nothing resumes what the process had under way.
Crash ==
  /\ pc # "over" \/ extracting # {} \/ summarizing # "none"
  /\ pc' = "over"
  /\ extracting' = {} /\ summarizing' = "none"
  /\ lost' = lost \cup {x.message : x \in extracting}
  /\ UNCHANGED <<rowVars, turn, round, activePoll, transcript>>

Loop ==
  \/ Reply \/ Skip \/ SkipEmpty
  \/ Evaluate \/ PollCheck \/ PollCreate \/ PollMessage
  \/ LoopBreak \/ LoopEnded \/ LoopFatal

Next ==
  \/ Loop
  \/ \E x \in extracting : StoreVote(x) \/ LoseVote(x)
  \/ SummaryRead \/ SummaryStore \/ SummaryFails
  \/ CreateUserPoll \/ RemoveSession \/ Crash
  \/ \E e \in 1..Experts : RemoveExpert(e)

Spec == Init /\ [][Next]_vars

------------------------------------------------------------------------------
Vote == [poll : Nat, expert : 1..Experts, message : Nat]

\* The shape of the rows, the loop and what goes on beside it.
TypeOK ==
  /\ kept \in BOOLEAN /\ members \subseteq 1..Experts
  /\ messages \in Seq([author : 0..Experts, round : Nat])
  /\ evaluations \in Seq([round : Nat, of : SUBSET Nat]) /\ evaluated \in Nat
  /\ polls \in Seq([by : {"system", "user"}, round : Nat])
  /\ votes \subseteq Vote /\ extracting \subseteq Vote
  /\ outcome \subseteq Nat /\ transcript \subseteq Nat /\ lost \subseteq Nat
  /\ pc \in {"turns", "evaluate", "pollCheck", "pollCreate", "pollMessage", "ended", "over"}
  /\ turn \in 0..(Experts - 1) /\ round \in Nat \ {0} /\ activePoll \in Nat
  /\ summarizing \in {"none", "asked", "read"}

\* A vote is its expert's own reply, in a poll of the system one that was given in the
\* round in which the poll's message asked, although it is stored at any time after; an
\* expert whom an empty reply lets speak twice in that round has one vote (extractVote,
\* unawaited; the loop's activePoll).
VotesOfRound ==
  /\ \A v \in votes :
       /\ v.poll \in 1..Len(polls) /\ v.message \in Ids
       /\ messages[v.message].author = v.expert
       /\ polls[v.poll].by = "system" => messages[v.message].round = polls[v.poll].round
  /\ \A v, w \in votes : v.poll = w.poll /\ v.expert = w.expert => v = w

\* No reply to a poll is passed over: each one of its round has given its expert's vote,
\* is being read for it, or is one whose vote was lost.
EachReplyCounts ==
  \A p \in 1..Len(polls), m \in Ids :
    /\ polls[p].by = "system" /\ messages[m].round = polls[p].round
    /\ messages[m].author \in members
    => \/ m \in lost
       \/ \E x \in votes \cup extracting : x.poll = p /\ x.message = m

\* A round is evaluated once, when no reply can join it any more, from all of its
\* replies and no others; rows are in the order of their rounds, and no round that has
\* ended is left out (evaluateConsensus is given currentRound - 1 after the increment).
EvaluationIsOfRound ==
  /\ \A i \in 1..Len(evaluations) : evaluations[i].of = RepliesOf(evaluations[i].round)
  /\ \A i, j \in 1..Len(evaluations) : i < j => evaluations[i].round < evaluations[j].round
  /\ pc \notin {"evaluate", "over"} => evaluated = round - 1

\* The summary is made from every message the session will ever have, once nothing
\* adds to them (generateSummary is started before the loop's function returns, and
\* reads the messages later).
SummaryIsComplete == outcome # {} => outcome = Ids /\ pc = "over"

\* What docs/specs/2026-04-12-llm-consensus-detection-design.md:165-198 says of polls that
\* users create with POST /sessions/:id/poll: the proposal is injected as a message, and
\* each expert's next reply is parsed for its vote.  The code only writes the row.
UsersPollsAreVoted ==
  \A p \in 1..Len(polls), m \in Ids :
    polls[p].by = "user" /\ messages[m].round = polls[p].round + 1
      /\ messages[m].author \in members
    => \/ m \in lost
       \/ \E x \in votes \cup extracting : x.poll = p /\ x.expert = messages[m].author
==============================================================================

------------------------------ MODULE Discussion ------------------------------
(***************************************************************************)
(* One discussion session as CouncilService runs it                        *)
(* (src/council/council.service.ts), with the calls it makes into          *)
(* SessionService, MessageService and ConsensusService.                    *)
(*                                                                         *)
(* Node runs one callback at a time, so an action is the code between two  *)
(* awaits.  A database call takes effect at one of these steps; a value it *)
(* read is used in the step that read it when nothing but local state      *)
(* depends on it, and decides the program counter of the next step         *)
(* otherwise.  What an `await` lets happen in between is then any action   *)
(* of any other process.                                                   *)
(*                                                                         *)
(* Left to other modules: the tasks the loop starts and never awaits (vote *)
(* extraction, summary, memories) write rows that nothing here reads; the  *)
(* events sent to browsers are named in comments only.                     *)
(***************************************************************************)
EXTENDS Naturals, Sequences, SessionStatus

CONSTANTS
  Starts,         \* start requests; one that is accepted becomes a loop
  Controls,       \* concurrent pause and resume requests
  Interventions,  \* user interventions, each sent once
  NExperts,       \* experts of the session
  MaxMessages,    \* session.maxMessages
  Threshold,      \* session.consensusThreshold, in tenths
  Scores,         \* convergence scores the evaluator may give, in tenths
  Replies,        \* what driver.chat may do: subset of AllReplies
  Faults          \* subset of AllFaults

AllReplies == {"reply", "empty", "transient", "fatal"}
AllFaults  == {"crash", "database", "remove"}

ASSUME ExpertsAssumption   == NExperts \in Nat \ {0}
ASSUME LimitAssumption     == MaxMessages \in Nat
ASSUME ThresholdAssumption == Threshold \in Nat /\ Scores \subseteq Nat
ASSUME ReplyAssumption     == Replies \subseteq AllReplies
ASSUME FaultAssumption     == Faults \subseteq AllFaults

VARIABLES
  (* the session's rows in the database *)
  status,     \* session.status
  agreed,     \* session.consensusReached
  said,       \* number of ASSISTANT messages
  posted,     \* USER messages: the interventions stored, in order
  asked,      \* number of SYSTEM messages (poll prompts)
  autoPolls,  \* number of polls with createdBy = 'system'
  spoken,     \* rounds that have an ASSISTANT message
  (* the maps of CouncilService and ConsensusService, at this session *)
  flag,       \* sessionControlFlags
  resolver,   \* pauseResolvers: the loop whose promise it would resolve
  queue,      \* interventionQueues: the array of the map's entry
  live,       \* loops that iterate over the array of the map's entry
  stallCount, \* stalledRoundCounts
  (* the start requests and the loops they become *)
  pc, turn, round, batch, exit, reason,
  (* the other requests *)
  ctl,        \* where a pause or resume request is
  iv,         \* where an intervention is
  acks        \* interventions acknowledged to their sender, in order

dbVars   == <<status, agreed, said, posted, asked, autoPolls, spoken>>
mapVars  == <<flag, resolver, queue, live, stallCount>>
loopVars == <<pc, turn, round, batch, exit, reason>>
reqVars  == <<ctl, iv, acks>>
vars     == <<dbVars, mapVars, loopVars, reqVars>>

StartPcs == {"idle", "startUpdate", "startWrite", "startLaunch"}
TurnPcs  == {"top", "waiting", "woken", "intervene", "interveneCommit", "count",
             "turn", "create", "commit",
             "evaluate", "pollCheck", "pollCreate", "pollRead", "pollCommit"}
EndPcs   == {"finish", "conclude", "concludeWrite", "ended",
             "fatal", "fatalWrite", "cleanup"}
Over     == {"done", "failed", "crashed"}
LoopPcs  == TurnPcs \cup EndPcs
Pcs      == StartPcs \cup LoopPcs \cup Over

Exits   == {"none", "consensus", "stopped", "stalled", "limit"}
Reasons == {"none", "consensus", "cancelled", "stalled", "max_messages"}

ControlPcs == {"idle", "pauseRead", "pauseWrite", "resumeRead", "resumeWrite"}
SentStates == {"new", "checked", "queued", "posted", "dropped"}

\* messageService.countBySession
Count == said + Len(posted) + asked

\* Mutant: the limit is off by one.
HasRoomForOneMore == Count <= MaxMessages /\ status # Deleted

\* The re-check of the serializable transaction in MessageService.create.  The
\* insert itself needs the session row.
HasRoom == Count < MaxMessages /\ status # Deleted

Running(l) == pc[l] \in LoopPcs

Goto(l, where) == pc' = [pc EXCEPT ![l] = where]

(***************************************************************************)
(* What the consensus evaluator may answer for a round, and the fallback   *)
(* evaluateConsensus returns when it cannot evaluate.                      *)
(***************************************************************************)
Evaluations == [score : Scores, reached : BOOLEAN, stalled : BOOLEAN]

Fallback == [score |-> 0, reached |-> FALSE, stalled |-> TRUE]

\* Mutant: the evaluator is asked about a round without messages too.
EvaluationsOfAnyRound(r) == {Fallback} \cup Evaluations

\* evaluateConsensus: no ASSISTANT message in the round, an unreadable answer or
\* an error gives the fallback.
EvaluationsOf(r) == {Fallback} \cup (IF r \in spoken THEN Evaluations ELSE {})

Consensus(e) == e.reached /\ e.score >= Threshold

\* hasAutoPolledSession is asked only when this holds.
Pollable(e) == e.score >= 7 /\ ~e.reached

StallsAfter(e) == IF e.stalled THEN stallCount + 1 ELSE 0

StallLimit == 3

------------------------------------------------------------------------------
Init ==
  /\ status = "PENDING" /\ agreed = FALSE
  /\ said = 0 /\ posted = <<>> /\ asked = 0 /\ autoPolls = 0 /\ spoken = {}
  /\ flag = "none" /\ resolver = {} /\ queue = <<>> /\ live = {} /\ stallCount = 0
  /\ pc = [s \in Starts |-> "idle"]
  /\ turn = [s \in Starts |-> 0]
  /\ round = [s \in Starts |-> 1]
  /\ batch = [s \in Starts |-> <<>>]
  /\ exit = [s \in Starts |-> "none"]
  /\ reason = [s \in Starts |-> "none"]
  /\ ctl = [c \in Controls |-> "idle"]
  /\ iv = [i \in Interventions |-> "new"]
  /\ acks = <<>>

(***************************************************************************)
(* startDiscussion.  A request that finds another status, or an expert     *)
(* with an invalid configuration, is rejected and changes nothing.         *)
(***************************************************************************)
StartRead(s) ==
  /\ pc[s] = "idle"
  /\ status = "PENDING"
  /\ Goto(s, "startUpdate")
  /\ UNCHANGED <<dbVars, mapVars, turn, round, batch, exit, reason, reqVars>>

\* The read and the check of SessionService.update(ACTIVE).
StartUpdate(s) ==
  /\ pc[s] = "startUpdate"
  /\ Goto(s, IF ValidTransition(status, "ACTIVE") THEN "startWrite" ELSE "idle")
  /\ UNCHANGED <<dbVars, mapVars, turn, round, batch, exit, reason, reqVars>>

\* Its write.
StartWrite(s) ==
  /\ pc[s] = "startWrite"
  /\ status' = Written(status, "ACTIVE")
  /\ Goto(s, IF status = Deleted THEN "idle" ELSE "startLaunch")
  /\ UNCHANGED <<agreed, said, posted, asked, autoPolls, spoken, mapVars,
                 turn, round, batch, exit, reason, reqVars>>

\* A fresh queue and flag, and the loop up to its first await: the flag it tests
\* is the one just set and the queue is empty.
StartLaunch(s) ==
  /\ pc[s] = "startLaunch"
  /\ flag' = "running"
  /\ queue' = <<>>
  /\ live' = {}
  /\ Goto(s, "count")
  /\ UNCHANGED <<dbVars, resolver, stallCount, turn, round, batch, exit, reason,
                 reqVars>>

(***************************************************************************)
(* The loop: the flag test at its top, then the interventions.             *)
(***************************************************************************)

\* processInterventions up to its first await.  The for-of runs over the very
\* array that queueIntervention pushes to.
BeginInterventions(l) ==
  IF queue = <<>>
    THEN Goto(l, "count") /\ UNCHANGED <<batch, live>>
    ELSE /\ Goto(l, "intervene")
         /\ batch' = [batch EXCEPT ![l] = queue]
         /\ live' = live \cup {l}

\* Mutant: a pause is left to the next test of the flag.
LoopTopWithoutPause(l) ==
  /\ pc[l] = "top"
  /\ \/ /\ flag = "stopped"
        /\ Goto(l, "finish")
        /\ exit' = [exit EXCEPT ![l] = "stopped"]
        /\ UNCHANGED <<batch, live>>
     \/ /\ flag # "stopped"
        /\ BeginInterventions(l)
        /\ UNCHANGED exit
  /\ UNCHANGED <<dbVars, flag, resolver, queue, stallCount, turn, round, reason,
                 reqVars>>

LoopTop(l) ==
  /\ pc[l] = "top"
  /\ \/ /\ flag = "paused"
        /\ resolver' = {l}
        /\ Goto(l, "waiting")
        /\ UNCHANGED <<batch, live, exit>>
     \/ /\ flag = "stopped"
        /\ Goto(l, "finish")
        /\ exit' = [exit EXCEPT ![l] = "stopped"]
        /\ UNCHANGED <<resolver, batch, live>>
     \/ /\ flag \in {"none", "running"}
        /\ BeginInterventions(l)
        /\ UNCHANGED <<resolver, exit>>
  /\ UNCHANGED <<dbVars, flag, queue, stallCount, turn, round, reason, reqVars>>

\* After waitWhilePaused resolved with 'running' the flag is not tested again.
LoopWoken(l) ==
  /\ pc[l] = "woken"
  /\ BeginInterventions(l)
  /\ UNCHANGED <<dbVars, flag, resolver, queue, stallCount, turn, round, exit,
                 reason, reqVars>>

\* MessageService.create for the first intervention left: the status check.
InterveneRead(l) ==
  /\ pc[l] = "intervene"
  /\ batch[l] # <<>>
  /\ IF status = "ACTIVE"
       THEN Goto(l, "interveneCommit") /\ UNCHANGED <<batch, iv>>
       ELSE /\ batch' = [batch EXCEPT ![l] = Tail(@)]
            /\ iv' = [iv EXCEPT ![Head(batch[l])] = "dropped"]
            /\ UNCHANGED pc
  /\ UNCHANGED <<dbVars, mapVars, turn, round, exit, reason, ctl, acks>>

\* Its transaction; a failure is reported by an ERROR event and not retried.
InterveneCommit(l) ==
  /\ pc[l] = "interveneCommit"
  /\ IF HasRoom
       THEN /\ posted' = Append(posted, Head(batch[l]))
            /\ iv' = [iv EXCEPT ![Head(batch[l])] = "posted"]
       ELSE /\ iv' = [iv EXCEPT ![Head(batch[l])] = "dropped"]
            /\ UNCHANGED posted
  /\ batch' = [batch EXCEPT ![l] = Tail(@)]
  /\ Goto(l, "intervene")
  /\ UNCHANGED <<status, agreed, said, asked, autoPolls, spoken, mapVars, turn,
                 round, exit, reason, ctl, acks>>

\* Mutant: the processed interventions stay in the queue.
InterveneDoneKeepingQueue(l) ==
  /\ pc[l] = "intervene"
  /\ batch[l] = <<>>
  /\ live' = {}
  /\ Goto(l, "count")
  /\ UNCHANGED <<dbVars, flag, resolver, queue, stallCount, turn, round, batch, exit,
                 reason, reqVars>>

\* The for-of has run out: the map gets a new, empty array.
InterveneDone(l) ==
  /\ pc[l] = "intervene"
  /\ batch[l] = <<>>
  /\ queue' = <<>>
  /\ live' = {}
  /\ Goto(l, "count")
  /\ UNCHANGED <<dbVars, flag, resolver, stallCount, turn, round, batch, exit,
                 reason, reqVars>>

LoopCount(l) ==
  /\ pc[l] = "count"
  /\ IF Count >= MaxMessages
       THEN Goto(l, "finish") /\ exit' = [exit EXCEPT ![l] = "limit"]
       ELSE Goto(l, "turn") /\ UNCHANGED exit
  /\ UNCHANGED <<dbVars, mapVars, turn, round, batch, reason, reqVars>>

(***************************************************************************)
(* An expert's turn.                                                       *)
(***************************************************************************)

\* Mutant: the expert index does not wrap around.
NextExpertUnwrapped(l) ==
  /\ turn' = [turn EXCEPT ![l] = @ + 1]
  /\ IF (turn[l] + 1) % NExperts = 0
       THEN Goto(l, "evaluate") /\ round' = [round EXCEPT ![l] = @ + 1]
       ELSE Goto(l, "top") /\ UNCHANGED round

\* The tail of the loop body after a reply or a transient error: the next
\* expert, and at the end of a round the evaluation, before the 200 ms sleep.
NextExpert(l) ==
  LET next == (turn[l] + 1) % NExperts
  IN  /\ turn' = [turn EXCEPT ![l] = next]
      /\ IF next = 0
           THEN Goto(l, "evaluate") /\ round' = [round EXCEPT ![l] = @ + 1]
           ELSE Goto(l, "top") /\ UNCHANGED round

\* Mutant: an expert with a transient error is asked again.
LoopTurnRepeated(l) ==
  /\ pc[l] = "turn"
  /\ \/ /\ "reply" \in Replies
        /\ Goto(l, "create")
     \/ /\ "transient" \in Replies
        /\ Goto(l, "top")
     \/ /\ "fatal" \in Replies
        /\ Goto(l, "fatal")
  /\ UNCHANGED <<dbVars, mapVars, turn, round, batch, exit, reason, reqVars>>

\* driver.chat answers.  An empty reply takes the `continue`, past the end of
\* the loop body.
LoopTurn(l) ==
  /\ pc[l] = "turn"
  /\ \/ /\ "reply" \in Replies
        /\ Goto(l, "create")
        /\ UNCHANGED <<turn, round>>
     \/ /\ "empty" \in Replies
        /\ turn' = [turn EXCEPT ![l] = (@ + 1) % NExperts]
        /\ Goto(l, "top")
        /\ UNCHANGED round
     \/ /\ "transient" \in Replies
        /\ NextExpert(l)
     \/ /\ "fatal" \in Replies
        /\ Goto(l, "fatal")
        /\ UNCHANGED <<turn, round>>
  /\ UNCHANGED <<dbVars, mapVars, batch, exit, reason, reqVars>>

\* MessageService.create for the reply: a status other than ACTIVE is a
\* BadRequestException, which the turn's catch rethrows, and so is an expert that was
\* deleted, and its sessionExpert with it.
LoopCreate(l) ==
  /\ pc[l] = "create"
  /\ \E member \in IF "remove" \in Faults THEN BOOLEAN ELSE {TRUE} :
       Goto(l, IF status = "ACTIVE" /\ member THEN "commit" ELSE "fatal")
  /\ UNCHANGED <<dbVars, mapVars, turn, round, batch, exit, reason, reqVars>>

LoopCommit(l) ==
  /\ pc[l] = "commit"
  /\ IF HasRoom
       THEN /\ said' = said + 1
            /\ spoken' = spoken \cup {round[l]}
            /\ NextExpert(l)
       ELSE /\ Goto(l, "fatal")
            /\ UNCHANGED <<said, spoken, turn, round>>
  /\ UNCHANGED <<status, agreed, posted, asked, autoPolls, mapVars, batch, exit,
                 reason, reqVars>>

(***************************************************************************)
(* The end of a round.                                                     *)
(***************************************************************************)

\* evaluateConsensus on the round that ended, then checkStallDetection.
LoopEvaluate(l) ==
  /\ pc[l] = "evaluate"
  /\ \E e \in EvaluationsOf(round[l] - 1) :
       IF Consensus(e)
         THEN /\ exit' = [exit EXCEPT ![l] = "consensus"]
              /\ Goto(l, "finish")
              /\ UNCHANGED stallCount
         ELSE /\ stallCount' = StallsAfter(e)
              /\ IF StallsAfter(e) >= StallLimit
                   THEN /\ exit' = [exit EXCEPT ![l] = "stalled"]
                        /\ Goto(l, "finish")
                   ELSE /\ Goto(l, IF Pollable(e) THEN "pollCheck" ELSE "top")
                        /\ UNCHANGED exit
  /\ UNCHANGED <<dbVars, flag, resolver, queue, live, turn, round, batch, reason,
                 reqVars>>

\* hasAutoPolledSession; the evaluation may have no area of agreement to poll about.
PollCheck(l) ==
  /\ pc[l] = "pollCheck"
  /\ \E leadingProposal \in BOOLEAN :
       Goto(l, IF autoPolls = 0 /\ leadingProposal THEN "pollCreate" ELSE "top")
  /\ UNCHANGED <<dbVars, mapVars, turn, round, batch, exit, reason, reqVars>>

\* createPoll; without the session row the insert fails, outside any inner try.
PollCreate(l) ==
  /\ pc[l] = "pollCreate"
  /\ IF status = Deleted
       THEN Goto(l, "fatal") /\ UNCHANGED autoPolls
       ELSE Goto(l, "pollRead") /\ autoPolls' = autoPolls + 1
  /\ UNCHANGED <<status, agreed, said, posted, asked, spoken, mapVars, turn, round,
                 batch, exit, reason, reqVars>>

\* MessageService.create for the poll prompt.
PollRead(l) ==
  /\ pc[l] = "pollRead"
  /\ Goto(l, IF status = "ACTIVE" THEN "pollCommit" ELSE "fatal")
  /\ UNCHANGED <<dbVars, mapVars, turn, round, batch, exit, reason, reqVars>>

PollCommit(l) ==
  /\ pc[l] = "pollCommit"
  /\ IF HasRoom
       THEN Goto(l, "top") /\ asked' = asked + 1
       ELSE Goto(l, "fatal") /\ UNCHANGED asked
  /\ UNCHANGED <<status, agreed, said, posted, autoPolls, spoken, mapVars, turn,
                 round, batch, exit, reason, reqVars>>

(***************************************************************************)
(* After the loop.                                                         *)
(***************************************************************************)

\* The final count and the reason SESSION_ENDED will carry.
EndReason(l) ==
  CASE exit[l] = "consensus"                              -> "consensus"
    [] exit[l] = "stopped"                                -> "cancelled"
    [] exit[l] = "stalled"                                -> "stalled"
    [] exit[l] = "limit" /\ Count >= MaxMessages          -> "max_messages"
    [] OTHER                                              -> "cancelled"

LoopFinish(l) ==
  /\ pc[l] = "finish"
  /\ reason' = [reason EXCEPT ![l] = EndReason(l)]
  /\ Goto(l, "conclude")
  /\ UNCHANGED <<dbVars, mapVars, turn, round, batch, exit, reqVars>>

FinalStatus(l) == IF exit[l] = "stopped" THEN "CANCELLED" ELSE "COMPLETED"

\* What a rejected final update does: after a stop it throws to the outer catch,
\* while concludeSession swallows it (an ERROR event) and the loop goes on.
AfterRejection(l) == IF exit[l] = "stopped" THEN "fatal" ELSE "ended"

LoopConclude(l) ==
  /\ pc[l] = "conclude"
  /\ Goto(l, IF ValidTransition(status, FinalStatus(l))
               THEN "concludeWrite" ELSE AfterRejection(l))
  /\ UNCHANGED <<dbVars, mapVars, turn, round, batch, exit, reason, reqVars>>

\* Mutant: concludeSession leaves consensusReached alone.
LoopConcludeWriteStatus(l) ==
  /\ pc[l] = "concludeWrite"
  /\ status' = Written(status, FinalStatus(l))
  /\ Goto(l, IF status = Deleted THEN AfterRejection(l) ELSE "ended")
  /\ UNCHANGED <<agreed, said, posted, asked, autoPolls, spoken, mapVars, turn, round,
                 batch, exit, reason, reqVars>>

LoopConcludeWrite(l) ==
  /\ pc[l] = "concludeWrite"
  /\ status' = Written(status, FinalStatus(l))
  /\ agreed' = IF status = Deleted \/ exit[l] = "stopped"
                 THEN agreed ELSE exit[l] = "consensus"
  /\ Goto(l, IF status = Deleted THEN AfterRejection(l) ELSE "ended")
  /\ UNCHANGED <<said, posted, asked, autoPolls, spoken, mapVars, turn, round,
                 batch, exit, reason, reqVars>>

\* The three maps' entries and clearSessionState.
ClearMaps ==
  /\ flag' = "none"
  /\ resolver' = {}
  /\ queue' = <<>>
  /\ live' = {}
  /\ stallCount' = 0

\* SESSION_ENDED, the start of the tasks nobody awaits, and the cleanup.
LoopEnded(l) ==
  /\ pc[l] = "ended"
  /\ ClearMaps
  /\ Goto(l, "done")
  /\ UNCHANGED <<dbVars, turn, round, batch, exit, reason, reqVars>>

\* The outer catch: an ERROR event, update(CANCELLED) whose failure is only
\* logged, and the cleanup.
LoopFatal(l) ==
  /\ pc[l] = "fatal"
  /\ Goto(l, IF ValidTransition(status, "CANCELLED") THEN "fatalWrite" ELSE "cleanup")
  /\ UNCHANGED <<dbVars, mapVars, turn, round, batch, exit, reason, reqVars>>

LoopFatalWrite(l) ==
  /\ pc[l] = "fatalWrite"
  /\ status' = Written(status, "CANCELLED")
  /\ Goto(l, "cleanup")
  /\ UNCHANGED <<agreed, said, posted, asked, autoPolls, spoken, mapVars, turn,
                 round, batch, exit, reason, reqVars>>

\* Mutant: the error path forgets the control flag.
LoopCleanupKeepingFlag(l) ==
  /\ pc[l] = "cleanup"
  /\ Goto(l, "failed")
  /\ UNCHANGED <<dbVars, mapVars, turn, round, batch, exit, reason, reqVars>>

LoopCleanup(l) ==
  /\ pc[l] = "cleanup"
  /\ ClearMaps
  /\ Goto(l, "failed")
  /\ UNCHANGED <<dbVars, turn, round, batch, exit, reason, reqVars>>

(***************************************************************************)
(* pauseDiscussion, resumeDiscussion, stopDiscussion.  A request that finds *)
(* another flag is rejected and changes nothing.                           *)
(***************************************************************************)

\* Resolve the promise a loop waits on, if there is one.
Resolve(where, how) ==
  /\ resolver' = {}
  /\ pc' = [l \in Starts |-> IF l \in resolver THEN where ELSE pc[l]]
  /\ exit' = [l \in Starts |-> IF l \in resolver THEN how ELSE exit[l]]

Pause(c) ==
  /\ ctl[c] = "idle"
  /\ flag = "running"
  /\ flag' = "paused"
  /\ ctl' = [ctl EXCEPT ![c] = "pauseRead"]
  /\ UNCHANGED <<dbVars, resolver, queue, live, stallCount, loopVars, iv, acks>>

\* Mutant: resume leaves the loop asleep.
ResumeWithoutWaking(c) ==
  /\ ctl[c] = "idle"
  /\ flag = "paused"
  /\ flag' = "running"
  /\ ctl' = [ctl EXCEPT ![c] = "resumeRead"]
  /\ UNCHANGED <<dbVars, resolver, queue, live, stallCount, loopVars, iv, acks>>

\* The flag changes and the loop wakes before the row is ACTIVE again.
Resume(c) ==
  /\ ctl[c] = "idle"
  /\ flag = "paused"
  /\ flag' = "running"
  /\ Resolve("woken", "none")
  /\ ctl' = [ctl EXCEPT ![c] = "resumeRead"]
  /\ UNCHANGED <<dbVars, queue, live, stallCount, turn, round, batch, reason,
                 iv, acks>>

\* Mutant: a stop writes the row itself, under the loop.
StopWritingRow ==
  /\ flag \in {"running", "paused"}
  /\ flag' = "stopped"
  /\ status' = Written(status, "CANCELLED")
  /\ Resolve("finish", "stopped")
  /\ UNCHANGED <<agreed, said, posted, asked, autoPolls, spoken, queue, live,
                 stallCount, turn, round, batch, reason, reqVars>>

\* Mutant: a stop leaves the loop asleep.
StopWithoutWaking ==
  /\ flag \in {"running", "paused"}
  /\ flag' = "stopped"
  /\ UNCHANGED <<dbVars, resolver, queue, live, stallCount, loopVars, reqVars>>

\* Nothing is awaited: the row is written by the loop.
Stop ==
  /\ flag \in {"running", "paused"}
  /\ flag' = "stopped"
  /\ Resolve("finish", "stopped")
  /\ UNCHANGED <<dbVars, queue, live, stallCount, turn, round, batch, reason,
                 reqVars>>

\* SessionService.update of a pause or resume: its read and check, its write.
Target(c) == IF ctl[c] \in {"pauseRead", "pauseWrite"} THEN "PAUSED" ELSE "ACTIVE"

ControlRead(c) ==
  /\ ctl[c] \in {"pauseRead", "resumeRead"}
  /\ ctl' = [ctl EXCEPT ![c] =
               IF ~ValidTransition(status, Target(c)) THEN "idle"
               ELSE IF @ = "pauseRead" THEN "pauseWrite" ELSE "resumeWrite"]
  /\ UNCHANGED <<dbVars, mapVars, loopVars, iv, acks>>

ControlWrite(c) ==
  /\ ctl[c] \in {"pauseWrite", "resumeWrite"}
  /\ status' = Written(status, Target(c))
  /\ ctl' = [ctl EXCEPT ![c] = "idle"]
  /\ UNCHANGED <<agreed, said, posted, asked, autoPolls, spoken, mapVars, loopVars,
                 iv, acks>>

(***************************************************************************)
(* queueIntervention: the status is read, then the push is made whatever   *)
(* has happened since; the caller gets true.                               *)
(***************************************************************************)
QueueCheck(i) ==
  /\ iv[i] = "new"
  /\ status \in {"ACTIVE", "PAUSED"}
  /\ iv' = [iv EXCEPT ![i] = "checked"]
  /\ UNCHANGED <<dbVars, mapVars, loopVars, ctl, acks>>

QueuePush(i) ==
  /\ iv[i] = "checked"
  /\ iv' = [iv EXCEPT ![i] = "queued"]
  /\ queue' = Append(queue, i)
  /\ batch' = [l \in Starts |-> IF l \in live THEN Append(batch[l], i) ELSE batch[l]]
  /\ acks' = Append(acks, i)
  /\ UNCHANGED <<dbVars, flag, resolver, live, stallCount, pc, turn, round, exit,
                 reason, ctl>>

(***************************************************************************)
(* The environment.                                                        *)
(***************************************************************************)

\* DELETE /sessions/:id; the session's messages and polls cascade.
Remove ==
  /\ "remove" \in Faults
  /\ status # Deleted
  /\ status' = Deleted
  /\ agreed' = FALSE
  /\ said' = 0 /\ posted' = <<>> /\ asked' = 0 /\ autoPolls' = 0 /\ spoken' = {}
  /\ UNCHANGED <<mapVars, loopVars, reqVars>>

\* The process dies and is started again: the maps and every request are lost,
\* the rows stay, and nothing at start-up looks for sessions to go on with.
Crash ==
  /\ "crash" \in Faults
  /\ ClearMaps
  /\ pc' = [l \in Starts |-> IF Running(l) THEN "crashed"
                             ELSE IF pc[l] \in Over THEN pc[l] ELSE "idle"]
  /\ batch' = [l \in Starts |-> <<>>]
  /\ ctl' = [c \in Controls |-> "idle"]
  /\ iv' = [i \in Interventions |-> IF iv[i] = "checked" THEN "new" ELSE iv[i]]
  /\ UNCHANGED <<dbVars, turn, round, exit, reason, acks>>

\* A database call of the loop fails: outside concludeSession and the outer
\* catch it is not one of the transient errors of a turn.
LoopDatabaseError(l) ==
  /\ "database" \in Faults
  /\ \/ /\ pc[l] \in {"count", "turn", "create", "commit", "pollCheck", "pollCreate",
                      "pollRead", "pollCommit", "finish"}
        /\ Goto(l, "fatal")
     \/ /\ pc[l] \in {"conclude", "concludeWrite"}
        /\ Goto(l, AfterRejection(l))
     \/ /\ pc[l] \in {"fatal", "fatalWrite"}
        /\ Goto(l, "cleanup")
  /\ UNCHANGED <<dbVars, mapVars, turn, round, batch, exit, reason, reqVars>>

InterveneDatabaseError(l) ==
  /\ "database" \in Faults
  /\ \/ pc[l] = "intervene" /\ batch[l] # <<>>
     \/ pc[l] = "interveneCommit"
  /\ iv' = [iv EXCEPT ![Head(batch[l])] = "dropped"]
  /\ batch' = [batch EXCEPT ![l] = Tail(@)]
  /\ Goto(l, "intervene")
  /\ UNCHANGED <<dbVars, mapVars, turn, round, exit, reason, ctl, acks>>

RequestDatabaseError ==
  /\ "database" \in Faults
  /\ \/ \E s \in Starts : /\ pc[s] \in {"startUpdate", "startWrite"}
                          /\ Goto(s, "idle")
                          /\ UNCHANGED ctl
     \/ \E c \in Controls : /\ ctl[c] # "idle"
                            /\ ctl' = [ctl EXCEPT ![c] = "idle"]
                            /\ UNCHANGED pc
  /\ UNCHANGED <<dbVars, mapVars, turn, round, batch, exit, reason, iv, acks>>

------------------------------------------------------------------------------
StartNext(s) == StartRead(s) \/ StartUpdate(s) \/ StartWrite(s) \/ StartLaunch(s)

LoopNext(l) ==
  \/ LoopTop(l) \/ LoopWoken(l)
  \/ InterveneRead(l) \/ InterveneCommit(l) \/ InterveneDone(l)
  \/ LoopCount(l) \/ LoopTurn(l) \/ LoopCreate(l) \/ LoopCommit(l)
  \/ LoopEvaluate(l)
  \/ PollCheck(l) \/ PollCreate(l) \/ PollRead(l) \/ PollCommit(l)
  \/ LoopFinish(l) \/ LoopConclude(l) \/ LoopConcludeWrite(l) \/ LoopEnded(l)
  \/ LoopFatal(l) \/ LoopFatalWrite(l) \/ LoopCleanup(l)

ControlNext(c) == Pause(c) \/ Resume(c) \/ ControlRead(c) \/ ControlWrite(c)

InterventionNext(i) == QueueCheck(i) \/ QueuePush(i)

FaultNext ==
  \/ Remove \/ Crash \/ RequestDatabaseError
  \/ \E l \in Starts : LoopDatabaseError(l) \/ InterveneDatabaseError(l)

Next ==
  \/ \E s \in Starts : StartNext(s) \/ LoopNext(s)
  \/ \E c \in Controls : ControlNext(c)
  \/ \E i \in Interventions : InterventionNext(i)
  \/ Stop
  \/ FaultNext

Spec == Init /\ [][Next]_vars

\* What the event loop and the drivers guarantee: a callback that is due runs, a
\* query answers or fails, and driver.chat settles because the drivers bound
\* their retries and time out.  Requests need never be made.
Fairness ==
  /\ \A s \in Starts : WF_vars(LoopNext(s)) /\ WF_vars(StartWrite(s))
                       /\ WF_vars(StartUpdate(s)) /\ WF_vars(StartLaunch(s))
  /\ \A c \in Controls : WF_vars(ControlRead(c)) /\ WF_vars(ControlWrite(c))
  /\ \A i \in Interventions : WF_vars(QueuePush(i))

FairSpec == Spec /\ Fairness
==============================================================================

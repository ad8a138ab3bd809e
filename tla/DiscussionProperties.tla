------------------------- MODULE DiscussionProperties -------------------------
(***************************************************************************)
(* What a discussion session promises, and what the comments and documents *)
(* of the repository say of it.                                            *)
(***************************************************************************)
EXTENDS Discussion

\* Every variable has its type: the rows, the maps, the loops' local state and
\* the requests of src/council/council.service.ts.
TypeOK ==
  /\ status \in Statuses \cup {Deleted}
  /\ agreed \in BOOLEAN
  /\ said \in Nat /\ asked \in Nat /\ autoPolls \in Nat
  /\ posted \in Seq(Interventions)
  /\ spoken \subseteq Nat
  /\ flag \in {"none", "running", "paused", "stopped"}
  /\ resolver \subseteq Starts
  /\ queue \in Seq(Interventions)
  /\ live \subseteq Starts
  /\ stallCount \in Nat
  /\ pc \in [Starts -> Pcs]
  /\ turn \in [Starts -> 0 .. NExperts - 1]
  /\ round \in [Starts -> Nat]
  /\ batch \in [Starts -> Seq(Interventions)]
  /\ exit \in [Starts -> Exits]
  /\ reason \in [Starts -> Reasons]
  /\ ctl \in [Controls -> ControlPcs]
  /\ iv \in [Interventions -> SentStates]
  /\ acks \in Seq(Interventions)

\* Where a loop stores an intervention there is one left to store, although
\* requests and other loops change the queue meanwhile (processInterventions).
CommitHasHead ==
  \A l \in Starts : pc[l] = "interveneCommit" => batch[l] # <<>>

------------------------------------------------------------------------------
(* Safety. *)

\* A session never stores more than maxMessages messages, whoever writes them:
\* expert turns, interventions and poll prompts of any number of loops
\* (MessageService.create, the loop's own count being stale when it writes).
MessageLimit == Count <= MaxMessages

\* A loop that waits for the end of a pause can be woken: its promise is the one
\* in the slot and the flag is one that resume and stop accept
\* (waitWhilePaused, resumeDiscussion, stopDiscussion).
NoLostWakeup ==
  \A l \in Starts : pc[l] = "waiting" => flag = "paused" /\ resolver = {l}

\* A loop is under control as long as it runs, and only then: a pause or stop is
\* accepted exactly when there is a loop to obey it (the flag is set at the
\* launch and deleted on both ways out of runDiscussionLoop).
FlagMeansLoop ==
  flag # "none" <=> \E l \in Starts : Running(l)

\* Two loops never run for one session: startDiscussion requires PENDING and
\* leaves PENDING (council.service.ts:213, "Session must be in pending status").
AtMostOneLoop ==
  \A k, l \in Starts : Running(k) /\ Running(l) => k = l

\* The reason of SESSION_ENDED is true of the session: max_messages when it is
\* full, consensus when a round that experts spoke in was agreed on, cancelled
\* only after a stop - or when the session was deleted under the loop.
ReasonIsTrue ==
  \A l \in Starts : pc[l] \in {"ended", "done"} /\ status # Deleted =>
    /\ reason[l] = "max_messages" => Count = MaxMessages
    /\ reason[l] = "consensus" => round[l] - 1 \in spoken
    /\ reason[l] = "cancelled" => exit[l] = "stopped"

\* A session that ends COMPLETED says that consensus was reached exactly when its
\* loop ended for that, whatever pause and resume requests were writing at the
\* time (concludeSession writes both columns, the requests one).
AgreedIsTrue ==
  \A l \in Starts : pc[l] = "done" /\ status = "COMPLETED" =>
    (agreed <=> exit[l] = "consensus")

\* Interventions are stored in the order they were acknowledged, none twice,
\* although requests push to the array the loop is iterating over
\* (queueIntervention, processInterventions).
PostedInOrder ==
  \A j, k \in 1 .. Len(posted) : j < k =>
    \E m, n \in 1 .. Len(acks) :
      m < n /\ posted[j] = acks[m] /\ posted[k] = acks[n]

\* A message is never added to a session that is COMPLETED or CANCELLED, although
\* MessageService.create checks the status before its transaction.
NoMessageWhenTerminal ==
  [][Count' > Count => status \notin Terminal]_vars

------------------------------------------------------------------------------
(* Liveness, under Fairness. *)

\* An accepted stop ends the discussion: the flag disappears with the loop
\* (stopDiscussion only sets the flag; the loop must see it).
StopEnds == flag = "stopped" ~> flag = "none"

\* A discussion whose experts never answer with an empty reply comes to its end
\* unless a pause holds it: replies fill the session, failures stall it.
Terminates ==
  \A l \in Starts : pc[l] = "count" ~> pc[l] \in {"waiting"} \cup Over

------------------------------------------------------------------------------
(* What comments and documents say and the code does not do. *)

\* council.service.ts:57, of pause: "The loop will stop after the current expert
\* turn completes."  So a turn whose reply arrives while the session is paused
\* does not fail for that.
PausedTurnCompletes ==
  [][ \A l \in Starts : pc[l] = "create" /\ flag = "paused" /\ status = "PAUSED"
        => pc'[l] # "fatal" ]_vars

\* README.md:435: "COMPLETED: Discussion concluded (consensus reached or message
\* limit hit)".  So once SESSION_ENDED has announced either, the row says so.
ConcludedIsCompleted ==
  \A l \in Starts :
    /\ pc[l] = "done"
    /\ reason[l] \in {"consensus", "max_messages"}
    /\ \A c \in Controls : ctl[c] = "idle"
    => status \in {"COMPLETED", Deleted}

\* README.md:426-427: "Discussions also conclude if the session's maxMessages limit
\* is reached: Session status transitions to COMPLETED".  With experts that always
\* answer and nobody stopping the session, a full one ends COMPLETED.
FullIsCompleted ==
  \A l \in Starts : pc[l] \in Over /\ Count = MaxMessages => status = "COMPLETED"

\* README.md:554: "Interventions are queued and processed before the next expert
\* turn".  So at a turn every acknowledged intervention has been processed or is
\* in the queue.
AcknowledgedIsProcessed ==
  \A l \in Starts : pc[l] = "turn" =>
    \A i \in Interventions :
      iv[i] = "queued" => \E k \in 1 .. Len(queue) : queue[k] = i

\* README.md:336: "Configurable limits prevent infinite discussions".
LimitEndsDiscussion == Terminates
==============================================================================

------------------------------ MODULE Comparison ------------------------------
(***************************************************************************)
(* A comparison session: ComparisonService.startComparison asks every      *)
(* expert at once (src/council/comparison.service.ts), and each answer is  *)
(* stored by MessageService.create in a serializable transaction of its    *)
(* own.  An action is the code between two awaits.                         *)
(*                                                                         *)
(* The messages of a comparison are the experts' answers: no loop stores   *)
(* interventions, and nothing sets a control flag for it to be paused by.  *)
(***************************************************************************)
EXTENDS Naturals, FiniteSets, SessionStatus

CONSTANTS
  Starts,       \* start requests
  Experts,      \* experts of the session
  MaxMessages,  \* session.maxMessages
  Faults        \* subset of {"crash", "database", "remove"}

ASSUME ExpertsAssumption == IsFiniteSet(Experts) /\ IsFiniteSet(Starts)
ASSUME LimitAssumption   == MaxMessages \in Nat
ASSUME FaultAssumption   == Faults \subseteq {"crash", "database", "remove"}

VARIABLES
  status,  \* session.status
  stored,  \* the messages of the session: <<start, expert>> of each
  pc,      \* where a start request is
  task,    \* where the call for an expert is
  seen,    \* the message count its transaction read
  sent     \* starts whose ALL_RESPONSES_RECEIVED was sent, with what it carried

vars == <<status, stored, pc, task, seen, sent>>

Tasks == Starts \X Experts

StartPcs == {"idle", "update", "write", "asking", "finish", "finishWrite",
             "done", "failed", "lost"}
Settled  == {"fulfilled", "rejected"}
TaskPcs  == {"none", "chat", "create", "count", "insert", "stored"} \cup Settled

Count == Cardinality(stored)

Goto(s, where) == pc' = [pc EXCEPT ![s] = where]
Move(t, where) == task' = [task EXCEPT ![t] = where]

\* A task runs as long as its start request was not lost with the process.
Runs(t, where) == task[t] = where /\ pc[t[1]] # "lost"

Init ==
  /\ status = "PENDING"
  /\ stored = {}
  /\ pc = [s \in Starts |-> "idle"]
  /\ task = [t \in Tasks |-> "none"]
  /\ seen = [t \in Tasks |-> 0]
  /\ sent = [s \in Starts |-> {}]

(***************************************************************************)
(* startComparison up to the dispatch.  A request that finds another       *)
(* status is rejected and changes nothing.                                 *)
(***************************************************************************)
Start(s) ==
  /\ pc[s] = "idle"
  /\ status = "PENDING"
  /\ Goto(s, "update")
  /\ UNCHANGED <<status, stored, task, seen, sent>>

StartUpdate(s) ==
  /\ pc[s] = "update"
  /\ Goto(s, IF ValidTransition(status, "ACTIVE") THEN "write" ELSE "failed")
  /\ UNCHANGED <<status, stored, task, seen, sent>>

\* The write, COMPARISON_STARTED, and every driver.chat at once.
StartWrite(s) ==
  /\ pc[s] = "write"
  /\ status' = Written(status, "ACTIVE")
  /\ IF status = Deleted
       THEN Goto(s, "failed") /\ UNCHANGED task
       ELSE /\ Goto(s, "asking")
            /\ task' = [t \in Tasks |-> IF t[1] = s THEN "chat" ELSE task[t]]
  /\ UNCHANGED <<stored, seen, sent>>

(***************************************************************************)
(* The call for one expert.                                                *)
(***************************************************************************)

\* The driver is created and asked; an error or an invalid response rejects.
Chat(t) ==
  /\ Runs(t, "chat")
  /\ Move(t, "create") \/ Move(t, "rejected")
  /\ UNCHANGED <<status, stored, pc, seen, sent>>

\* MessageService.create: the session must be ACTIVE.
Create(t) ==
  /\ Runs(t, "create")
  /\ Move(t, IF status = "ACTIVE" THEN "count" ELSE "rejected")
  /\ UNCHANGED <<status, stored, pc, seen, sent>>

\* Mutant: the count leaves out the message to come twice over.
CountMessagesShort(t) ==
  /\ Runs(t, "count")
  /\ Move(t, "insert")
  /\ seen' = [seen EXCEPT ![t] = Count - 1]
  /\ UNCHANGED <<status, stored, pc, sent>>

\* Its transaction counts the messages ...
CountMessages(t) ==
  /\ Runs(t, "count")
  /\ IF Count >= MaxMessages
       THEN Move(t, "rejected") /\ UNCHANGED seen
       ELSE Move(t, "insert") /\ seen' = [seen EXCEPT ![t] = Count]
  /\ UNCHANGED <<status, stored, pc, sent>>

\* Mutant: a transaction that is not serializable inserts on a stale count.
InsertCommitted(t) ==
  /\ Runs(t, "insert")
  /\ IF status # Deleted
       THEN Move(t, "stored") /\ stored' = stored \cup {t}
       ELSE Move(t, "rejected") /\ UNCHANGED stored
  /\ UNCHANGED <<status, pc, seen, sent>>

\* ... and inserts.  When another insert was committed since the count, the
\* database aborts this transaction: create has no retry, so the answer is lost.
Insert(t) ==
  /\ Runs(t, "insert")
  /\ IF status # Deleted /\ Count = seen[t]
       THEN Move(t, "stored") /\ stored' = stored \cup {t}
       ELSE Move(t, "rejected") /\ UNCHANGED stored
  /\ UNCHANGED <<status, pc, seen, sent>>

\* The message joins completedMessages and RESPONSE_RECEIVED is sent.
Respond(t) ==
  /\ Runs(t, "stored")
  /\ Move(t, "fulfilled")
  /\ UNCHANGED <<status, stored, pc, seen, sent>>

(***************************************************************************)
(* After Promise.allSettled: a COMPARISON_ERROR for each rejection,        *)
(* ALL_RESPONSES_RECEIVED with the completed messages, the final update.   *)
(***************************************************************************)
Completed(s) == {t \in Tasks : t[1] = s /\ task[t] = "fulfilled"}

\* Mutant: the calls are started but not awaited.
GatherUnawaited(s) ==
  /\ pc[s] = "asking"
  /\ sent' = [sent EXCEPT ![s] = Completed(s)]
  /\ Goto(s, "finish")
  /\ UNCHANGED <<status, stored, task, seen>>

\* Mutant: Promise.all instead of allSettled, so that a rejection is thrown.
GatherAll(s) ==
  /\ pc[s] = "asking"
  /\ \/ /\ \A e \in Experts : task[<<s, e>>] = "fulfilled"
        /\ sent' = [sent EXCEPT ![s] = Completed(s)]
        /\ Goto(s, "finish")
     \/ /\ \E e \in Experts : task[<<s, e>>] = "rejected"
        /\ Goto(s, "failed")
        /\ UNCHANGED sent
  /\ UNCHANGED <<status, stored, task, seen>>

Gather(s) ==
  /\ pc[s] = "asking"
  /\ \A e \in Experts : task[<<s, e>>] \in Settled
  /\ sent' = [sent EXCEPT ![s] = Completed(s)]
  /\ Goto(s, "finish")
  /\ UNCHANGED <<status, stored, task, seen>>

\* A rejected update leaves startComparison by an exception.
Finish(s) ==
  /\ pc[s] = "finish"
  /\ Goto(s, IF ValidTransition(status, "COMPLETED") THEN "finishWrite" ELSE "failed")
  /\ UNCHANGED <<status, stored, task, seen, sent>>

FinishWrite(s) ==
  /\ pc[s] = "finishWrite"
  /\ status' = Written(status, "COMPLETED")
  /\ Goto(s, IF status = Deleted THEN "failed" ELSE "done")
  /\ UNCHANGED <<stored, task, seen, sent>>

(***************************************************************************)
(* The environment.                                                        *)
(***************************************************************************)
Remove ==
  /\ "remove" \in Faults
  /\ status # Deleted
  /\ status' = Deleted
  /\ stored' = {}
  /\ UNCHANGED <<pc, task, seen, sent>>

Crash ==
  /\ "crash" \in Faults
  /\ pc' = [s \in Starts |-> IF pc[s] \in {"idle", "done", "failed"} THEN pc[s]
                             ELSE "lost"]
  /\ UNCHANGED <<status, stored, task, seen, sent>>

\* A database call fails: in a task it rejects the task; in the request itself,
\* which has no task under way then, it leaves by an exception.
DatabaseError ==
  /\ "database" \in Faults
  /\ \/ \E t \in Tasks : /\ \E where \in {"create", "count", "insert"} : Runs(t, where)
                         /\ Move(t, "rejected")
                         /\ UNCHANGED pc
     \/ \E s \in Starts : /\ pc[s] \in {"update", "write", "finish", "finishWrite"}
                          /\ Goto(s, "lost")
                          /\ UNCHANGED task
  /\ UNCHANGED <<status, stored, seen, sent>>

------------------------------------------------------------------------------
TaskNext(t) == Chat(t) \/ Create(t) \/ CountMessages(t) \/ Insert(t) \/ Respond(t)

RequestNext(s) == StartUpdate(s) \/ StartWrite(s) \/ Gather(s) \/ Finish(s)
                    \/ FinishWrite(s)

Next ==
  \/ \E s \in Starts : Start(s) \/ RequestNext(s)
  \/ \E t \in Tasks : TaskNext(t)
  \/ Remove \/ Crash \/ DatabaseError

Spec == Init /\ [][Next]_vars

\* The drivers bound their retries and time out, so every call settles, and a
\* continuation that is due runs.
Fairness ==
  /\ \A s \in Starts : WF_vars(RequestNext(s))
  /\ \A t \in Tasks : WF_vars(TaskNext(t))

FairSpec == Spec /\ Fairness

------------------------------------------------------------------------------
\* Every variable has its type (startComparison's local state and the rows).
TypeOK ==
  /\ status \in Statuses \cup {Deleted}
  /\ stored \subseteq Tasks
  /\ pc \in [Starts -> StartPcs]
  /\ task \in [Tasks -> TaskPcs]
  /\ seen \in [Tasks -> Nat]
  /\ sent \in [Starts -> SUBSET Tasks]

\* The experts' answers, stored in parallel by transactions that each count
\* first, never exceed maxMessages (MessageService.create, "Use transaction with
\* Serializable isolation to prevent race conditions").
MessageLimit == Count <= MaxMessages

\* The requests that got as far as asking the experts.
Launched == {s \in Starts : \E e \in Experts : task[<<s, e>>] # "none"}

\* What ALL_RESPONSES_RECEIVED carries is what was stored for this start: no
\* answer in the database is missing from it and none is announced that is not
\* there, unless the session was deleted.
SentIsStored ==
  \A s \in Starts : pc[s] \in {"finish", "finishWrite", "done"} /\ status # Deleted =>
    sent[s] = {t \in stored : t[1] = s}

\* A comparison that one request launched takes no answer any more once it is
\* COMPLETED (the update comes after Promise.allSettled).
CompletedIsFinal ==
  [][Cardinality(Launched) = 1 /\ status = "COMPLETED" => stored' \subseteq stored]_vars

\* Whatever experts and transactions fail, a comparison that became ACTIVE ends
\* COMPLETED - unless it was deleted, or the request itself was lost to a fault
\* ("should persist partial results when one expert fails").
Completes ==
  status = "ACTIVE" ~>
    status \in {"COMPLETED", Deleted} \/ \E s \in Starts : pc[s] = "lost"
==============================================================================

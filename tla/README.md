# A verification of the AI Council

TLA+ modules that model the backend's core and the browser pages that show it, as they
are written in the repository, TLC runs
that check them on small instances, and TLAPS proofs of what holds for every
instance. `PROJECT.json` maps each definition to the lines it stands for.

Source paths are relative to the repository: the backend is `src/`, the browser
application `frontend/`.

## The system

Users configure *experts* (an LLM, a system prompt, a memory) and open *sessions*
in which several experts discuss a problem in turns (DISCUSSION) or answer it side
by side (COMPARISON). One Node process serves REST and WebSocket requests, keeps
rows in PostgreSQL through Prisma and calls the LLM vendors over HTTP. Node runs one
callback at a time, so everything hard happens at an `await`: between the read a
decision rests on and the write it leads to, any other request, loop or callback
may run. There is no lock in the code; the only transaction is the one in
`MessageService.create`.

| Part | State | Operations | Talks to |
|---|---|---|---|
| CouncilService (`src/council/council.service.ts`) | maps per session: control flag, intervention queue, resolver of a paused loop | start, the discussion loop, pause, resume, stop, queue an intervention, conclude | SessionService, MessageService, ConsensusService, MemoryService, drivers; events to the gateway |
| ComparisonService (`src/council/comparison.service.ts`) | local to one call | start: ask all experts at once, store, announce, complete | SessionService, MessageService, drivers; events |
| SessionService (`src/session/session.service.ts`) | the session row: status, consensusReached | create, find, update with a transition check, remove | PostgreSQL |
| MessageService (`src/message/message.service.ts`) | the message rows | create (status check, then a serializable transaction that counts and inserts), count, find | PostgreSQL |
| ConsensusService (`src/consensus/consensus.service.ts`) | stalled rounds per session; polls, votes, evaluations and outcomes as rows | evaluate a round, detect stalls, polls, votes, summary | drivers, PostgreSQL; events |
| MemoryService (`src/memory/memory.service.ts`) | the memory rows of an expert | notes, generation after a session, pruning, choice for a prompt | drivers, PostgreSQL |
| DiscussionGateway (`src/council/gateways/discussion.gateway.ts`) | socket rooms | connect (with a status snapshot), join, leave, start, control, intervene; broadcasts every event | CouncilService, ComparisonService, browsers |
| Browser hook and session page (`frontend/src/hooks/use-websocket.ts`, `pages/SessionDetailPage.tsx`, `components/sessions/`) | the page's copy of status, messages, polls; the promise of a sent intervention | handlers for every event, merge with what was fetched, buttons, send with a timeout | the gateway, by socket; REST |
| Retry utility (`src/llm/utils/retry.util.ts`) | local: attempt, elapsed time | retry with backoff, Retry-After and a total budget | called by the drivers |
| Drivers, factory (`src/llm/`) | none | one chat call each, errors mapped to exceptions | vendor libraries |
| ExpertService (`src/expert/`), analytics (`src/analytics/`) | rows of experts; none | create, clone, update, remove; four lists over a range of days | PostgreSQL |
| List pages (`frontend/src/pages/ExpertsPage.tsx`, `SessionsPage.tsx`, `AnalyticsPage.tsx`, their dialogs) | the rows fetched, the filter, the dialog open | fetch, refresh, filter, create, edit, delete | REST |
| Authentication, rendering | none | token checks; functions of properties | - |

### What is hard, and what makes each part right

* **The discussion loop.** It runs unobserved for minutes, alternating LLM calls and
  database calls, while pause, resume, stop, interventions, deletion and a second
  start arrive at any await. The flag in memory and the status in the row are
  written at different moments by different callers. It is right if a waiting loop
  can always be woken, a flag exists exactly while there is a loop to obey it, the
  message limit holds, no message is added to an ended session, the announced
  reason and the stored outcome are true, interventions are stored once and in
  order, a stop ends the discussion, and a discussion comes to its end.
* **Status updates.** `update` reads, validates, awaits and writes: two updates can
  both validate against the old status.
* **Messages.** Expert turns, interventions, poll prompts and parallel answers
  compete for the last free message. `create` checks the status outside its
  transaction and the count inside.
* **Comparison.** Calls fail one by one, transactions abort one another; the
  announcement must still carry what was stored and the session must complete.
* **Memories.** Prunes of one expert overlap when several of its sessions end or a
  note is added meanwhile. They are right if they never take a note and leave the
  expert within its limit.
* **Polls and votes.** Votes are extracted from messages by tasks nobody awaits; one
  vote per expert and poll, none passed over, none from a reply after the poll's round.
  Every round is to be evaluated, once, from its replies and no others, and the summary
  is to count all of them.
* **Status on the page.** The snapshot sent on connection is read before events that
  arrive earlier; some changes of the row are told before they are written, some after,
  some never (a start by REST, an error that ends the discussion). The page keeps two
  variables and a session it fetched once, and offers buttons by all three. It should
  converge to the row, although pauses and resumes of any users overlap and the updates
  of the row with them.
* **Messages and interventions on the page.** A fetch and a socket bring the same
  messages: what is heard once must stay shown, in whatever order they come. The fetch
  runs beside the handshake, so there is a gap between them, and no more may be missed.
  Acknowledgements carry no identifier and race a timeout.
* **An expert's turn.** Attempts, delays and the total time interact: the retries must
  end, within the budget, and not before it is used. The memories injected must be the
  best, within their number and the tokens.
* **Lists.** Fetches overtake each other, requests succeed although their answers are
  lost, and others change the rows between two reads of one page; a session is created
  from experts looked up before its transaction.

`PROJECT.json` lists each hazard at its line with the properties that cover it.

## The plan

| | Module | What | State |
|---|---|---|---|
| 1 | `SessionStatus` | the status machine, shared | done |
| 2 | `Discussion`, `DiscussionProperties` | the loop, its control, interventions, rounds, polls, faults | done |
| 3 | `DiscussionLifecycle`, `DiscussionRefinement` | the abstract session and the refinement mapping | done; its fairness only checked |
| 4 | `DiscussionProofs` | types, limit, wake-up, flag, reason, outcome, end, interventions, refinement | done |
| 5 | `Comparison`, `ComparisonProofs` | parallel answers | done; completion only checked |
| 6 | `ExpertMemory`, `ExpertMemoryProofs` | notes, generation, pruning | done |
| 7 | `Polls`, `PollsProofs` | rounds, evaluations, the automatic and users' polls, votes extracted and a summary made by tasks nobody awaits | done |
| 8 | `PageConnection`; `SessionPage`, `SessionPageProofs` | the page's socket and its room; what the page believes of the status, and what it offers | done |
| 9 | `PageMessages`, `PageMessagesProofs` | the messages shown, interventions and their answers | done; the end of a wait only checked |
| 10 | `ExpertTurn`, `ExpertTurnProofs` | one turn: memories, driver, retries, exceptions | done; `TurnEnds` only checked |
| 11 | `Catalog`; `ListPage`, `ListPageProofs` | experts and sessions as rows; a page that lists them | done |
| 12 | further proofs | measures that every step lowers, which are the safety half of an end: done for a turn of an expert (`StepsRunOut`), planned for a comparison and for a loop without empty replies |

How they fit together: `Discussion` has an expert's turn, an evaluation and a poll's
prompt in one step each, with every outcome they have. `ExpertTurn` opens the turn,
`Polls` what the loop leaves behind without awaiting it, `ExpertMemory` what the end of a
session starts. `SessionPage` and `PageMessages` both extend `PageConnection`, and see
the session from outside: the changes of its row, and the events. `ListPage` extends
`Catalog`, so that a page and the rows behind it are one specification.

## The modules

All modules follow one convention. An action is the code between two awaits; what a
guard reads is what the code reads at that point. A request that is rejected and
changes nothing is no action. A database call takes effect in the action that
follows its await; a value it returned is kept in the program counter (`"commit"`
after a status check that passed) or in a variable (`seen`, `excess`), never
re-read. Definitions named *Mutant* are slips of the code that the properties were
tried against; no specification uses them.

### SessionStatus

`Successors` is `validateStatusTransition`, `ValidTransition` the check in `update`
(a status is its own successor, a missing row an exception), `Written` its write,
which has no effect on a deleted row.

### Discussion

One session. The variables are three groups: the rows (`status`, `agreed`, the
numbers of expert messages `said` and prompts `asked`, the stored interventions
`posted`, the automatic polls `autoPolls`, the rounds with a message `spoken`), the maps of
CouncilService and ConsensusService at this session (`flag`, `resolver`, `queue`,
`stallCount`), and the local state of every loop (`pc`, `turn`, `round`, `batch`,
`exit`, `reason`). A start request and the loop it becomes are one element of
`Starts`, so two accepted starts are two loops over the same maps.

Three points are worth knowing.

* `processInterventions` iterates over the very array that `queueIntervention` pushes
  to: a push during the iteration is seen by it. `batch` is what the iterator has left
  and `live` says which loops iterate over the array that is in the map now;
  `startDiscussion` and the end of an iteration put a new array there.
* `pauseResolvers` holds one function per session. `resolver` names the loop it
  belongs to.
* The evaluator's answer is any combination of its fields over `Scores`, and the
  fallback that stands for every error. Scores are tenths.

The start's status read and its write are three steps (`StartRead`, `StartUpdate`,
`StartWrite`), the loop's body one action per await, the conclusion and the outer
catch likewise. `Pause`, `Resume` and `Stop` change the maps at once; the row of a
pause or resume follows by `ControlRead` and `ControlWrite`. The environment deletes
the session (or an expert of it, which `LoopCreate` then refuses), fails a database call or kills the process (`Crash` empties the maps and
keeps the rows: nothing resumes a discussion at start-up).

### DiscussionLifecycle and DiscussionRefinement

The session as its user understands it: pending, running, paused, stopped, over; a
turn begins only while it is running, so at most the turn under way adds a message
after a pause or stop; a stopped session comes to its end. The mapping takes the
flag for the phase and counts a turn as under way from the moment the loop is past
its flag test until the reply is stored or given up.

### Comparison

`startComparison` with one task per start and expert. `Gather` is
`Promise.allSettled` returning. The serializable transaction is `CountMessages` and
`Insert`: an insert whose count another transaction outdated is aborted, and because
`create` does not retry, the answer is lost.

### ExpertMemory

One expert's memories, and the requests that create them: a note, or the generation
for an ended session (LLM call, a summary, up to five insights, then a prune). A prune
is three calls: `CountEntries`, `Select`, `Delete`. The score an entry sorts by
depends on the time and on updates, so `Select` may choose any `excess` of the
entries that are not notes. `update` changes nothing else and has no action.

### ExpertTurn

`getRelevantMemories` (scores in tenths, one reading of the ranking for each order that
`sort` may return), `createDriver`, `retryWithBackoff` around the call, `mapError` and
the loop's classes of exceptions. Time passes where the code lets it: during an attempt
(`Durations`), during a wait, and by as much as a timer is late. `isRetryableError` and
`mapError` classify errors apart from each other, so they are two operators: an error
such as 404 is not retried, and yet is an `LLMServiceException`, which the loop takes for
one that may pass. The service drops memories whose score is not above 0.1
(`memory.service.ts:165`), of which the design document says nothing; `Candidates` are those
that are left of `Fetched`.

### Polls

The loop is reduced to the order of its turns and rounds; what it writes are sequences
of messages, polls and evaluations and a set of votes. `extracting` are the calls of
`extractVote` that nobody awaits, `summarizing` and `transcript` the two awaits of
`generateSummary`. `votes` and `evaluations` carry as history what each was made from, and
`evaluated` the round the evaluator was last asked about, since one that fails leaves no row.
A user's poll is a row and no more: nothing injects its proposal, no reply is read for a
vote on it, and as `closePoll` has no caller it stays open; the design document says otherwise
(`Polls_users` below).
`SkipEmpty` is an empty reply, which passes the end of the round by: an expert then speaks
twice in one round, and the second vote is refused by the unique key.

### PageConnection, SessionPage, PageMessages

A page asks for a token, connects, is put into the room, may lose the connection and
connect again with a new socket, and may be left at any point. `room` has the newest socket
only, since what an older one still receives reaches nobody. A socket is a FIFO and a
handler only folds its event into the state, so an event is applied in the step that
emits it; what may come late are the steps themselves: a report of the status is *taken*
when the row is read or written and *told* when its event is emitted.

`SessionPage` has both of the page's variables, the session fetched once, the snapshot of
the newest socket's `handleConnection`, and the row with the writers that move it. Every write
is a `SessionService.update`: a read that validates and a later write, either of which may
fail, for the end of a discussion (`ConcludeRead`, `ConcludeWrite`, `FailRead`, `FailWrite`), of a
comparison (`CompleteRead`, `CompleteWrite`) and for every pause and resume (`ControlRead`,
`ControlWrite`). Nothing keeps pauses and resumes apart but the flag, which `HandleControl` sets at
once, so as many are under way as there are `Controls`. `overtaken` and `doubt` are history:
the reports that a newer one was told before, and whether the page missed a report or heard
one out of order. Without them no statement about the view would be true,
because REST starts and the fatal path of the loop emit no event, `session-ended` is emitted
after a refused update, and `comparison-complete` before its update.

Two things the code does are excepted by name from what the page is said to show and offer.
`Orphaned` is a row that is open and that nothing runs: the update to its last status was rejected,
or a pause or resume that had validated before was written over it (pause and conclusion both
read ACTIVE, COMPLETED is written and `session-ended` told, then PAUSED is written and told: the
page shows a paused discussion that is not active). `astray` is history and says that
updates of pauses and resumes overlapped or one was rejected, so that the row need not follow the
flag: after a resume and a pause of which the pause is written first, the row is ACTIVE under a paused
flag, and the page offers a Pause that the council refuses (`SessionPage_overlapping` below).

`PageMessages` has the messages by number, `heard` by socket and fetched up to `mread`,
and the interventions with the promise of each; `earlier` is history, what had been
announced when the page last joined the room. `Answer` settles whichever promise waits,
as `intervention-queued` does.

### Catalog and ListPage

`Catalog` is the rows and their foreign keys; a session is posted in two steps, the
look-up of its experts and the transaction. `ListPage` is one page of three kinds: `answer`
holds what every fetch under way has brought, `shown` what is rendered and of which fetch.
`op` are the changes its user submitted; the client gives up on a request after 30 s
whether or not the server has served it (`Fail`). The date inputs are midnights UTC, so
that `InRange` leaves out the last day: that is what the code does, in all four services
alike. A part has `rows`, the sessions it lists or counts, and `figures`, those whose metrics or
messages it adds up. They are the same but for two: `getOverview` drops its condition when no
session is in the range and adds up all of them, and `getExpertsList` reads all messages of
the experts it has come to. The queries of one part are one step.

## What is checked

TLC with two workers, the longest run about a minute.

| Run | Instance | What it shows |
|---|---|---|
| `discussion_core` | one start, one control requester that repeats, two interventions, two experts, 3 messages, all replies, crash and deletion | `MessageLimit`, `NoLostWakeup`, `FlagMeansLoop`, `ReasonIsTrue`, `AgreedIsTrue`, `PostedInOrder`, `NoMessageWhenTerminal` |
| `discussion_live` | one of each, 2 messages, no empty replies, failing database | `StopEnds`, `Terminates`, `ImplementsLifecycle` |
| `comparison` | two starts, two experts, 3 messages, every fault | `MessageLimit`, `SentIsStored`, `CompletedIsFinal`, `Completes` |
| `expert_memory` | one note, two sessions with up to one insight, limit 2, every event | `NotesAreSafe`, `BoundedAtRest` |
| `expert_turn` | three driver types of which two have keys, three memories of four kinds, 2 retries, 4 units of total time, timers one unit late | `WithinBudget`, `GivenUpMeansTried`, `BestMemories`, `TurnEnds` |
| `polls` | two experts, 3 rounds, 6 messages, a user's poll, deletions and a crash | `VotesOfRound`, `EachReplyCounts`, `EvaluationIsOfRound`, `SummaryIsComplete` |
| `session_page` | a discussion or a comparison, two pauses or resumes under way at once, updates that fail, two connections | `ViewIsCurrent`, `PauseIsAccepted` |
| `page_messages` | one message, three interventions, two connections | `MissedBeforeJoining`, `AcksAreHonest`, `SendSettles` |
| `list_pages` | two experts, two sessions, two days, 3 fetches of the experts and 2 of the others, one range besides none, 2 changes of the page, one by others, one lost answer | `SessionsAreWhole`, `LatestIsCurrent`, `PartsAgree` |

Each also checks `TypeOK` where the module has one, except `discussion_live`. And three
runs in which TLC finds what a comment or a text of the page says not to hold:

| Run | What is said | What happens |
|---|---|---|
| `discussion_double_start` | "Session must be in pending status" (`council.service.ts:213`) | two starts both read PENDING and launch two loops |
| `discussion_paused_turn` | "The loop will stop after the current expert turn completes" (`council.service.ts:57`) | the turn's message is rejected because the session is PAUSED, and the discussion ends CANCELLED |
| `analytics_filter` | "Date filter applies to all data" (`AnalyticsPage.tsx:95`) | the answers for an earlier filter arrive last and are shown under the one that is set |

Twelve more configurations are kept beside them and are not among the runs of `PROJECT.json`;
TLC finds the property of each violated. The hazards of `PROJECT.json` that no property of a run
covers, or not wholly, name them:

| Configuration | What is said | What happens |
|---|---|---|
| `Discussion_concluded` | "COMPLETED: Discussion concluded" (`README.md:435`) | a pause over the conclusion leaves an announced end in status PAUSED |
| `Discussion_full_poll` | the limit transitions to COMPLETED (`README.md:426-427`) | the automatic poll's prompt exceeds the limit and the session is CANCELLED |
| `Discussion_acknowledged` | "Interventions are queued and processed before the next expert turn" (`README.md:554`) | one acknowledged while the session starts is lost with the replaced queue |
| `Discussion_empty_replies` | "limits prevent infinite discussions" (`README.md:336`) | empty replies skip the end of the round and no limit applies |
| `ExpertMemory_overprune` | "Delete the lowest-scored entries until count <= memoryMaxEntries" (`docs/specs/2026-04-11-persistent-expert-memory-design.md:208`) | two prunes delete the same excess twice |
| `SessionPage_left` | "Disconnect socket when sessionId changes", "Cleanup on unmount" (`use-websocket.ts`) | a page left while its token is fetched connects afterwards, and stays connected |
| `SessionPage_overlapping` | a Pause that is offered is one the council accepts, with updates that overlap or fail | a resume and a pause whose updates are written in the other order leave an ACTIVE row under a paused flag |
| `SessionPage_fetched` | the same of Resume and Stop | the status is fetched once: a session fetched PAUSED shows both for ever (`SessionControls.tsx:73`) |
| `PageMessages_gap` | a page on its first connection shows every message announced | a message stored after the fetch has read and announced before the room is joined is neither fetched nor heard (`SessionDetailPage.tsx:72`) |
| `Polls_users` | a user's poll is injected as a message, and each expert's next reply is read for a vote (`docs/specs/2026-04-12-llm-consensus-detection-design.md:165-198`) | `createPoll` writes a row, and nothing else happens |
| `ExpertTurn_top3` | "cap total at 3000 tokens. If exceeded, reduce to top 3" (`docs/specs/2026-04-11-persistent-expert-memory-design.md:162`) | the service takes memories until the first that does not fit: four of five are injected |
| `ListPage_figures` | "Date filter applies to all data" (`AnalyticsPage.tsx:95`) | an overview of a range without sessions adds up all sessions, and an expert's average all of its messages |

### Bounds

* *Experts: 2.* The loop sees the number of experts only through the end of a round; two
  give a turn that ends one and a turn that does not.
* *Messages: 3 (2 for liveness).* Three let a round end with room left, so that an
  evaluation, a poll and its prompt happen before the limit, and let the limit fall
  inside a round and at its end. With empty and failing replies rounds go on without
  messages, so that three stalled rounds happen under any limit. The comparison has
  four answers for three places.
* *Controls: one requester*, which may pause and resume without end: the flag admits a
  pause only while running and a resume only while paused, so a second requester adds
  only two unfinished row updates at a time. `Stop` is always possible.
* *Interventions: 2*, the fewest that have an order.
* *Scores: 0.5, 0.7 and 0.9*, one on each side of the polling score (0.7) and of the
  threshold (0.8).
* *Memories:* three requests with up to five entries and a limit of two, so that two
  and three prunes overlap and a prune can find fewer entries than its excess.
* `stallCount` and `round` need no bound: a discussion stalls or fills before they grow,
  and empty replies do not end rounds.
* *Expert turn:* the waits reach both the largest delay and the total time, a header asks
  for less, as much and more than either, and the memories reach their number and the
  tokens, which one passes by itself.
* *Polls:* six messages leave room for a round, the poll's prompt, a round in which an
  expert speaks twice, and a round after it. `MaxRounds` bounds rounds without replies.
* *Session page: two connections*, so that a snapshot of the first is under way while the
  second hears events, and *two controls*, pauses or resumes under way at once, so that their
  updates and events overlap in every order; requests follow one another without end. One start
  is under way at a time (`discussion_double_start` has two).
* *Page messages: three interventions*, so that an answer that comes after its timeout meets
  the next promise and leaves one more to be misled; one message has every order of its
  fetch, its event and the room.
* *List pages:* with three fetches a refresh is overtaken by the one that follows a change.
  The range that is applied leaves out the sessions of the first day by its `from` and those
  of the second by its `to`; the fetch before it has them all.

The largest instances are `polls` (2.9 million states), `session_page` (2.4 million) and
`discussion_core` (1.7 million). `CHECK_DEADLOCK FALSE` is set everywhere because sessions, turns and bounded
users end.

### Fairness

`Discussion` assumes weak fairness of every step of a loop, of a start once it is past
its first check, of the writes of an accepted control request and of the push after a
checked intervention; `Comparison` of every continuation. That is what Node's event
loop gives a callback that is due, together with two facts of the code: Prisma calls
answer or fail, and the drivers bound their retries (`retry.util.ts`) and use client
time-outs, so that `chat` settles. `ExpertTurn` assumes weak fairness of its one process,
which is where that second fact is shown (`TurnEnds`): an attempt has a client time-out, a
timer fires. `PageMessages` assumes it of the browser's timer alone, and not of the network
or the server. `Polls`, `SessionPage` and `ListPage` assume none. No fairness is assumed of users,
of faults, or of which outcome a call has. `Terminates` excludes empty replies because
the code does not end with them: `Discussion_empty_replies` shows that.

## What is proved

TLAPS checks the proofs for every value of the constants under the assumptions named
in the modules: there is at least one expert, limits, threshold and scores are natural
numbers, the requests of a comparison or of an expert are finite in number, faults and
replies are among those modelled, a memory's relevance is in the range that
`create-memory.dto.ts` admits.

* **Discussion** (`DiscussionProofs`).
  `TypeCorrect`: types are not inductive alone, because `InterveneCommit` takes the head
  of `batch`; the invariant is `TypeInv == TypeOK /\ CommitHasHead`.
  `MessagesAreLimited`: with the types, `MessageLimit` is inductive, because the
  transaction's re-check and its insert are one step; the loop's own earlier count does
  not matter. It holds for any number of loops.
  `WaitersCanBeWoken` and `FlagFollowsLoop`: for one start request. The invariant is
  `ControlInv`: the slot holds exactly the promise of the waiting loop, a loop waits only
  under a pause, a flag exists exactly while the loop runs. The first part is what
  `NoLostWakeup` lacks, since resume and stop move whatever the slot names. With two
  loops both are false, which is the consequence of `discussion_double_start`.
  `ReasonIsAlwaysTrue`: for any number of loops. `ReasonFits` follows each loop from the
  way out it takes (`exit`) to the reason it announces. That a loop keeps its way out while
  others resume and stop rests on `WaitersWait`: the slot only names loops that wait.
  `AgreedIsAlwaysTrue` and `TerminalSessionIsSilent`: for one start request. Both follow from
  `EndInv`: the loop that could still write a message is the one that writes the terminal
  status, and it does so after its last message. With two loops, one concludes while the
  other is between the check of the status and its insert.
  `InterventionsKeepTheirOrder`: for one start request. `OrderInv` says of the stored ones,
  the queue and what the iterator has left that each is in the order of the acknowledgements
  and drawn from them, and that the stored ones precede the rest. A push reaches the
  iterator only while it runs over the array that is in the map, which is what `live` tells.
  `InterventionsAreStoredOnce` adds that an intervention is acknowledged once (`AckedOnce`).
  `LoopImplementsLifecycle`: `Spec => Lifecycle!Spec`, action by action. Its hypotheses are one
  start request, since two loops have two turns under way and the abstract session one, and
  that the session is not deleted, since deleting it takes its messages away and the abstract
  session has no such step. Every other request and fault is included.
* **Comparison** (`ComparisonProofs`).
  `TypeCorrect`, `AnswersAreLimited` (an insert requires that nothing was stored since the
  count, and the count was below the limit: `LimitInv` adds that to `MessageLimit`),
  `AnnouncedIsStored` (`SentInv`: after `Promise.allSettled` a start has no call under way,
  and its fulfilled calls are its stored answers).
  `CompletedStaysFinal`: where one request launched the comparison, it is that one which
  completes it (`CompletedByRequest`, `SettledWhenCompleted`), and no call of its own is left then.
* **ExpertMemory** (`ExpertMemoryProofs`).
  `TypeCorrect` and `NotesAreNeverPruned` from `Inv`. `MemoriesAreBounded`, from `PruneInv`:
  at any time a request has failed, or one that inserted has still to count, or the limit
  holds, or some prune has an excess that covers the entries there are, or has chosen a
  set without which the limit holds. A count hands the obligation to a selection, a
  selection to a deletion; other prunes and the user's deletions only help. It rests on
  facts about cardinalities (`WithinFewer`, `ChosenSuffices`).
* **Polls** (`PollsProofs`).
  `VotesAreOfRound`, `RepliesAreCounted`, `EvaluationsAreOfRound` and `SummariesAreComplete`, from
  one invariant. Its parts: the active poll is the system's of this round or none
  (`PollIsActive`); a call of `extractVote` under way is already the vote of its expert in
  its round (`VotesAreHonest`), which is why it does not matter when it ends; the rounds of
  messages and evaluations never pass the loop's (`RoundsPass`, `OrderInv`), so that no reply
  joins a round that was evaluated, and the rounds of the evaluations grow row by row;
  between two evaluations the loop's round is one more than the round last asked about, so that none
  is left out; the summary is asked for when nothing adds messages any
  more. A removed session leaves nothing behind (`NothingLeft`).
* **ExpertTurn** (`ExpertTurnProofs`).
  `RetriesKeepTheBudget` and `RetriesAreUsedUp`: `RetryInv` says what holds between two steps of the
  retries: a wait has an attempt left and ends within the total time, and what reaches `mapError` was
  retried as far as the options go.
  `BestAreInjected`: the memories taken are a prefix of a ranking within the number and the
  tokens (`TakenIsPrefix`), such a prefix is one of the best (`PrefixIsTop`), and it ends before
  its number only where the next would exceed the tokens (`RelevantIsBest`). `Tokens` is a fold; what
  it gives for every set comes from a table of the sums of all subsets, and that the table and the
  fold agree from a smallest counterexample (`TableExists`, `TablesAgree`, `TokensOfAny`), for which
  the library's facts about well-founded relations are enough.
  `StepsRunOut`: every step of a turn lowers `StepsLeft`, a natural number, so that a turn has
  at most `2 * MaxRetries + 4` steps. What `TurnEnds` adds is that they are taken.
* **SessionPage** (`SessionPageProofs`).
  `ViewsAreCurrent` and `PausesAreAccepted`, for any number of connections and of pauses and resumes
  under way at once, with the exceptions named above. `ViewIsCurrent` speaks of rest; the
  invariant says what a page without doubt believes at any other time (`Agrees`): what the row says,
  unless a pause or resume was written since and is still to be told, and but for the end of a
  comparison, told before it is written, and a discussion that is about to end or was left open
  (`Excused`). A report taken since the last write is true of the row (`CurrentIsRow`). So the report
  of a start or the snapshot, if it was not overtaken, may be believed when it comes
  (`StartAgrees`, `SnapAgrees`), and that of a pause or a resume is about the last write or a later one
  is still owed (`ControlsAgree`). That a Pause is accepted needs besides that the row follows the
  flag one update behind while no updates overlap or fail (`RowFollowsFlag`).
* **PageMessages** (`PageMessagesProofs`).
  `MissesAreBeforeJoining`: from the moment it joined the room, a connection brings what is
  announced, and what was announced before is in `earlier` (`RoomInv`); nothing that was heard is
  taken away by the load. Nothing is assumed of the order of the fetch and the handshake.
  `AcknowledgementsAreHonest`: interventions go out one after the other on connections that grow newer (`AskInv`), so a promise is settled by its own answer or by one
  whose own promise had timed out (`SettledInv`).
* **ListPage** (`ListPageProofs`).
  `SessionsStayWhole`, of the catalog: an expert that was chosen had a row (`ChosenExisted`), so the
  one that the transaction does not find was removed. `AnalyticsAgree`: the parts of a fetch were
  asked for together, and each is faithful to its range for every session that it was asked
  about and that still exists and, where it adds up what it lists, to that (`AgreeInv`), because days never change and experts only leave.
  `NewestIsCurrent`: the newest fetch was sent after every change the page was told of, with the
  filter that is set, and so was what is shown of it (`NewestInv`). That a read of the rows
  tells of a change needs that the server has made it when it is told, and what becomes of a
  row after that (`ChangesTrue`, `RowsAge`).

## What is only checked

Every invariant and every action property that a passing run checks is also proved. Five
properties are left to TLC, on the instances of the table: `StopEnds`, `Terminates`, `Completes`,
`TurnEnds` and `SendSettles`, and of `ImplementsLifecycle` the fairness that the abstract
specification states, whose safety part is `LoopImplementsLifecycle`. All of them rest on fairness, whose
definition contains `ENABLED`, and the prover reasons about neither.

The theorems about one start request of a discussion cover what its passing runs cover: two
requests that are both accepted are two loops over one session, and what becomes of it then
is what `discussion_double_start` is about. `TypeCorrect`, `MessagesAreLimited` and
`ReasonIsAlwaysTrue` hold for any number.

## What is not modelled

* Text: prompts, replies, names, keywords. A reply is stored, empty, or an error of one of
  the classes the drivers tell apart. That Claude is sent an empty list of messages on the
  first turn of a discussion is a matter of the request's content, and is left out.
* The row of a session other than its status, consensus flag, experts and day; experts and
  limits do not change during a session.
* Code without a caller: `closePoll` (the design document has polls closed and their result
  handed to the next evaluation; no poll ever is), `deleteBySession`, `streamChat`, `computeSessionMetrics`.
  The map that `join-session` and `leave-session` keep is written and never read, and the
  page sends neither. The queue of a comparison is written by interventions and never
  read: only their acknowledgement is modelled.
* Sums and averages of the analytics, but for the sessions they are made from;
  `getSessionAnalytics` and `getExpertAnalytics`, which no
  page calls.
* Scheduling below an await: a step is atomic, as Node and the browser make it. One server
  process is modelled; the control maps live in its memory and the code does not support
  several.
* The database beyond what Prisma promises: a read sees committed rows, a serializable
  transaction that conflicts is aborted, a foreign key that refers to nothing undoes it.
* Token checks and throttling, which keep no state of the program's own; that a handshake may be
  refused is in `PageConnection`. Rendering, charts, export, routing and form validation.

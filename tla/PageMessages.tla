----------------------------- MODULE PageMessages -----------------------------
(***************************************************************************)
(* What one browser page shows of the messages of its session, and what    *)
(* becomes of the interventions its user sends: the merge of the messages  *)
(* fetched with those that come by socket                                  *)
(* (frontend/src/pages/SessionDetailPage.tsx), the promise of              *)
(* sendIntervention and the panel that awaits it                           *)
(* (frontend/src/hooks/use-websocket.ts,                                   *)
(* frontend/src/components/sessions/InterventionPanel.tsx) and the         *)
(* gateway's answer (src/council/gateways/discussion.gateway.ts).          *)
(*                                                                         *)
(* Of the session only what this reads is left: whether it takes           *)
(* interventions, and the messages that its loop, its interventions or the *)
(* answers of a comparison add.                                            *)
(***************************************************************************)
EXTENDS PageConnection

CONSTANTS
  MaxMessages,   \* session.maxMessages
  MaxSends       \* interventions the user sends (bound)

ASSUME MessagesAssumption == MaxMessages \in Nat /\ MaxSends \in Nat

Sends == 1..MaxSends

VARIABLES
  (* the session *)
  stage,     \* PENDING; ACTIVE or PAUSED; over
  stored,    \* its messages are 1..stored, in the order of their timestamps
  unsaid,    \* those whose event is to come
  (* the page's messages *)
  heard,     \* those that came by socket
  mread,     \* getSessionMessages returned 1..mread; -1 before
  loaded,    \* the page's load
  (* the interventions *)
  ask,       \* where each is on its way
  asker,     \* the connection it was sent on
  outcome,   \* its promise
  waiting,   \* the one InterventionPanel awaits, 0 when it may send
  (* history, read by the properties only *)
  earlier    \* messages announced before its last connection joined the room

sessionVars == <<stage, stored, unsaid>>
shownVars   == <<heard, mread, loaded>>
askVars     == <<ask, asker, outcome, waiting>>
vars == <<connectionVars, sessionVars, shownVars, askVars, earlier>>

Announced == (1..stored) \ unsaid

Init ==
  /\ ConnectionInit
  /\ stage = "pending" /\ stored = 0 /\ unsaid = {}
  /\ heard = {} /\ mread = -1 /\ loaded = "loading"
  /\ ask = [k \in Sends |-> "unsent"] /\ asker = [k \in Sends |-> 0]
  /\ outcome = [k \in Sends |-> "none"] /\ waiting = 0
  /\ earlier = {}

------------------------------------------------------------------------------
(***************************************************************************)
(* The session.                                                            *)
(***************************************************************************)
\* It starts or ends.
Change ==
  /\ stage' \in CASE stage = "pending" -> {"open", "over"}
                [] stage = "open"    -> {"over"}
                [] stage = "over"    -> {}
  /\ UNCHANGED <<connectionVars, stored, unsaid, shownVars, askVars, earlier>>

Insert ==
  /\ stage = "open" /\ stored < MaxMessages
  /\ stored' = stored + 1
  /\ unsaid' = unsaid \cup {stored'}
  /\ UNCHANGED <<connectionVars, stage, shownVars, askVars, earlier>>

\* 'message' and 'comparison-response', in any order: the answers of a comparison
\* are stored and told in parallel.
Announce(m) ==
  /\ m \in unsaid
  /\ unsaid' = unsaid \ {m}
  /\ heard' = IF Hears THEN heard \cup {m} ELSE heard
  /\ UNCHANGED <<connectionVars, stage, stored, mread, loaded, askVars, earlier>>

(***************************************************************************)
(* The connection.                                                         *)
(***************************************************************************)
Connect ==
  /\ Handshake
  /\ earlier' = Announced
  /\ UNCHANGED <<sessionVars, shownVars, askVars>>

OtherConnection ==
  /\ Silence
  /\ UNCHANGED <<sessionVars, shownVars, askVars, earlier>>

\* The state of the page is gone with it, and nothing awaits a promise any more.
LeavePage ==
  /\ Leave
  /\ heard' = {} /\ mread' = -1 /\ loaded' = "loading"
  /\ waiting' = 0 /\ earlier' = {}
  /\ UNCHANGED <<sessionVars, ask, asker, outcome>>

(***************************************************************************)
(* The messages shown.                                                     *)
(***************************************************************************)
FetchStep ==
  /\ mounted /\ loaded = "loading"
  /\ UNCHANGED <<connectionVars, sessionVars, askVars, earlier>>

ReadMessages ==
  /\ FetchStep
  /\ mread = -1 /\ mread' = stored
  /\ UNCHANGED <<heard, loaded>>

\* Mutant: the messages fetched replace those that came by socket.
LoadReplaces ==
  /\ FetchStep
  /\ mread # -1
  /\ loaded' = "ok"
  /\ heard' = {}
  /\ UNCHANGED mread

\* Some time after the read: the page awaits getSession as well.
Load ==
  /\ FetchStep
  /\ mread # -1
  /\ loaded' = "ok"
  /\ UNCHANGED <<heard, mread>>

LoadFails ==
  /\ FetchStep
  /\ loaded' = "failed"
  /\ UNCHANGED <<heard, mread>>

\* allMessages: the two lists merged by id.
Shown == IF loaded = "ok" THEN (1..mread) \cup heard ELSE {}

(***************************************************************************)
(* The interventions.                                                      *)
(***************************************************************************)
AskStep == UNCHANGED <<connectionVars, sessionVars, shownVars, earlier>>

\* The panel is enabled while isDiscussionActive, which may be late (SessionPage): it
\* may be any value here.
Send(k) ==
  /\ ask[k] = "unsent" /\ \A j \in 1..(k - 1) : ask[j] # "unsent"
  /\ mounted /\ loaded = "ok" /\ conn = "up" /\ waiting = 0
  /\ ask' = [ask EXCEPT ![k] = "sent"]
  /\ asker' = [asker EXCEPT ![k] = gen]
  /\ outcome' = [outcome EXCEPT ![k] = "waiting"]
  /\ waiting' = k
  /\ AskStep

\* queueIntervention: a session that is over, or that cannot be read, refuses.
Intervene(k) ==
  /\ ask[k] = "sent"
  /\ \E queued \in IF stage = "open" THEN BOOLEAN ELSE {FALSE} :
       ask' = [ask EXCEPT ![k] = IF queued THEN "queued" ELSE "refused"]
  /\ UNCHANGED <<asker, outcome, waiting>>
  /\ AskStep

\* Mutant: every answer resolves.
AnswerResolves(k) ==
  /\ ask[k] \in {"queued", "refused"}
  /\ ask' = [ask EXCEPT ![k] = IF ask[k] = "queued" THEN "told queued" ELSE "told refused"]
  /\ IF Hears /\ gen = asker[k] /\ waiting # 0
       THEN outcome' = [outcome EXCEPT ![waiting] = "resolved"] /\ waiting' = 0
       ELSE UNCHANGED <<outcome, waiting>>
  /\ UNCHANGED asker
  /\ AskStep

\* 'intervention-queued' or 'intervention-error', to the connection it was sent on.
\* The answer names no intervention: it settles the promise that waits.
Answer(k) ==
  /\ ask[k] \in {"queued", "refused"}
  /\ ask' = [ask EXCEPT ![k] = IF ask[k] = "queued" THEN "told queued" ELSE "told refused"]
  /\ IF Hears /\ gen = asker[k] /\ waiting # 0
       THEN /\ outcome' = [outcome EXCEPT ![waiting] =
                             IF ask[k] = "queued" THEN "resolved" ELSE "rejected"]
            /\ waiting' = 0
       ELSE UNCHANGED <<outcome, waiting>>
  /\ UNCHANGED asker
  /\ AskStep

\* Mutant: the timer runs only while the socket is connected.
TimeoutConnected ==
  /\ waiting # 0 /\ conn = "up"
  /\ outcome' = [outcome EXCEPT ![waiting] = "timedout"]
  /\ waiting' = 0
  /\ UNCHANGED <<ask, asker>>
  /\ AskStep

\* Mutant: the panel stays disabled after a rejection.
TimeoutOnly ==
  /\ waiting # 0
  /\ outcome' = [outcome EXCEPT ![waiting] = "timedout"]
  /\ UNCHANGED <<ask, asker, waiting>>
  /\ AskStep

\* After INTERVENTION_TIMEOUT_MS, whatever became of the connection.
Timeout ==
  /\ waiting # 0
  /\ outcome' = [outcome EXCEPT ![waiting] = "timedout"]
  /\ waiting' = 0
  /\ UNCHANGED <<ask, asker>>
  /\ AskStep

Next ==
  \/ Change \/ Insert \/ \E m \in unsaid : Announce(m)
  \/ Connect \/ OtherConnection \/ LeavePage
  \/ ReadMessages \/ Load \/ LoadFails
  \/ \E k \in Sends : Send(k) \/ Intervene(k) \/ Answer(k)
  \/ Timeout

Spec == Init /\ [][Next]_vars

\* The browser runs the timers; nothing obliges the network or the server.
FairSpec == Spec /\ WF_vars(Timeout)

------------------------------------------------------------------------------
\* The shape of the page's messages and interventions; what the panel awaits is a
\* promise that waits.
TypeOK ==
  /\ ConnectionTypeOK
  /\ stage \in {"pending", "open", "over"} /\ stored \in 0..MaxMessages /\ unsaid \subseteq 1..stored
  /\ heard \subseteq 1..stored /\ mread \in -1..stored /\ earlier \subseteq 1..stored
  /\ loaded \in {"loading", "ok", "failed"}
  /\ ask \in [Sends -> {"unsent", "sent", "queued", "refused", "told queued", "told refused"}]
  /\ asker \in [Sends -> 0..gen]
  /\ outcome \in [Sends -> {"none", "waiting", "resolved", "rejected", "timedout"}]
  /\ waiting \in {0} \cup {k \in Sends : outcome[k] = "waiting"}
  /\ \A k \in Sends : (ask[k] = "unsent") <=> (outcome[k] = "none")

\* A connected page misses only messages that were stored after its fetch had read and
\* announced before it last joined the room: whatever it is told from then on stays
\* shown, in whatever order the read, the load and the connections come
\* (SessionDetailPage.tsx, 61-112; use-websocket.ts, 90-95).
MissedBeforeJoining ==
  Hears /\ loaded = "ok" => Announced \ Shown \subseteq earlier \ (1..mread)

\* What MissedBeforeJoining allows does happen, on the first connection already: the
\* fetch runs beside the token and the handshake, and nothing fetches again once the
\* page is in the room (SessionDetailPage.tsx, 61-90).
NoGap == Hears /\ gen = 1 /\ loaded = "ok" => Announced \subseteq Shown

\* An intervention the page reports as sent was queued, unless an earlier one on the
\* same connection had timed out: answers carry no identifier, and from then on each
\* may be taken for another's (use-websocket.ts, 253-264).
Queued(k) == ask[k] \in {"queued", "told queued"}

Misled(k) == \E j \in 1..(k - 1) : outcome[j] = "timedout" /\ asker[j] = asker[k]

AcksAreHonest == \A k \in Sends : outcome[k] = "resolved" => Queued(k) \/ Misled(k)

\* The panel does not stay disabled by a promise: whatever becomes of the connection
\* and of the answer, the wait for an intervention ends (use-websocket.ts, 242-245).
SendSettles == (waiting # 0) ~> (waiting = 0)
==============================================================================

------------------------------ MODULE SessionPage ------------------------------
(***************************************************************************)
(* What one browser page believes of the status of its session: the        *)
(* gateway that tells it (src/council/gateways/discussion.gateway.ts), the *)
(* hook that listens (frontend/src/hooks/use-websocket.ts) and the buttons *)
(* the page offers (frontend/src/components/sessions/SessionControls.tsx). *)
(*                                                                         *)
(* The session behind it is Discussion or Comparison, seen from outside:   *)
(* the steps of SessionService.update on its row, the control flag, and    *)
(* the events.  The page's requests are among those of any number of       *)
(* users, who send any request at any time; as many pauses and resumes may *)
(* be under way at once as there are Controls (bound).  One start at a     *)
(* time (bound): Discussion has the two that overlap.  The session is not  *)
(* deleted and the server does not crash; Discussion has both.             *)
(***************************************************************************)
EXTENDS PageConnection, SessionStatus

CONSTANTS
  Types,         \* session types, a subset of AllTypes
  Controls       \* calls of pauseDiscussion and resumeDiscussion under way (bound)

AllTypes == {"DISCUSSION", "COMPARISON"}

ASSUME TypesAssumption == Types \subseteq AllTypes
ASSUME ControlsAssumption == Controls \cap {"start", "end", "snapshot"} = {}

VARIABLES
  (* the session *)
  type,      \* session.type
  status,    \* session.status
  flag,      \* CouncilService's control flag
  loop,      \* where the running discussion or comparison is
  starter,   \* where a start is
  ctl,       \* where each pause and resume is
  (* the gateway *)
  snap,      \* handleConnection of the newest socket: its session read, by value
  (* the page *)
  active,    \* isDiscussionActive
  paused,    \* isPaused
  fetched,   \* the status in the session fetched, or "loading"
  (* history, read by the properties only *)
  current,   \* reports taken since the row was last written
  overtaken, \* reports still to be told when a newer one was
  doubt,     \* the page may have missed a report of the status, or heard one too late
  astray     \* the row need not follow the flag: updates overlapped, or one was rejected

rowVars  == <<type, status>>
runVars  == <<flag, loop, starter, ctl>>
viewVars == <<active, paused>>
reportVars == <<current, overtaken, doubt>>
vars == <<rowVars, runVars, connectionVars, snap, viewVars, fetched, reportVars, astray>>

Open == {"ACTIVE", "PAUSED"}

(***************************************************************************)
(* Reports of the status.  A report is taken when the row is read or       *)
(* written and told when its event is emitted.                             *)
(***************************************************************************)
Taken == (IF starter \in {"written", "launched"} THEN {"start"} ELSE {})
         \cup (IF loop = "ended" THEN {"end"} ELSE {})
         \cup (IF snap \in Statuses THEN {"snapshot"} ELSE {})
         \cup {c \in Controls : ctl[c] \in {"paused", "resumed"}}

\* The row is written; the report is what its event will say.
Write(report, to) ==
  /\ status' = to
  /\ current' = {report}
  /\ UNCHANGED <<viewVars, overtaken, doubt>>

\* The row is written, and no event tells it.
WriteSilently(to) ==
  /\ status' = to
  /\ current' = {}
  /\ overtaken' = overtaken \cup Taken
  /\ doubt' = TRUE
  /\ UNCHANGED viewVars

\* A report is told: those taken earlier will come late.  Of two that were both taken
\* before the last write, either may be the earlier.
Overtake(report) ==
  overtaken' = (overtaken \cup (Taken \ current)) \ {report}

\* The page hears of the status; a complete event sets both of its variables.
Hear(late, complete, nowActive, nowPaused) ==
  IF Hears
    THEN /\ active' = nowActive
         /\ paused' = nowPaused
         /\ doubt' = (late \/ (doubt /\ ~complete))
    ELSE UNCHANGED <<viewVars, doubt>>

Tell(report, complete, nowActive, nowPaused) ==
  /\ Hear(report \in overtaken, complete, nowActive, nowPaused)
  /\ Overtake(report)
  /\ current' = current \ {report}
  /\ UNCHANGED status

\* An event ahead of the write it tells of.
TellAhead(nowActive, nowPaused) ==
  /\ Hear(FALSE, TRUE, nowActive, nowPaused)
  /\ overtaken' = overtaken \cup Taken
  /\ UNCHANGED <<status, current>>

Untold == UNCHANGED <<status, viewVars, reportVars>>

------------------------------------------------------------------------------
Init ==
  /\ type \in Types /\ status = "PENDING"
  /\ flag = "none" /\ loop = "idle" /\ starter = "none"
  /\ ctl = [c \in Controls |-> "none"]
  /\ ConnectionInit /\ snap = "none"
  /\ active = FALSE /\ paused = FALSE /\ fetched = "loading"
  /\ current = {} /\ overtaken = {} /\ doubt = TRUE /\ astray = FALSE

ServerStep == UNCHANGED <<type, connectionVars, snap, fetched>>

(***************************************************************************)
(* The session: its start.                                                 *)
(***************************************************************************)
HandleStart(via) ==
  /\ starter = "none" /\ status = "PENDING"
  /\ starter' = via
  /\ UNCHANGED <<flag, loop, ctl, astray>> /\ Untold
  /\ ServerStep

\* The update to ACTIVE, whose own read still finds PENDING, as no other start is under
\* way.  Only the gateway's handler tells that a discussion started.
StartWrite ==
  /\ \/ /\ starter = "socket" \/ (starter = "rest" /\ type = "COMPARISON")
        /\ starter' = "written"
        /\ Write("start", "ACTIVE")
     \/ /\ starter = "rest" /\ type = "DISCUSSION"
        /\ starter' = "silent"
        /\ WriteSilently("ACTIVE")
  /\ UNCHANGED <<flag, loop, ctl, astray>>
  /\ ServerStep

StartFails ==
  /\ starter \in {"socket", "rest"}
  /\ starter' = "none"
  /\ UNCHANGED <<flag, loop, ctl, astray>> /\ Untold
  /\ ServerStep

\* The flag is set and the loop runs.
StartLaunch ==
  /\ type = "DISCUSSION" /\ starter \in {"written", "silent"}
  /\ starter' = IF starter = "written" THEN "launched" ELSE "none"
  /\ flag' = "running" /\ loop' = "turns"
  /\ UNCHANGED <<ctl, astray>> /\ Untold
  /\ ServerStep

\* 'discussion-started', after startDiscussion has read the session once more;
\* 'comparison-started', before the experts are asked.
AnnounceStart ==
  /\ \/ /\ starter = "launched"
        /\ UNCHANGED loop
        /\ Tell("start", TRUE, TRUE, FALSE)
     \/ /\ starter = "written" /\ type = "COMPARISON"
        /\ loop' = "answers"
        /\ Tell("start", TRUE, TRUE, paused)
  /\ starter' = "none"
  /\ UNCHANGED <<flag, ctl, astray>>
  /\ ServerStep

\* That last read fails: the discussion runs, and 'error' is all that is told.
StartUntold ==
  /\ starter = "launched"
  /\ starter' = "none"
  /\ Overtake("start")
  /\ current' = current \ {"start"}
  /\ doubt' = TRUE
  /\ UNCHANGED <<status, viewVars, flag, loop, ctl, astray>>
  /\ ServerStep

(***************************************************************************)
(* The session: its end.  Every write is a SessionService.update: a read   *)
(* that validates, an await, and the write; both may fail.                 *)
(***************************************************************************)
LoopStep(from, to) ==
  /\ loop = from
  /\ loop' = to
  /\ UNCHANGED <<starter, ctl, astray>>
  /\ ServerStep

\* The read of an update: `valid` if the row may become `target`, `rejected` if it may
\* not or the read fails.
LoopRead(from, target, valid, rejected) ==
  /\ \/ ValidTransition(status, target) /\ LoopStep(from, valid)
     \/ LoopStep(from, rejected)
  /\ UNCHANGED flag /\ Untold

\* Consensus, a stall, the limit, or a stop the loop has seen.
Conclude ==
  /\ \/ LoopStep("turns", "concluding")
     \/ flag = "stopped" /\ LoopStep("turns", "cancelling")
  /\ UNCHANGED flag /\ Untold

\* concludeSession swallows the rejection of its update; that of the update to
\* CANCELLED is an error of the discussion.
ConcludeRead ==
  \/ LoopRead("concluding", "COMPLETED", "concludeWrite", "refused")
  \/ LoopRead("cancelling", "CANCELLED", "cancelWrite", "failing")

ConcludeWrite ==
  /\ \/ LoopStep("concludeWrite", "ended") /\ Write("end", "COMPLETED")
     \/ LoopStep("cancelWrite", "ended") /\ Write("end", "CANCELLED")
     \/ LoopStep("concludeWrite", "refused") /\ Untold
     \/ LoopStep("cancelWrite", "failing") /\ Untold
  /\ UNCHANGED flag

\* Mutant: the flag outlives the loop.
AnnounceEndOnly ==
  /\ \/ LoopStep("ended", "idle") /\ Tell("end", TRUE, FALSE, FALSE)
     \/ LoopStep("refused", "idle") /\ TellAhead(FALSE, FALSE)
  /\ UNCHANGED flag

\* 'session-ended', told as well when the update was rejected; then the maps are
\* cleared.
AnnounceEnd ==
  /\ \/ LoopStep("ended", "idle") /\ Tell("end", TRUE, FALSE, FALSE)
     \/ LoopStep("refused", "idle") /\ TellAhead(FALSE, FALSE)
  /\ flag' = "none"

\* An error that ends the discussion, as when a pause makes the row refuse its
\* message: 'error' is emitted and the session is to be CANCELLED, but no
\* 'session-ended' follows.
Fatal ==
  /\ LoopStep("turns", "failing")
  /\ UNCHANGED flag /\ Untold

FailRead == LoopRead("failing", "CANCELLED", "failWrite", "failed")

FailWrite ==
  /\ LoopStep("failWrite", "failed")
  /\ WriteSilently("CANCELLED") \/ Untold
  /\ UNCHANGED flag

FailClear ==
  /\ LoopStep("failed", "idle")
  /\ flag' = "none"
  /\ Untold

\* 'comparison-complete' comes before the session is COMPLETED.
AnnounceComplete ==
  /\ LoopStep("answers", "gathered")
  /\ TellAhead(FALSE, paused)
  /\ UNCHANGED flag

CompleteRead == LoopRead("gathered", "COMPLETED", "completeWrite", "idle")

CompleteWrite ==
  /\ LoopStep("completeWrite", "idle")
  /\ \/ status' = "COMPLETED" /\ current' = {} /\ UNCHANGED <<viewVars, overtaken, doubt>>
     \/ Untold
  /\ UNCHANGED flag

(***************************************************************************)
(* The session: pause, resume and stop, by any user.  A request the flag   *)
(* does not admit is answered by 'error' and changes nothing.              *)
(***************************************************************************)
Admits(request) ==
  CASE request = "pause"  -> flag = "running"
    [] request = "resume" -> flag = "paused"
    [] request = "stop"   -> flag \in {"running", "paused"}

ControlStep ==
  /\ UNCHANGED <<loop, starter>>
  /\ ServerStep

Advance(c, to) == ctl' = [ctl EXCEPT ![c] = to]

\* The flag is set at once; the update follows.
HandleControl(c, request) ==
  /\ Admits(request) /\ ctl[c] = "none"
  /\ flag' = IF request = "pause" THEN "paused" ELSE "running"
  /\ Advance(c, request)
  /\ astray' = \E other \in Controls : ctl[other] \in {"pause", "resume", "pausing", "resuming"}
  /\ Untold
  /\ ControlStep

\* The read of the update, which validates.
ControlRead(c) ==
  /\ \/ ctl[c] = "pause" /\ ValidTransition(status, "PAUSED") /\ Advance(c, "pausing")
     \/ ctl[c] = "resume" /\ ValidTransition(status, "ACTIVE") /\ Advance(c, "resuming")
  /\ UNCHANGED <<flag, astray>> /\ Untold
  /\ ControlStep

\* Its write, whatever has become of the row meanwhile.
ControlWrite(c) ==
  /\ \/ ctl[c] = "pausing" /\ Write(c, "PAUSED") /\ Advance(c, "paused")
     \/ ctl[c] = "resuming" /\ Write(c, "ACTIVE") /\ Advance(c, "resumed")
  /\ UNCHANGED <<flag, astray>>
  /\ ControlStep

\* The update is refused, or fails: its user is answered 'error', the flag stays.
ControlFails(c) ==
  /\ ctl[c] \in {"pause", "resume", "pausing", "resuming"}
  /\ Advance(c, "none")
  /\ astray' = TRUE
  /\ UNCHANGED flag /\ Untold
  /\ ControlStep

\* 'discussion-paused' and 'discussion-resumed' set isPaused only.
AnnounceControl(c) ==
  /\ ctl[c] \in {"paused", "resumed"}
  /\ Advance(c, "none")
  /\ Tell(c, FALSE, active, ctl[c] = "paused")
  /\ UNCHANGED <<flag, astray>>
  /\ ControlStep

\* 'discussion-stopped' at once; the loop sees the flag later.
HandleStop ==
  /\ Admits("stop")
  /\ flag' = "stopped"
  /\ TellAhead(FALSE, FALSE)
  /\ UNCHANGED <<ctl, astray>>
  /\ ControlStep

(***************************************************************************)
(* The connection and its snapshot.                                        *)
(***************************************************************************)
\* What is sent to a socket that is gone reaches nobody, and a page that does not hear
\* may miss a report.
Lost ==
  /\ snap' = "none"
  /\ current' = current \ {"snapshot"} /\ overtaken' = overtaken \ {"snapshot"}
  /\ doubt' = TRUE

Connect ==
  /\ Handshake
  /\ snap' = IF mounted THEN "asked" ELSE "none"
  /\ UNCHANGED <<rowVars, runVars, viewVars, fetched, reportVars, astray>>

\* A connection that is given up is one that stays down.
OtherConnection ==
  /\ Token \/ Drop \/ \E s \in Sockets : HandleDisconnect(s)
  /\ IF Hears' THEN UNCHANGED <<snap, reportVars>> ELSE Lost
  /\ UNCHANGED <<rowVars, runVars, viewVars, fetched, astray>>

\* The state of the page is gone with it.
LeavePage ==
  /\ Leave
  /\ active' = FALSE /\ paused' = FALSE /\ fetched' = "loading"
  /\ Lost
  /\ UNCHANGED <<rowVars, runVars, astray>>

\* What the gateway's own steps leave alone.
GatewayStep == UNCHANGED <<rowVars, runVars, connectionVars, fetched, astray>>

\* handleConnection's findOne.  The end of a comparison is told before it is written,
\* so that a status read in between is late from the start.
SnapRead ==
  /\ snap = "asked"
  /\ snap' = status
  /\ current' = current \cup {"snapshot"}
  /\ overtaken' = IF loop \in {"gathered", "completeWrite"} THEN overtaken \cup {"snapshot"}
                  ELSE overtaken
  /\ UNCHANGED <<viewVars, doubt>>
  /\ GatewayStep

\* The read fails, and 'connected' carries no status.
SnapFails ==
  /\ snap = "asked"
  /\ snap' = "none"
  /\ UNCHANGED <<viewVars, reportVars>>
  /\ GatewayStep

\* Mutant: a paused discussion is taken for one that is not under way.
SnapEmitActive ==
  /\ snap \in Statuses
  /\ snap' = "none"
  /\ Tell("snapshot", TRUE, snap = "ACTIVE", snap = "PAUSED")
  /\ GatewayStep

\* 'connected', to this socket.
SnapEmit ==
  /\ snap \in Statuses
  /\ snap' = "none"
  /\ Tell("snapshot", TRUE, snap \in Open, snap = "PAUSED")
  /\ GatewayStep

(***************************************************************************)
(* The page.                                                               *)
(***************************************************************************)
\* getSession, once; while it is under way, and when it fails, there are no buttons.
Fetch ==
  /\ mounted /\ fetched = "loading"
  /\ fetched' = status
  /\ UNCHANGED <<rowVars, runVars, connectionVars, snap, viewVars, reportVars, astray>>

\* The status SessionControls shows; the session is never fetched again.
ShownStatus == IF paused THEN "PAUSED" ELSE fetched

\* Mutant: the buttons ask for the connection only.
OfferedConnected ==
  IF fetched \notin Statuses \/ conn # "up" THEN {}
  ELSE CASE ShownStatus = "PENDING" -> {"start"}
         [] ShownStatus = "ACTIVE" /\ type = "DISCUSSION" -> {"pause", "stop"}
         [] ShownStatus = "PAUSED" /\ type = "DISCUSSION" -> {"resume", "stop"}
         [] OTHER -> {}

\* The buttons SessionControls enables.
Offered ==
  IF fetched \notin Statuses \/ conn # "up" THEN {}
  ELSE CASE ShownStatus = "PENDING" -> {"start"}
         [] ShownStatus = "ACTIVE" /\ type = "DISCUSSION" ->
              IF active THEN {"pause", "stop"} ELSE {}
         [] ShownStatus = "PAUSED" /\ type = "DISCUSSION" -> {"resume", "stop"}
         [] OTHER -> {}

------------------------------------------------------------------------------
Start ==
  \/ \E via \in {"socket", "rest"} : HandleStart(via)
  \/ StartWrite \/ StartFails \/ StartLaunch \/ AnnounceStart \/ StartUntold

End ==
  \/ Conclude \/ ConcludeRead \/ ConcludeWrite \/ AnnounceEnd
  \/ Fatal \/ FailRead \/ FailWrite \/ FailClear
  \/ AnnounceComplete \/ CompleteRead \/ CompleteWrite

Control ==
  \/ \E c \in Controls :
       \/ \E request \in {"pause", "resume"} : HandleControl(c, request)
       \/ ControlRead(c) \/ ControlWrite(c) \/ ControlFails(c) \/ AnnounceControl(c)
  \/ HandleStop

Gateway == SnapRead \/ SnapFails \/ SnapEmit

Page == Connect \/ LeavePage \/ OtherConnection \/ Fetch

Next == Start \/ End \/ Control \/ Gateway \/ Page

Spec == Init /\ [][Next]_vars

------------------------------------------------------------------------------
\* Where a discussion and a comparison that run may be.
DiscussionStages ==
  {"turns", "concluding", "concludeWrite", "cancelling", "cancelWrite", "ended", "refused",
   "failing", "failWrite", "failed"}
ComparisonStages == {"answers", "gathered", "completeWrite"}

\* The shape of the session, the snapshot and the page; a control flag exists just as
\* long as the loop it controls.
TypeOK ==
  /\ ConnectionTypeOK
  /\ type \in Types /\ status \in Statuses
  /\ flag \in {"none", "running", "paused", "stopped"}
  /\ loop \in {"idle"} \cup DiscussionStages \cup ComparisonStages
  /\ flag # "none" <=> loop \in DiscussionStages
  /\ starter \in {"none", "socket", "rest", "written", "silent", "launched"}
  /\ ctl \in [Controls -> {"none", "pause", "resume", "pausing", "resuming", "paused", "resumed"}]
  /\ snap \in Statuses \cup {"none", "asked"}
  /\ active \in BOOLEAN /\ paused \in BOOLEAN
  /\ fetched \in Statuses \cup {"loading"}
  /\ current \subseteq Controls \cup {"start", "end", "snapshot"}
  /\ overtaken \subseteq Controls \cup {"start", "end", "snapshot"}
  /\ doubt \in BOOLEAN /\ astray \in BOOLEAN

\* No request is between the row and its event, and no snapshot is under way.
AtRest ==
  /\ starter \notin {"written", "silent", "launched"}
  /\ \A c \in Controls : ctl[c] = "none"
  /\ flag # "stopped" /\ loop \in {"idle", "turns", "answers"}
  /\ snap = "none"

\* A row that says open and that nothing runs, or is about to: the update to its last
\* status was rejected, or overwritten by that of a pause or a resume validated before
\* it (SessionService.update awaits between its read and its write).
Orphaned ==
  status \in Open /\ loop = "idle" /\ starter \notin {"written", "silent"}

\* The page's two variables agree with the row once everything under way was told,
\* if every report reached it in the order in which the status was read or written
\* (useWebSocket's handlers, and handleConnection's snapshot after a reconnection);
\* not of a row that is left open with nothing to run it.
ViewIsCurrent ==
  (AtRest /\ Hears /\ ~doubt /\ ~Orphaned) =>
    /\ active = (status \in Open)
    /\ paused = (status = "PAUSED")

\* A Pause that a page with such a view offers is one the council accepts: the row as
\* fetched, isPaused and isDiscussionActive come from different times, and the flag they
\* are compared with is one no event carries (SessionControls.tsx, 231-252).  Not when
\* the row need not follow that flag, nor when no loop is left to pause.
PauseIsAccepted ==
  (AtRest /\ Hears /\ ~doubt /\ ~Orphaned /\ "pause" \in Offered) =>
    Admits("pause") \/ astray

\* The same without the exception of updates that overlapped or were rejected.  The code
\* does not keep it: a resume and a pause whose updates end in the other order leave an
\* ACTIVE row under a paused flag (council.service.ts, 59-91).
PauseIsAlwaysAccepted ==
  (AtRest /\ Hears /\ ~doubt /\ ~Orphaned /\ "pause" \in Offered) => Admits("pause")

\* The same of Resume and Stop.  The code does not keep it: the status is fetched once,
\* and a session fetched PAUSED shows them for ever (SessionControls.tsx, 73 and 254-274).
ControlIsAccepted ==
  (AtRest /\ Hears /\ ~doubt /\ ~Orphaned) =>
    \A request \in Offered \cap {"resume", "stop"} : Admits(request) \/ astray

\* "Disconnect socket when sessionId changes", "Cleanup on unmount"
\* (use-websocket.ts, 216 and 302): a page that was left holds no connection.
LeftMeansClosed == ~mounted => conn # "up"
==============================================================================

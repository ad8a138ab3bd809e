---------------------------- MODULE SessionPageProofs ----------------------------
(***************************************************************************)
(* Theorems about SessionPage, for any number of connections and of pauses *)
(* and resumes under way at once.  The argument: a report taken since the  *)
(* row was last written says what the row says; an earlier one that was    *)
(* not overtaken may be believed until the report of the last write comes. *)
(* So what a page without doubt believes is wrong only while a report is   *)
(* owed to it, or of a row that nothing runs.                              *)
(***************************************************************************)
EXTENDS SessionPage, TLAPS

------------------------------------------------------------------------------
(* The session. *)

\* A start comes once; only a discussion is paused; the row is open until its end.
SessionInv ==
  /\ status = "PENDING" =>
       loop = "idle" /\ starter \in {"none", "socket", "rest"} /\ \A c \in Controls : ctl[c] = "none"
  /\ starter \in {"socket", "rest"} => status = "PENDING"
  /\ starter \in {"written", "silent"} =>
       status = "ACTIVE" /\ loop = "idle" /\ \A c \in Controls : ctl[c] = "none"
  /\ type = "COMPARISON" =>
       /\ loop \in {"idle"} \cup ComparisonStages /\ starter \notin {"silent", "launched"}
       /\ status # "PAUSED" /\ \A c \in Controls : ctl[c] = "none"
  /\ type # "COMPARISON" => loop \notin ComparisonStages
  /\ loop \in DiscussionStages => starter \in {"none", "launched"}
  /\ loop \in DiscussionStages \ {"ended", "failed"} => status \in Open
  /\ loop \in ComparisonStages => status = "ACTIVE" /\ starter = "none"

Updating(c) == ctl[c] \in {"pause", "resume", "pausing", "resuming"}

\* While the loop takes turns the row follows the flag, one update behind.
RowFollowsFlag ==
  loop = "turns" /\ ~astray =>
    /\ flag = "running" =>
         /\ \A c \in Controls : Updating(c) => ctl[c] \in {"resume", "resuming"}
         /\ status = "ACTIVE" \/ \E c \in Controls : Updating(c)
    /\ flag = "paused" =>
         /\ \A c \in Controls : Updating(c) => ctl[c] \in {"pause", "pausing"}
         /\ status = "PAUSED" \/ \E c \in Controls : Updating(c)

\* The page never takes a comparison for paused.
NeverPaused == type = "COMPARISON" => paused = FALSE /\ snap # "PAUSED"

\* A snapshot is under way, and doubt is dispelled, on a live connection only.
OnlyHearing == (snap # "none" \/ ~doubt) => Hears

(* What may be believed. *)

\* A report taken since the row was last written says what the row says.
CurrentIsRow ==
  /\ \A c \in Controls \cap current :
       /\ ctl[c] \in {"paused", "resumed"}
       /\ status = IF ctl[c] = "paused" THEN "PAUSED" ELSE "ACTIVE"
  /\ "start" \in current => status = "ACTIVE"
  /\ "snapshot" \in current => snap = status

\* A discussion about to end owes the report of its end, and of a row left open there
\* is nothing to believe.
Excused ==
  \/ loop \in DiscussionStages \ {"turns", "failed"} \/ (loop = "turns" /\ flag = "stopped")
  \/ loop = "failed" /\ status \in Open
  \/ Orphaned

\* What may be believed: the row, but for the end of a comparison, which is told before
\* it is written, and for a pause or resume that was written and is still to be told.
Agrees(isActive, isPaused) ==
  \/ Excused
  \/ loop \in {"gathered", "completeWrite"} /\ ~isActive /\ ~isPaused
  \/ /\ loop \notin {"gathered", "completeWrite"}
     /\ isActive <=> status \in Open
     /\ Controls \cap current = {} => (isPaused <=> status = "PAUSED")

Starting == starter \in {"written", "launched"}

\* The report of a start, not overtaken, would be believed.
StartAgrees == Starting /\ "start" \notin overtaken => Agrees(TRUE, FALSE)

\* So would that of a pause or a resume: it is about the row, or a later one is owed.
ControlsAgree ==
  \A c \in Controls :
    ctl[c] \in {"paused", "resumed"} /\ c \notin overtaken =>
      c \in current \/ Excused \/ Controls \cap current # {}

\* So would the snapshot, unless a start is still to be told.
SnapAgrees ==
  snap \in Statuses /\ "snapshot" \notin overtaken =>
    Starting \/ Agrees(snap \in Open, snap = "PAUSED")

\* And so is what a page without doubt believes.
ViewAgrees == ~doubt => Starting \/ Agrees(active, paused)

Beliefs == StartAgrees /\ ControlsAgree /\ SnapAgrees /\ ViewAgrees

Inv ==
  /\ TypeOK /\ SessionInv /\ RowFollowsFlag /\ NeverPaused /\ OnlyHearing /\ CurrentIsRow
  /\ Beliefs

------------------------------------------------------------------------------
\* Initially nothing runs, and the page is in doubt.
LEMMA InvInit == Init => Inv
<1> SUFFICES ASSUME Init PROVE Inv
  OBVIOUS
<1> USE SocketsAssumption, TypesAssumption DEF Init, ConnectionInit
<1>1. TypeOK
  <2>1. ConnectionTypeOK
    BY DEF ConnectionTypeOK
  <2>2. flag # "none" <=> loop \in DiscussionStages
    BY DEF DiscussionStages
  <2>3. starter \in {"none", "socket", "rest", "written", "silent", "launched"}
        /\ loop \in {"idle"} \cup DiscussionStages \cup ComparisonStages
        /\ flag \in {"none", "running", "paused", "stopped"}
    OBVIOUS
  <2>4. active \in BOOLEAN /\ paused \in BOOLEAN /\ doubt \in BOOLEAN /\ astray \in BOOLEAN
    OBVIOUS
  <2> QED BY <2>1, <2>2, <2>3, <2>4 DEF TypeOK, Statuses, Terminal
<1>2. SessionInv /\ RowFollowsFlag /\ NeverPaused
  BY DEF SessionInv, RowFollowsFlag, NeverPaused, DiscussionStages, ComparisonStages
<1>3. OnlyHearing /\ CurrentIsRow
  BY DEF OnlyHearing, CurrentIsRow
<1>4. StartAgrees /\ ControlsAgree /\ SnapAgrees /\ ViewAgrees
  BY DEF StartAgrees, ControlsAgree, SnapAgrees, ViewAgrees, Starting, Statuses, Terminal
<1> QED BY <1>1, <1>2, <1>3, <1>4 DEF Inv, Beliefs

------------------------------------------------------------------------------
(* The types. *)

\* The types of the session.
SessionTypeOK ==
  /\ type \in Types /\ status \in Statuses
  /\ flag \in {"none", "running", "paused", "stopped"}
  /\ loop \in {"idle"} \cup DiscussionStages \cup ComparisonStages
  /\ flag # "none" <=> loop \in DiscussionStages
  /\ starter \in {"none", "socket", "rest", "written", "silent", "launched"}
  /\ ctl \in [Controls -> {"none", "pause", "resume", "pausing", "resuming", "paused", "resumed"}]
  /\ astray \in BOOLEAN

\* The types of what the page is told and believes.
ViewTypeOK ==
  /\ snap \in Statuses \cup {"none", "asked"}
  /\ active \in BOOLEAN /\ paused \in BOOLEAN
  /\ fetched \in Statuses \cup {"loading"}
  /\ current \subseteq Controls \cup {"start", "end", "snapshot"}
  /\ overtaken \subseteq Controls \cup {"start", "end", "snapshot"}
  /\ doubt \in BOOLEAN

\* A step of the gateway or the page, or none, leaves the session alone.
LEMMA OthersKeepSession ==
  ASSUME Gateway \/ Page \/ UNCHANGED vars
  PROVE  UNCHANGED <<type, status, flag, loop, starter, ctl, astray>>
  BY DEF Gateway, SnapRead, SnapFails, SnapEmit, GatewayStep, Page, Connect, LeavePage,
         OtherConnection, Fetch, vars, rowVars, runVars

\* A step of the session leaves the connection, its snapshot and the fetch alone.
LEMMA SessionKeepsOthers ==
  ASSUME Start \/ End \/ Control
  PROVE  UNCHANGED <<type, room, mounted, conn, gen, snap, fetched>>
<1>1. CASE Start
  BY <1>1 DEF Start, HandleStart, StartWrite, StartFails, StartLaunch, AnnounceStart, StartUntold,
              ServerStep, connectionVars
<1>2. CASE End
  BY <1>2 DEF End, Conclude, ConcludeRead, ConcludeWrite, AnnounceEnd, Fatal, FailRead,
              FailWrite, FailClear, AnnounceComplete, CompleteRead, CompleteWrite, LoopRead,
              LoopStep, ServerStep, connectionVars
<1>3. CASE Control
  BY <1>3 DEF Control, HandleControl, ControlRead, ControlWrite, ControlFails, AnnounceControl,
              HandleStop, ControlStep, ServerStep, connectionVars
<1> QED BY <1>1, <1>2, <1>3

\* The connection keeps its types.
LEMMA ConnectionNext ==
  ASSUME TypeOK, [Next]_vars
  PROVE  ConnectionTypeOK'
<1>0. ConnectionTypeOK /\ gen \in Nat
  BY SocketsAssumption DEF TypeOK, ConnectionTypeOK
<1> USE <1>0, SocketsAssumption DEF ConnectionTypeOK, Sockets, connectionVars
<1>1. CASE Connect
  BY <1>1 DEF Connect, Handshake
<1>2. CASE OtherConnection
  <2>1. gen' = gen /\ room' \subseteq room /\ mounted' = mounted
    BY <1>2 DEF OtherConnection, Token, Drop, HandleDisconnect
  <2>2. conn' \in {"token", "failed", "down", "up", "closed"}
    BY <1>2 DEF OtherConnection, Token, Drop, HandleDisconnect
  <2> QED BY <2>1, <2>2
<1>3. CASE LeavePage
  <2>1. gen' = gen /\ room' = room /\ mounted' \in BOOLEAN
    BY <1>3 DEF LeavePage, Leave
  <2>2. conn' \in {"token", "closed"}
    BY <1>3 DEF LeavePage, Leave
  <2> QED BY <2>1, <2>2
<1>4. CASE UNCHANGED connectionVars
  BY <1>4
<1>5. CASE Fetch
  BY <1>5 DEF Fetch
<1>6. CASE Gateway
  BY <1>6, <1>4 DEF Gateway, SnapRead, SnapFails, SnapEmit, GatewayStep
<1>7. CASE Start \/ End \/ Control
  BY <1>7, <1>4, SessionKeepsOthers
<1>8. CASE UNCHANGED vars
  BY <1>8, <1>4 DEF vars
<1> QED BY <1>1, <1>2, <1>3, <1>5, <1>6, <1>7, <1>8 DEF Next, Page

\* The session keeps its types and starts once; while the loop takes turns the row
\* follows the flag.
LEMMA SessionNext ==
  ASSUME SessionTypeOK, SessionInv, RowFollowsFlag, [Next]_vars
  PROVE  SessionTypeOK' /\ SessionInv' /\ RowFollowsFlag'
<1> USE TypesAssumption
    DEF SessionTypeOK, SessionInv, RowFollowsFlag, Updating, DiscussionStages,
        ComparisonStages, AllTypes, Statuses, Terminal, Open, Untold, Tell, TellAhead, Write,
        WriteSilently, LoopStep, LoopRead, ControlStep, ServerStep
<1>1. CASE UNCHANGED <<type, status, flag, loop, starter, ctl, astray>>
  BY <1>1
<1>2. CASE Start
  <2>1. ASSUME NEW via \in {"socket", "rest"}, HandleStart(via)
        PROVE  SessionTypeOK' /\ SessionInv' /\ RowFollowsFlag'
    BY <2>1 DEF HandleStart
  <2>2. CASE StartWrite
    BY <2>2 DEF StartWrite
  <2>3. CASE StartFails
    BY <2>3 DEF StartFails
  <2>4. CASE StartLaunch
    BY <2>4 DEF StartLaunch
  <2>5. CASE AnnounceStart
    BY <2>5 DEF AnnounceStart
  <2>6. CASE StartUntold
    BY <2>6 DEF StartUntold
  <2> QED BY <1>2, <2>1, <2>2, <2>3, <2>4, <2>5, <2>6 DEF Start
<1>3. CASE End
  <2>1. CASE Conclude \/ Fatal
    BY <2>1 DEF Conclude, Fatal
  <2>2. CASE ConcludeRead
    BY <2>2 DEF ConcludeRead
  <2>3. CASE ConcludeWrite
    BY <2>3 DEF ConcludeWrite
  <2>4. CASE AnnounceEnd
    BY <2>4 DEF AnnounceEnd
  <2>5. CASE FailRead
    BY <2>5 DEF FailRead
  <2>6. CASE FailWrite
    BY <2>6 DEF FailWrite
  <2>7. CASE FailClear
    BY <2>7 DEF FailClear
  <2>8. CASE AnnounceComplete \/ CompleteRead
    BY <2>8 DEF AnnounceComplete, CompleteRead
  <2>9. CASE CompleteWrite
    BY <2>9 DEF CompleteWrite
  <2> QED BY <1>3, <2>1, <2>2, <2>3, <2>4, <2>5, <2>6, <2>7, <2>8, <2>9 DEF End
<1>4. CASE Control
  <2> USE DEF Advance
  <2>1. ASSUME NEW c \in Controls, NEW request \in {"pause", "resume"},
               HandleControl(c, request)
        PROVE  SessionTypeOK' /\ SessionInv' /\ RowFollowsFlag'
    BY <2>1 DEF HandleControl, Admits
  <2>2. ASSUME NEW c \in Controls, ControlRead(c)
        PROVE  SessionTypeOK' /\ SessionInv' /\ RowFollowsFlag'
    BY <2>2 DEF ControlRead
  <2>3. ASSUME NEW c \in Controls, ControlWrite(c)
        PROVE  SessionTypeOK' /\ SessionInv' /\ RowFollowsFlag'
    BY <2>3 DEF ControlWrite
  <2>4. ASSUME NEW c \in Controls, ControlFails(c)
        PROVE  SessionTypeOK' /\ SessionInv' /\ RowFollowsFlag'
    BY <2>4 DEF ControlFails
  <2>5. ASSUME NEW c \in Controls, AnnounceControl(c)
        PROVE  SessionTypeOK' /\ SessionInv' /\ RowFollowsFlag'
    BY <2>5 DEF AnnounceControl
  <2>6. CASE HandleStop
    BY <2>6 DEF HandleStop, Admits
  <2> QED BY <1>4, <2>1, <2>2, <2>3, <2>4, <2>5, <2>6 DEF Control
<1> QED BY <1>1, <1>2, <1>3, <1>4, OthersKeepSession DEF Next

\* What a report leaves of the types.
LEMMA TellTypes ==
  ASSUME ViewTypeOK, NEW report, NEW complete \in BOOLEAN, NEW nowActive \in BOOLEAN,
         NEW nowPaused \in BOOLEAN,
         \/ Tell(report, complete, nowActive, nowPaused) \/ TellAhead(nowActive, nowPaused),
         snap' = snap \/ snap' = "none", fetched' = fetched
  PROVE  ViewTypeOK'
<1>1. Taken \subseteq Controls \cup {"start", "end", "snapshot"}
  BY DEF Taken
<1>2. /\ current' \subseteq Controls \cup {"start", "end", "snapshot"}
      /\ overtaken' \subseteq Controls \cup {"start", "end", "snapshot"}
  BY <1>1 DEF Tell, TellAhead, Overtake, ViewTypeOK
<1>3. active' \in BOOLEAN /\ paused' \in BOOLEAN /\ doubt' \in BOOLEAN
  <2>1. ASSUME NEW late \in BOOLEAN, NEW all \in BOOLEAN, Hear(late, all, nowActive, nowPaused)
        PROVE  active' \in BOOLEAN /\ paused' \in BOOLEAN /\ doubt' \in BOOLEAN
    BY <2>1 DEF Hear, ViewTypeOK, viewVars
  <2>2. (report \in overtaken) \in BOOLEAN
    OBVIOUS
  <2> QED BY <2>1, <2>2 DEF Tell, TellAhead
<1> QED BY <1>2, <1>3 DEF ViewTypeOK

\* The page keeps the types of what it is told and believes.
LEMMA ViewTypeNext ==
  ASSUME ViewTypeOK, SessionTypeOK, [Next]_vars
  PROVE  ViewTypeOK'
<1>0. Taken \subseteq Controls \cup {"start", "end", "snapshot"}
  BY DEF Taken
<1>1. CASE UNCHANGED <<snap, fetched, viewVars, reportVars>>
  BY <1>1 DEF ViewTypeOK, viewVars, reportVars
<1>2. ASSUME Start \/ End \/ Control
      PROVE  ViewTypeOK'
  <2>0. snap' = snap /\ fetched' = fetched
    BY <1>2, SessionKeepsOthers
  <2>1. CASE Untold
    BY <1>1, <2>0, <2>1 DEF Untold
  <2>2. ASSUME NEW report \in Controls \cup {"start", "end"}, NEW to, Write(report, to)
        PROVE  ViewTypeOK'
    BY <2>0, <2>2 DEF Write, ViewTypeOK, viewVars
  <2>3. ASSUME NEW to, WriteSilently(to)
        PROVE  ViewTypeOK'
    BY <1>0, <2>0, <2>3 DEF WriteSilently, ViewTypeOK, viewVars
  <2>4. CASE CompleteWrite
    BY <2>0, <2>1, <2>4 DEF CompleteWrite, ViewTypeOK, viewVars
  <2>5. CASE AnnounceStart \/ AnnounceEnd \/ AnnounceComplete \/ HandleStop
    BY <2>0, <2>5, TellTypes
    DEF AnnounceStart, AnnounceEnd, AnnounceComplete, HandleStop, ViewTypeOK
  <2>6. ASSUME NEW c \in Controls, AnnounceControl(c)
        PROVE  ViewTypeOK'
    <3>1. Tell(c, FALSE, active, ctl[c] = "paused")
      BY <2>6 DEF AnnounceControl
    <3>2. active \in BOOLEAN /\ (ctl[c] = "paused") \in BOOLEAN
      BY DEF ViewTypeOK
    <3> QED BY <2>0, <3>1, <3>2, TellTypes
  <2>10. CASE StartUntold
    BY <1>0, <2>0, <2>10 DEF StartUntold, Overtake, ViewTypeOK, viewVars
  <2>7. CASE Start
    BY <2>1, <2>2, <2>3, <2>5, <2>7, <2>10 DEF Start, HandleStart, StartWrite, StartFails, StartLaunch
  <2>8. CASE End
    BY <2>1, <2>2, <2>3, <2>4, <2>5, <2>8
    DEF End, Conclude, ConcludeRead, ConcludeWrite, Fatal, FailRead, FailWrite, FailClear,
        CompleteRead, LoopRead
  <2>9. CASE Control
    BY <2>1, <2>2, <2>5, <2>6, <2>9
    DEF Control, HandleControl, ControlRead, ControlWrite, ControlFails
  <2> QED BY <1>2, <2>7, <2>8, <2>9
<1>3. CASE SnapRead \/ SnapFails
  BY <1>3 DEF SnapRead, SnapFails, GatewayStep, ViewTypeOK, SessionTypeOK, viewVars, reportVars
<1>4. CASE SnapEmit
  <2>1. Tell("snapshot", TRUE, snap \in Open, snap = "PAUSED")
    BY <1>4 DEF SnapEmit
  <2>2. (snap \in Open) \in BOOLEAN /\ (snap = "PAUSED") \in BOOLEAN
    OBVIOUS
  <2>3. snap' = "none" /\ fetched' = fetched
    BY <1>4 DEF SnapEmit, GatewayStep
  <2> QED BY <2>1, <2>2, <2>3, TellTypes
<1>5. CASE Connect \/ Fetch
  BY <1>5 DEF Connect, Fetch, ViewTypeOK, SessionTypeOK, viewVars, reportVars
<1>6. CASE OtherConnection \/ LeavePage
  BY <1>6 DEF OtherConnection, LeavePage, Lost, ViewTypeOK, viewVars, reportVars
<1>7. CASE UNCHANGED vars
  BY <1>7, <1>1 DEF vars
<1> QED BY <1>2, <1>3, <1>4, <1>5, <1>6, <1>7 DEF Next, Gateway, Page

\* A snapshot is under way, and doubt is dispelled, on a live connection only.
LEMMA OnlyHearingNext ==
  ASSUME OnlyHearing, [Next]_vars
  PROVE  OnlyHearing'
<1> USE DEF OnlyHearing
<1>1. CASE Start \/ End \/ Control
  <2>1. Hears' = Hears /\ snap' = snap
    BY <1>1, SessionKeepsOthers DEF Hears
  <2>2. doubt' = doubt \/ doubt' \/ Hears
    <3>1. CASE Start
      BY <3>1 DEF Start, HandleStart, StartWrite, StartFails, StartLaunch, AnnounceStart,
                  StartUntold, Untold, Write, WriteSilently, Tell, Hear, reportVars
    <3>2. CASE End
      BY <3>2 DEF End, Conclude, ConcludeRead, ConcludeWrite, AnnounceEnd, Fatal, FailRead,
                  FailWrite, FailClear, AnnounceComplete, CompleteRead, CompleteWrite,
                  LoopRead, Untold, Write, WriteSilently, Tell, TellAhead, Hear, reportVars
    <3>3. CASE Control
      BY <3>3 DEF Control, HandleControl, ControlRead, ControlWrite, ControlFails,
                  AnnounceControl, HandleStop, Untold, Write, Tell, TellAhead, Hear, reportVars
    <3> QED BY <1>1, <3>1, <3>2, <3>3
  <2> QED BY <2>1, <2>2
<1>2. CASE Gateway
  BY <1>2 DEF Gateway, SnapRead, SnapFails, SnapEmit, Tell, Hear, GatewayStep, Hears,
              connectionVars, reportVars, Statuses, Terminal
<1>3. CASE Connect
  <2>1. ~Hears /\ (mounted => Hears')
    BY <1>3 DEF Connect, Handshake, Hears
  <2> QED BY <1>3, <2>1 DEF Connect, Handshake, reportVars
<1>4. CASE OtherConnection \/ LeavePage
  BY <1>4 DEF OtherConnection, LeavePage, Lost, Token, Drop, HandleDisconnect, Hears, reportVars
<1>5. CASE Fetch \/ UNCHANGED vars
  BY <1>5 DEF Fetch, vars, connectionVars, reportVars, Hears
<1> QED BY <1>1, <1>2, <1>3, <1>4, <1>5 DEF Next, Page

\* The types are kept.
LEMMA TypeNext ==
  ASSUME Inv, [Next]_vars
  PROVE  TypeOK' /\ SessionInv' /\ RowFollowsFlag' /\ OnlyHearing'
<1>0. TypeOK /\ SessionTypeOK /\ ViewTypeOK
  BY DEF Inv, TypeOK, SessionTypeOK, ViewTypeOK
<1>1. SessionTypeOK' /\ SessionInv' /\ RowFollowsFlag'
  BY <1>0, SessionNext DEF Inv
<1>2. ViewTypeOK' /\ ConnectionTypeOK' /\ OnlyHearing'
  BY <1>0, ViewTypeNext, ConnectionNext, OnlyHearingNext DEF Inv
<1> QED BY <1>1, <1>2 DEF TypeOK, SessionTypeOK, ViewTypeOK

\* The page never takes a comparison for paused: none of its reports says so.
LEMMA NeverPausedNext ==
  ASSUME Inv, [Next]_vars
  PROVE  NeverPaused'
<1>0. TypeOK /\ SessionInv /\ NeverPaused
  BY DEF Inv
<1> SUFFICES ASSUME type' = "COMPARISON"
             PROVE  paused' = FALSE /\ snap' # "PAUSED"
  BY DEF NeverPaused
<1>1. type = "COMPARISON"
  BY OthersKeepSession, SessionKeepsOthers DEF Next
<1>2. /\ status # "PAUSED" /\ paused = FALSE /\ snap # "PAUSED"
      /\ starter \notin {"silent", "launched"} /\ loop \in {"idle"} \cup ComparisonStages
      /\ \A c \in Controls : ctl[c] = "none"
  BY <1>0, <1>1 DEF SessionInv, NeverPaused
<1>3. snap' # "PAUSED"
  <2>1. CASE Start \/ End \/ Control
    BY <1>2, <2>1, SessionKeepsOthers
  <2>2. CASE Gateway \/ Page \/ UNCHANGED vars
    BY <1>2, <2>2
    DEF Gateway, SnapRead, SnapFails, SnapEmit, Page, Connect, LeavePage, OtherConnection,
        Lost, Fetch, vars
  <2> QED BY <2>1, <2>2 DEF Next
<1>4. paused' = FALSE
  <2> USE <1>2 DEF Untold, Write, WriteSilently, Tell, TellAhead, Hear, viewVars
  <2>1. CASE Start
    BY <1>1, <2>1 DEF Start, HandleStart, StartWrite, StartFails, StartLaunch, AnnounceStart,
                      StartUntold
  <2>2. CASE End
    BY <2>2 DEF End, Conclude, ConcludeRead, ConcludeWrite, AnnounceEnd, Fatal, FailRead,
                FailWrite, FailClear, AnnounceComplete, CompleteRead, CompleteWrite, LoopRead
  <2>3. CASE Control
    BY <2>3 DEF Control, HandleControl, ControlRead, ControlWrite, ControlFails,
                AnnounceControl, HandleStop
  <2>4. CASE Gateway
    BY <2>4 DEF Gateway, SnapRead, SnapFails, SnapEmit
  <2>5. CASE Page \/ UNCHANGED vars
    BY <2>5 DEF Page, Connect, LeavePage, OtherConnection, Fetch, vars
  <2> QED BY <2>1, <2>2, <2>3, <2>4, <2>5 DEF Next
<1> QED BY <1>3, <1>4

------------------------------------------------------------------------------
(* What the page may believe. *)

\* The reports are told apart.
LEMMA Reports ==
  /\ "start" \notin Controls /\ "end" \notin Controls /\ "snapshot" \notin Controls
  BY ControlsAssumption

\* A report taken since the row was last written says what the row says.
LEMMA CurrentNext ==
  ASSUME Inv, [Next]_vars
  PROVE  CurrentIsRow'
<1>0. TypeOK /\ SessionInv /\ OnlyHearing /\ CurrentIsRow
  BY DEF Inv
<1>a. ctl \in [Controls -> {"none", "pause", "resume", "pausing", "resuming", "paused", "resumed"}]
  BY <1>0 DEF TypeOK
<1> USE <1>0, <1>a, Reports DEF CurrentIsRow
<1>1. ASSUME UNCHANGED <<status, snap>>, current' \subseteq current,
             \A c \in Controls : ctl[c] \in {"paused", "resumed"} => ctl'[c] = ctl[c]
      PROVE  CurrentIsRow'
  BY <1>1
<1>2. CASE Start
  <2>1. snap' = snap /\ ctl' = ctl
    BY <1>2, SessionKeepsOthers
    DEF Start, HandleStart, StartWrite, StartFails, StartLaunch, AnnounceStart, StartUntold
  <2>2. CASE StartWrite
    BY <2>1, <2>2 DEF StartWrite, Write, WriteSilently
  <2>3. CASE ~StartWrite
    BY <1>1, <1>2, <2>1, <2>3
    DEF Start, HandleStart, StartFails, StartLaunch, AnnounceStart, StartUntold, Untold,
        reportVars, Tell
  <2> QED BY <2>2, <2>3
<1>3. CASE End
  <2>1. snap' = snap /\ ctl' = ctl
    BY <1>3, SessionKeepsOthers
    DEF End, Conclude, ConcludeRead, ConcludeWrite, AnnounceEnd, Fatal, FailRead, FailWrite,
        FailClear, AnnounceComplete, CompleteRead, CompleteWrite, LoopRead, LoopStep
  <2>2. CASE Untold
    BY <1>1, <2>1, <2>2 DEF Untold, reportVars
  <2>3. ASSUME NEW to, Write("end", to) \/ WriteSilently(to)
        PROVE  CurrentIsRow'
    BY <2>1, <2>3 DEF Write, WriteSilently
  <2>4. CASE CompleteWrite
    BY <2>1, <2>2, <2>4 DEF CompleteWrite
  <2>5. CASE AnnounceEnd \/ AnnounceComplete
    BY <1>1, <2>1, <2>5 DEF AnnounceEnd, AnnounceComplete, Tell, TellAhead
  <2> QED
    BY <1>3, <2>2, <2>3, <2>4, <2>5
    DEF End, Conclude, ConcludeRead, ConcludeWrite, Fatal, FailRead, FailWrite, FailClear,
        CompleteRead, LoopRead
<1>4. CASE Control
  <2>0. snap' = snap
    BY <1>4, SessionKeepsOthers
  <2>1. ASSUME NEW c \in Controls, NEW request \in {"pause", "resume"},
               HandleControl(c, request)
        PROVE  CurrentIsRow'
    BY <1>1, <2>0, <2>1 DEF HandleControl, Untold, reportVars, Advance
  <2>2. ASSUME NEW c \in Controls, ControlRead(c) \/ ControlFails(c)
        PROVE  CurrentIsRow'
    BY <1>1, <2>0, <2>2 DEF ControlRead, ControlFails, Untold, reportVars, Advance
  <2>3. ASSUME NEW c \in Controls, ControlWrite(c)
        PROVE  CurrentIsRow'
    BY <2>0, <2>3 DEF ControlWrite, Write, Advance
  <2>4. ASSUME NEW c \in Controls, AnnounceControl(c)
        PROVE  CurrentIsRow'
    <3>1. status' = status /\ current' = current \ {c}
          /\ \A d \in Controls \ {c} : ctl'[d] = ctl[d]
      BY <2>4 DEF AnnounceControl, Tell, Advance
    <3> QED BY <2>0, <3>1
  <2>5. CASE HandleStop
    BY <1>1, <2>0, <2>5 DEF HandleStop, TellAhead
  <2> QED BY <1>4, <2>1, <2>2, <2>3, <2>4, <2>5 DEF Control
<1>5. CASE Gateway
  <2>1. status' = status /\ ctl' = ctl
    BY <1>5, OthersKeepSession
  <2>2. CASE SnapRead
    BY <2>1, <2>2 DEF SnapRead
  <2>3. CASE SnapFails
    BY <2>1, <2>3 DEF SnapFails, reportVars, TypeOK, Statuses, Terminal
  <2>4. CASE SnapEmit
    BY <2>1, <2>4 DEF SnapEmit, Tell
  <2> QED BY <1>5, <2>2, <2>3, <2>4 DEF Gateway
<1>6. CASE Page \/ UNCHANGED vars
  <2>1. status' = status /\ ctl' = ctl
    BY <1>6, OthersKeepSession
  <2>2. CASE Connect
    <3>1. snap = "none"
      BY <2>2 DEF Connect, Handshake, OnlyHearing, Hears
    <3> QED BY <2>1, <2>2, <3>1 DEF Connect, reportVars, TypeOK, Statuses, Terminal
  <2>3. CASE LeavePage \/ OtherConnection
    BY <2>1, <2>3 DEF LeavePage, OtherConnection, Lost, reportVars
  <2>4. CASE Fetch \/ UNCHANGED vars
    BY <2>1, <2>4 DEF Fetch, vars, reportVars
  <2> QED BY <1>6, <2>2, <2>3, <2>4 DEF Page
<1> QED BY <1>2, <1>3, <1>4, <1>5, <1>6 DEF Next

\* What may be believed before it may be believed after.
StillAgrees == \A a, p \in BOOLEAN : Agrees(a, p) => Agrees(a, p)'

\* A step that tells nothing, writes nothing and excuses no less leaves the beliefs true.
LEMMA Kept ==
  ASSUME Inv, UNCHANGED <<status, snap, active, paused, current, overtaken, doubt>>,
         StillAgrees, Excused => Excused', Starting' <=> Starting,
         \A c \in Controls : ctl'[c] \in {"paused", "resumed"} => ctl'[c] = ctl[c]
  PROVE  Beliefs'
<1>0. StartAgrees /\ ControlsAgree /\ SnapAgrees /\ ViewAgrees
  BY DEF Inv, Beliefs
<1>1. StartAgrees'
  BY <1>0 DEF StartAgrees, StillAgrees
<1>2. ControlsAgree'
  BY <1>0 DEF ControlsAgree
<1>3. SnapAgrees'
  <2>1. (snap \in Open) \in BOOLEAN /\ (snap = "PAUSED") \in BOOLEAN
    OBVIOUS
  <2>2. Agrees(snap \in Open, snap = "PAUSED") => Agrees(snap \in Open, snap = "PAUSED")'
    BY <2>1 DEF StillAgrees
  <2> QED BY <1>0, <2>2 DEF SnapAgrees
<1>4. ViewAgrees'
  BY <1>0 DEF ViewAgrees, StillAgrees, Inv, TypeOK
<1> QED BY <1>1, <1>2, <1>3, <1>4 DEF Beliefs

\* Steps of the session that write nothing and tell nothing.
Quiet ==
  \/ \E via \in {"socket", "rest"} : HandleStart(via)
  \/ StartFails \/ StartLaunch
  \/ Conclude \/ ConcludeRead \/ (ConcludeWrite /\ Untold)
  \/ Fatal \/ FailRead \/ (FailWrite /\ Untold) \/ FailClear
  \/ CompleteRead \/ (CompleteWrite /\ Untold)
  \/ \E c \in Controls :
       \/ \E request \in {"pause", "resume"} : HandleControl(c, request)
       \/ ControlRead(c) \/ ControlFails(c)

\* Such a step leaves the beliefs true: what it excuses no more is not open.
LEMMA QuietNext ==
  ASSUME Inv, Quiet
  PROVE  Beliefs'
<1>0. TypeOK /\ SessionInv
  BY DEF Inv
<1>a. Untold /\ snap' = snap
  <2>1. Untold
    BY DEF Quiet, HandleStart, StartFails, StartLaunch, Conclude, ConcludeRead, Fatal, FailRead,
           FailClear, CompleteRead, LoopRead, HandleControl, ControlRead, ControlFails
  <2>2. Start \/ End \/ Control
    BY DEF Quiet, Start, End, Control
  <2> QED BY <2>1, <2>2, SessionKeepsOthers
<1>1. UNCHANGED <<status, snap, active, paused, current, overtaken, doubt>>
  BY <1>a DEF Untold, viewVars, reportVars
<1>2. ASSUME Excused => Excused', Starting' <=> Starting,
             \/ Excused'
             \/ loop \in {"gathered", "completeWrite"} <=> loop' \in {"gathered", "completeWrite"},
             \A c \in Controls : ctl'[c] \in {"paused", "resumed"} => ctl'[c] = ctl[c]
      PROVE  Beliefs'
  <2>1. StillAgrees
    BY <1>1, <1>2 DEF StillAgrees, Agrees
  <2> QED BY <1>1, <1>2, <2>1, Kept
<1>b. /\ ctl \in [Controls -> {"none", "pause", "resume", "pausing", "resuming", "paused", "resumed"}]
      /\ starter \in {"none", "socket", "rest", "written", "silent", "launched"}
      /\ status \in Statuses
  BY <1>0 DEF TypeOK
<1> USE <1>1, <1>b
    DEF SessionInv, Excused, Orphaned, Starting, DiscussionStages, ComparisonStages, Open,
        Statuses, Terminal
<1>3. ASSUME NEW via \in {"socket", "rest"}, HandleStart(via)
      PROVE  Beliefs'
  BY <1>0, <1>2, <1>3 DEF HandleStart
<1>4. CASE StartFails
  BY <1>0, <1>2, <1>4 DEF StartFails
<1>5. CASE StartLaunch
  BY <1>0, <1>2, <1>5 DEF StartLaunch
<1>6. CASE Conclude \/ Fatal
  BY <1>0, <1>2, <1>6 DEF Conclude, Fatal, LoopStep
<1>7. CASE ConcludeRead
  BY <1>0, <1>2, <1>7 DEF ConcludeRead, LoopRead, LoopStep
<1>8. CASE ConcludeWrite
  BY <1>0, <1>2, <1>8 DEF ConcludeWrite, LoopStep
<1>9. CASE FailRead
  BY <1>0, <1>2, <1>9 DEF FailRead, LoopRead, LoopStep
<1>10. CASE FailWrite
  BY <1>0, <1>2, <1>10 DEF FailWrite, LoopStep
<1>11. CASE FailClear
  BY <1>0, <1>2, <1>11 DEF FailClear, LoopStep
<1>12. CASE CompleteRead
  BY <1>0, <1>2, <1>12 DEF CompleteRead, LoopRead, LoopStep
<1>13. CASE CompleteWrite
  BY <1>0, <1>2, <1>13 DEF CompleteWrite, LoopStep
<1>14. ASSUME NEW c \in Controls, NEW request \in {"pause", "resume"}, HandleControl(c, request)
       PROVE  Beliefs'
  BY <1>0, <1>2, <1>14 DEF HandleControl, Admits, Advance, ControlStep
<1>15. ASSUME NEW c \in Controls, ControlRead(c) \/ ControlFails(c)
       PROVE  Beliefs'
  BY <1>0, <1>2, <1>15 DEF ControlRead, ControlFails, Advance, ControlStep
<1> QED BY <1>3, <1>4, <1>5, <1>6, <1>7, <1>8, <1>9, <1>10, <1>11, <1>12, <1>13, <1>14, <1>15
        DEF Quiet

\* What is told of a status casts doubt, or is believed.
LEMMA Heard ==
  ASSUME NEW late, NEW complete, NEW nowActive, NEW nowPaused,
         Hear(late, complete, nowActive, nowPaused), OnlyHearing, ~doubt'
  PROVE  /\ active' = nowActive /\ paused' = nowPaused
         /\ ~late /\ (doubt => complete)
  BY DEF Hear, OnlyHearing, viewVars

\* A write of the row: of a start, the end, a pause or a resume.
LEMMA WriteNext ==
  ASSUME Inv, \/ StartWrite \/ ConcludeWrite \/ FailWrite \/ CompleteWrite
              \/ \E c \in Controls : ControlWrite(c)
  PROVE  Beliefs'
<1>0. /\ TypeOK /\ SessionInv /\ NeverPaused /\ Beliefs
      /\ StartAgrees /\ ControlsAgree /\ SnapAgrees /\ ViewAgrees
  BY DEF Inv, Beliefs
<1>a. snap' = snap /\ snap \in Statuses \cup {"none", "asked"} /\ status \in Statuses
  BY <1>0, SessionKeepsOthers DEF TypeOK, Start, End, Control
<1>b. ctl \in [Controls -> {"none", "pause", "resume", "pausing", "resuming", "paused", "resumed"}]
  BY <1>0 DEF TypeOK
<1>1. CASE (ConcludeWrite \/ FailWrite \/ CompleteWrite) /\ Untold
  BY <1>1, QuietNext DEF Quiet
<1>2. ASSUME WriteSilently(status'), ctl' = ctl, StartAgrees'
      PROVE  Beliefs'
  <2>1. doubt' /\ overtaken' = overtaken \cup Taken
    BY <1>2 DEF WriteSilently
  <2>2. \A c \in Controls : ctl'[c] \in {"paused", "resumed"} => c \in overtaken'
    BY <1>2, <2>1 DEF Taken
  <2>3. snap' \in Statuses => "snapshot" \in overtaken'
    BY <1>a, <2>1 DEF Taken
  <2> QED BY <1>2, <2>1, <2>2, <2>3 DEF Beliefs, ControlsAgree, SnapAgrees, ViewAgrees
<1>3. CASE StartWrite
  <2>1. /\ status = "PENDING" /\ status' = "ACTIVE" /\ loop' = loop /\ loop = "idle" /\ ctl' = ctl
        /\ \A c \in Controls : ctl[c] = "none"
    BY <1>0, <1>3 DEF StartWrite, Write, WriteSilently, SessionInv
  <2>2. CASE Write("start", "ACTIVE") /\ starter' = "written"
    <3>1. Starting' /\ current' = {"start"}
      BY <2>2 DEF Starting, Write
    <3>2. Agrees(TRUE, FALSE)'
      BY <2>1, <3>1, Reports DEF Agrees, Open
    <3>3. ControlsAgree'
      BY <2>1 DEF ControlsAgree
    <3> QED BY <3>1, <3>2, <3>3 DEF Beliefs, StartAgrees, SnapAgrees, ViewAgrees
  <2>3. CASE WriteSilently("ACTIVE") /\ starter' = "silent"
    <3>1. StartAgrees'
      BY <2>3 DEF StartAgrees, Starting
    <3> QED BY <1>2, <2>1, <2>3, <3>1
  <2> QED BY <1>3, <2>2, <2>3 DEF StartWrite
<1>4. CASE ConcludeWrite /\ ~Untold
  <2>1. loop' = "ended"
    BY <1>4 DEF ConcludeWrite, LoopStep
  <2>2. Excused'
    BY <2>1 DEF Excused, DiscussionStages
  <2> QED BY <2>2 DEF Beliefs, StartAgrees, ControlsAgree, SnapAgrees, ViewAgrees, Agrees
<1>5. CASE FailWrite /\ ~Untold
  <2>1. WriteSilently("CANCELLED") /\ ctl' = ctl /\ starter' = starter
    BY <1>5 DEF FailWrite, LoopStep
  <2>2. StartAgrees'
    BY <2>1 DEF StartAgrees, Starting, WriteSilently, Taken
  <2>3. status' = "CANCELLED"
    BY <2>1 DEF WriteSilently
  <2> QED BY <1>2, <2>1, <2>2, <2>3
<1>6. CASE CompleteWrite /\ ~Untold
  <2>1. /\ loop = "completeWrite" /\ loop' = "idle" /\ status' = "COMPLETED" /\ starter' = starter
        /\ active' = active /\ paused' = paused /\ doubt' = doubt /\ overtaken' = overtaken
        /\ ctl' = ctl
    BY <1>6 DEF CompleteWrite, LoopStep, viewVars
  <2>2. ~Starting /\ ~Starting' /\ type = "COMPARISON" /\ \A c \in Controls : ctl[c] = "none"
    BY <1>0, <2>1, TypesAssumption
    DEF SessionInv, Starting, ComparisonStages, TypeOK, AllTypes
  <2>3. \A a, p : Agrees(a, p) => ~a /\ ~p
    BY <1>0, <2>1 DEF Agrees, Excused, Orphaned, SessionInv, DiscussionStages, ComparisonStages
  <2>4. ASSUME NEW a, NEW p, ~a, ~p
        PROVE  Agrees(a, p)'
    BY <2>1, <2>4 DEF Agrees, Open
  <2>5. ViewAgrees'
    <3>1. CASE doubt
      BY <2>1, <3>1 DEF ViewAgrees
    <3>2. CASE ~doubt
      <4>1. ~active /\ ~paused
        BY <1>0, <2>2, <2>3, <3>2 DEF ViewAgrees
      <4> QED BY <2>1, <4>1 DEF ViewAgrees, Agrees, Open
    <3> QED BY <3>1, <3>2
  <2>6. SnapAgrees'
    <3> SUFFICES ASSUME snap \in Statuses, "snapshot" \notin overtaken
                 PROVE  Agrees(snap \in Open, snap = "PAUSED")'
      BY <1>a, <2>1 DEF SnapAgrees
    <3>1. ~(snap \in Open) /\ ~(snap = "PAUSED")
      BY <1>0, <2>2, <2>3 DEF SnapAgrees
    <3> QED BY <1>a, <2>1, <3>1 DEF Agrees, Open
  <2> QED BY <2>1, <2>2, <2>5, <2>6 DEF Beliefs, StartAgrees, ControlsAgree
<1>7. ASSUME NEW c \in Controls, ControlWrite(c)
      PROVE  Beliefs'
  <2>1. /\ status' \in Open /\ current' = {c} /\ c \in Controls \cap current' /\ ctl[c] # "none"
        /\ UNCHANGED <<flag, loop, starter, active, paused, doubt, overtaken>>
    BY <1>7 DEF ControlWrite, Write, Advance, ControlStep, viewVars, Open
  <2>2. Controls \cap current' # {}
    BY <2>1
  <2>3. status # "PENDING" /\ starter \notin {"written", "silent"} /\ type # "COMPARISON"
        /\ loop \notin {"gathered", "completeWrite"}
    BY <1>0, <2>1 DEF SessionInv, ComparisonStages
  <2>4. Excused' \/ (status \in Open /\ ~Excused)
    BY <1>0, <1>a, <2>1, <2>3
    DEF Excused, Orphaned, SessionInv, DiscussionStages, ComparisonStages, Open, TypeOK
  <2>5. ControlsAgree'
    BY <2>2 DEF ControlsAgree
  <2>6. StartAgrees'
    <3> SUFFICES ASSUME Starting, "start" \notin overtaken
                 PROVE  Agrees(TRUE, FALSE)'
      BY <2>1 DEF StartAgrees, Starting
    <3> QED BY <2>1, <2>2, <2>3 DEF Agrees
  <2>7. SnapAgrees'
    <3> SUFFICES ASSUME snap \in Statuses, "snapshot" \notin overtaken, ~Starting
                 PROVE  Agrees(snap \in Open, snap = "PAUSED")'
      BY <1>a, <2>1 DEF SnapAgrees, Starting
    <3>1. Excused' \/ (snap \in Open <=> status' \in Open)
      <4>1. Agrees(snap \in Open, snap = "PAUSED")
        BY <1>0 DEF SnapAgrees
      <4> QED BY <2>1, <2>3, <2>4, <4>1 DEF Agrees
    <3> QED BY <1>a, <2>1, <2>2, <2>3, <3>1 DEF Agrees
  <2>8. ViewAgrees'
    <3> SUFFICES ASSUME ~doubt, ~Starting
                 PROVE  Agrees(active, paused)'
      BY <2>1 DEF ViewAgrees, Starting
    <3>1. Excused' \/ (active <=> status' \in Open)
      <4>1. Agrees(active, paused)
        BY <1>0 DEF ViewAgrees
      <4> QED BY <2>1, <2>3, <2>4, <4>1 DEF Agrees
    <3> QED BY <2>1, <2>2, <2>3, <3>1 DEF Agrees
  <2> QED BY <2>5, <2>6, <2>7, <2>8 DEF Beliefs
<1> QED BY <1>1, <1>3, <1>4, <1>5, <1>6, <1>7

\* An event: of a start, told or not, the end, a pause or a resume, or a stop.
LEMMA EventNext ==
  ASSUME Inv, \/ AnnounceStart \/ StartUntold \/ AnnounceEnd \/ AnnounceComplete \/ HandleStop
              \/ \E c \in Controls : AnnounceControl(c)
  PROVE  Beliefs'
<1>0. /\ TypeOK /\ SessionInv /\ NeverPaused /\ OnlyHearing /\ CurrentIsRow
      /\ StartAgrees /\ ControlsAgree /\ SnapAgrees /\ ViewAgrees
  BY DEF Inv, Beliefs
<1>a. /\ snap' = snap /\ snap \in Statuses \cup {"none", "asked"} /\ status \in Statuses
      /\ status' = status
  <2>1. Start \/ End \/ Control
    BY DEF Start, End, Control
  <2> QED
    BY <1>0, <2>1, SessionKeepsOthers
    DEF TypeOK, AnnounceStart, StartUntold, AnnounceEnd, AnnounceComplete, HandleStop,
        AnnounceControl, Tell, TellAhead
<1>b. ctl \in [Controls -> {"none", "pause", "resume", "pausing", "resuming", "paused", "resumed"}]
  BY <1>0 DEF TypeOK
<1>c. (snap \in Open) \in BOOLEAN /\ (snap = "PAUSED") \in BOOLEAN
  OBVIOUS
\* An event ahead of its write: what was taken before is overtaken.
<1>1. ASSUME overtaken' = overtaken \cup Taken, ctl' = ctl, Starting' => Starting, ViewAgrees'
      PROVE  Beliefs'
  <2>1. \A c \in Controls : ctl'[c] \in {"paused", "resumed"} => c \in overtaken'
    BY <1>1 DEF Taken
  <2>2. snap' \in Statuses => "snapshot" \in overtaken'
    BY <1>a, <1>1 DEF Taken
  <2>3. Starting' => "start" \in overtaken'
    BY <1>1 DEF Taken, Starting
  <2> QED BY <1>1, <2>1, <2>2, <2>3 DEF Beliefs, StartAgrees, ControlsAgree, SnapAgrees
<1>2. CASE AnnounceComplete
  <2>1. /\ overtaken' = overtaken \cup Taken /\ ctl' = ctl /\ starter' = starter
        /\ loop = "answers" /\ loop' = "gathered" /\ Hear(FALSE, TRUE, FALSE, paused)
    BY <1>2 DEF AnnounceComplete, TellAhead, LoopStep
  <2>2. type = "COMPARISON"
    BY <1>0, <2>1, TypesAssumption DEF SessionInv, ComparisonStages, TypeOK, AllTypes
  <2>3. ViewAgrees'
    <3> SUFFICES ASSUME ~doubt' PROVE Agrees(active, paused)'
      BY DEF ViewAgrees
    <3>1. active' = FALSE /\ paused' = paused /\ paused = FALSE
      BY <1>0, <2>1, <2>2, Heard DEF NeverPaused
    <3> QED BY <2>1, <3>1 DEF Agrees
  <2> QED BY <1>1, <2>1, <2>3 DEF Starting
<1>3. CASE HandleStop
  <2>1. /\ overtaken' = overtaken \cup Taken /\ ctl' = ctl /\ starter' = starter /\ loop' = loop
        /\ flag' = "stopped" /\ flag # "none" /\ Hear(FALSE, TRUE, FALSE, FALSE)
    BY <1>3 DEF HandleStop, TellAhead, ControlStep, Admits
  <2>2. ViewAgrees'
    <3> SUFFICES ASSUME ~doubt' PROVE Agrees(active, paused)'
      BY DEF ViewAgrees
    <3>1. active' = FALSE /\ paused' = FALSE
      BY <1>0, <2>1, Heard
    <3>2. loop \in DiscussionStages
      BY <1>0, <2>1 DEF TypeOK
    <3>3. CASE loop # "failed"
      BY <2>1, <3>2, <3>3 DEF Agrees, Excused
    <3>4. CASE loop = "failed"
      BY <1>a, <2>1, <3>1, <3>4 DEF Agrees, Excused, Open
    <3> QED BY <3>3, <3>4
  <2> QED BY <1>1, <2>1, <2>2 DEF Starting
<1>4. CASE AnnounceEnd
  <2>1. /\ loop \in {"ended", "refused"} /\ loop' = "idle" /\ ctl' = ctl /\ starter' = starter
        /\ current' \subseteq current /\ current \subseteq current' \cup {"end"}
    BY <1>4 DEF AnnounceEnd, LoopStep, Tell, TellAhead
  <2>2. status # "PENDING" /\ starter \in {"none", "launched"}
        /\ (loop = "refused" => status \in Open)
    BY <1>0, <2>1 DEF SessionInv, DiscussionStages
  <2>3. status \in Open => Excused'
    BY <1>a, <2>1, <2>2 DEF Excused, Orphaned
  <2>4. ViewAgrees'
    <3> SUFFICES ASSUME ~doubt' PROVE Agrees(active, paused)'
      BY DEF ViewAgrees
    <3>1. active' = FALSE /\ paused' = FALSE
      BY <1>0, <1>4, Heard DEF AnnounceEnd, Tell, TellAhead
    <3> QED BY <1>a, <2>1, <2>3, <3>1 DEF Agrees, Open
  <2>5. CASE loop = "refused"
    <3>1. overtaken' = overtaken \cup Taken
      BY <1>4, <2>5 DEF AnnounceEnd, LoopStep, TellAhead
    <3> QED BY <1>1, <2>1, <2>4, <3>1 DEF Starting
  <2>6. CASE loop = "ended"
    <3>1. overtaken' = (overtaken \cup (Taken \ current)) \ {"end"}
      BY <1>4, <2>6 DEF AnnounceEnd, LoopStep, Tell, Overtake
    <3>2. StartAgrees'
      <4> SUFFICES ASSUME Starting', "start" \notin overtaken'
                   PROVE  Agrees(TRUE, FALSE)'
        BY DEF StartAgrees
      <4>1. "start" \in current
        BY <2>1, <3>1 DEF Taken, Starting
      <4> QED BY <1>0, <2>3, <4>1 DEF CurrentIsRow, Agrees, Open
    <3>3. ControlsAgree'
      <4> SUFFICES ASSUME NEW c \in Controls, ctl[c] \in {"paused", "resumed"},
                          c \notin overtaken'
                   PROVE  c \in current'
        BY <2>1 DEF ControlsAgree
      <4> QED BY <2>1, <3>1, Reports DEF Taken
    <3>4. SnapAgrees'
      <4> SUFFICES ASSUME snap \in Statuses, "snapshot" \notin overtaken'
                   PROVE  Agrees(snap \in Open, snap = "PAUSED")'
        BY <1>a DEF SnapAgrees
      <4>1. "snapshot" \in current
        BY <3>1 DEF Taken
      <4>2. snap = status
        BY <1>0, <4>1 DEF CurrentIsRow
      <4> QED BY <1>a, <2>1, <4>2 DEF Agrees
    <3> QED BY <2>4, <3>2, <3>3, <3>4 DEF Beliefs
  <2> QED BY <2>1, <2>5, <2>6
<1>5. CASE AnnounceStart \/ StartUntold
  <2>1. /\ Starting /\ ~Starting' /\ ctl' = ctl /\ flag' = flag /\ current' = current \ {"start"}
        /\ overtaken' = (overtaken \cup (Taken \ current)) \ {"start"}
        /\ \/ doubt'
           \/ Hear("start" \in overtaken, TRUE, TRUE, IF starter = "launched" THEN FALSE ELSE paused)
    BY <1>5 DEF AnnounceStart, StartUntold, Tell, Overtake, Starting
  <2>2. Controls \cap current' = Controls \cap current
    BY <2>1, Reports
  <2>3. \/ loop' = loop /\ starter = "launched" /\ starter' = "none"
        \/ /\ loop = "idle" /\ loop' = "answers" /\ starter = "written" /\ starter' = "none"
           /\ type = "COMPARISON"
    BY <1>0, <1>5 DEF AnnounceStart, StartUntold, SessionInv
  <2>4. Excused => Excused'
    BY <1>a, <2>1, <2>3 DEF Excused, Orphaned, DiscussionStages
  <2>5. ViewAgrees'
    <3> SUFFICES ASSUME ~doubt' PROVE Agrees(active, paused)'
      BY DEF ViewAgrees
    <3>1. active' = TRUE /\ paused' = FALSE /\ "start" \notin overtaken
      BY <1>0, <2>1, <2>3, Heard DEF NeverPaused
    <3>2. Agrees(TRUE, FALSE)
      BY <1>0, <2>1, <3>1 DEF StartAgrees
    <3> QED BY <1>a, <2>2, <2>3, <2>4, <3>1, <3>2 DEF Agrees
  <2>6. SnapAgrees'
    <3> SUFFICES ASSUME snap \in Statuses, "snapshot" \notin overtaken'
                 PROVE  Agrees(snap \in Open, snap = "PAUSED")'
      BY <1>a DEF SnapAgrees
    <3>1. "snapshot" \in current
      BY <2>1 DEF Taken
    <3>2. snap = status
      BY <1>0, <3>1 DEF CurrentIsRow
    <3>3. loop' \notin {"gathered", "completeWrite"}
      BY <1>0, <2>1, <2>3 DEF SessionInv, ComparisonStages, Starting
    <3> QED BY <1>a, <3>2, <3>3 DEF Agrees
  <2>7. ControlsAgree'
    <3> SUFFICES ASSUME NEW c \in Controls, ctl[c] \in {"paused", "resumed"}, c \notin overtaken'
                 PROVE  c \in current'
      BY <2>1 DEF ControlsAgree
    <3> QED BY <2>1, Reports DEF Taken
  <2> QED BY <2>1, <2>5, <2>6, <2>7 DEF Beliefs, StartAgrees
<1>6. ASSUME NEW c \in Controls, AnnounceControl(c)
      PROVE  Beliefs'
  <2>1. /\ loop' = loop /\ starter' = starter /\ flag' = flag /\ current' = current \ {c}
        /\ ctl[c] \in {"paused", "resumed"} /\ ctl'[c] = "none"
        /\ \A d \in Controls \ {c} : ctl'[d] = ctl[d]
        /\ overtaken' = (overtaken \cup (Taken \ current)) \ {c}
        /\ Hear(c \in overtaken, FALSE, active, ctl[c] = "paused")
    BY <1>6, <1>b DEF AnnounceControl, Tell, Overtake, Advance, ControlStep
  <2>2. Starting' = Starting /\ Excused' = Excused /\ c # "start" /\ c # "snapshot"
    BY <1>a, <2>1, Reports DEF Starting, Excused, Orphaned
  <2>3. StartAgrees'
    <3> SUFFICES ASSUME Starting, "start" \notin overtaken'
                 PROVE  Agrees(TRUE, FALSE)'
      BY <2>2 DEF StartAgrees
    <3>1. "start" \in current
      BY <2>1, <2>2 DEF Taken, Starting
    <3>2. status = "ACTIVE"
      BY <1>0, <3>1 DEF CurrentIsRow
    <3>3. loop \notin {"gathered", "completeWrite"}
      BY <1>0, <2>1 DEF SessionInv, TypeOK, AllTypes, ComparisonStages, Starting
    <3> QED BY <1>a, <2>1, <3>2, <3>3 DEF Agrees, Open
  <2>4. SnapAgrees'
    <3> SUFFICES ASSUME snap \in Statuses, "snapshot" \notin overtaken'
                 PROVE  Starting' \/ Agrees(snap \in Open, snap = "PAUSED")'
      BY <1>a DEF SnapAgrees
    <3>1. "snapshot" \in current
      BY <2>1, <2>2 DEF Taken
    <3>2. snap = status
      BY <1>0, <3>1 DEF CurrentIsRow
    <3>3. loop \notin {"gathered", "completeWrite"}
      BY <1>0, <2>1, TypesAssumption DEF SessionInv, TypeOK, AllTypes, ComparisonStages
    <3> QED BY <1>a, <2>1, <3>2, <3>3 DEF Agrees
  <2>5. ControlsAgree'
    <3> SUFFICES ASSUME NEW d \in Controls, ctl'[d] \in {"paused", "resumed"},
                        d \notin overtaken'
                 PROVE  d \in current'
      BY DEF ControlsAgree
    <3>1. d # c /\ ctl[d] \in {"paused", "resumed"}
      BY <2>1
    <3>2. d \in Taken
      BY <3>1 DEF Taken
    <3> QED BY <2>1, <3>1, <3>2
  <2>6. ViewAgrees'
    <3> SUFFICES ASSUME ~doubt', ~Starting, ~Excused
                 PROVE  Agrees(active, paused)'
      BY <2>2 DEF ViewAgrees, Agrees
    <3>1. active' = active /\ paused' = (ctl[c] = "paused") /\ c \notin overtaken /\ ~doubt
      BY <1>0, <2>1 DEF Hear, OnlyHearing
    <3>2. loop \notin {"gathered", "completeWrite"}
      BY <1>0, <2>1, TypesAssumption DEF SessionInv, TypeOK, AllTypes, ComparisonStages
    <3>3. active <=> status \in Open
      <4>1. Agrees(active, paused)
        BY <1>0, <3>1 DEF ViewAgrees
      <4> QED BY <3>2, <4>1 DEF Agrees
    <3>4. CASE c \in current
      <4>1. status = IF ctl[c] = "paused" THEN "PAUSED" ELSE "ACTIVE"
        BY <1>0, <3>4 DEF CurrentIsRow
      <4>2. paused' <=> status = "PAUSED"
        BY <3>1, <4>1
      <4> QED BY <1>a, <2>1, <3>1, <3>2, <3>3, <4>2 DEF Agrees
    <3>5. CASE c \notin current
      <4>1. Controls \cap current # {}
        BY <1>0, <2>1, <3>1, <3>5 DEF ControlsAgree
      <4>2. current' = current
        BY <2>1, <3>5
      <4> QED BY <1>a, <2>1, <3>1, <3>2, <3>3, <4>1, <4>2 DEF Agrees
    <3> QED BY <3>4, <3>5
  <2> QED BY <2>3, <2>4, <2>5, <2>6 DEF Beliefs
<1> QED BY <1>2, <1>3, <1>4, <1>5, <1>6

\* A snapshot says what was read, if nothing newer was told meanwhile.
LEMMA GatewayNext ==
  ASSUME Inv, Gateway
  PROVE  Beliefs'
<1>0. /\ TypeOK /\ SessionInv /\ NeverPaused /\ OnlyHearing /\ CurrentIsRow
      /\ StartAgrees /\ ControlsAgree /\ SnapAgrees /\ ViewAgrees
  BY DEF Inv, Beliefs
<1>a. UNCHANGED <<type, status, flag, loop, starter, ctl>> /\ status \in Statuses
  BY <1>0, OthersKeepSession DEF TypeOK
<1>b. Starting' = Starting /\ Excused' = Excused
  BY <1>a DEF Starting, Excused, Orphaned
<1>1. ASSUME Controls \cap current' = Controls \cap current, current \ {"snapshot"} \subseteq current',
             overtaken \ {"snapshot"} \subseteq overtaken'
      PROVE  StartAgrees' /\ ControlsAgree' /\ \A a, p : Agrees(a, p)' <=> Agrees(a, p)
  <2>1. \A a, p : Agrees(a, p)' <=> Agrees(a, p)
    BY <1>1, <1>a, <1>b DEF Agrees
  <2>2. StartAgrees'
    BY <1>0, <1>1, <1>b, <2>1 DEF StartAgrees
  <2>3. ControlsAgree'
    BY <1>0, <1>1, <1>a, <1>b, Reports DEF ControlsAgree
  <2> QED BY <2>1, <2>2, <2>3
<1>2. CASE SnapRead
  <2>1. /\ snap' = status /\ current' = current \cup {"snapshot"} /\ doubt' = doubt
        /\ active' = active /\ paused' = paused /\ overtaken \subseteq overtaken'
        /\ (loop \in {"gathered", "completeWrite"} => "snapshot" \in overtaken')
    BY <1>2 DEF SnapRead, viewVars
  <2>2. /\ StartAgrees' /\ ControlsAgree' /\ \A a, p : Agrees(a, p)' <=> Agrees(a, p)
    BY <1>1, <2>1, Reports
  <2>3. ViewAgrees'
    BY <1>0, <1>b, <2>1, <2>2 DEF ViewAgrees
  <2>4. SnapAgrees'
    BY <1>a, <2>1 DEF SnapAgrees, Agrees
  <2> QED BY <2>2, <2>3, <2>4 DEF Beliefs
<1>3. CASE SnapFails
  <2>1. /\ snap' = "none" /\ current' = current /\ doubt' = doubt
        /\ active' = active /\ paused' = paused /\ overtaken' = overtaken
    BY <1>3 DEF SnapFails, viewVars, reportVars
  <2>2. /\ StartAgrees' /\ ControlsAgree' /\ \A a, p : Agrees(a, p)' <=> Agrees(a, p)
    BY <1>1, <2>1
  <2>3. ViewAgrees'
    BY <1>0, <1>b, <2>1, <2>2 DEF ViewAgrees
  <2>4. SnapAgrees'
    BY <2>1 DEF SnapAgrees, Statuses, Terminal
  <2> QED BY <2>2, <2>3, <2>4 DEF Beliefs
<1>4. CASE SnapEmit
  <2>1. /\ snap \in Statuses /\ snap' = "none" /\ current' = current \ {"snapshot"}
        /\ overtaken' = (overtaken \cup (Taken \ current)) \ {"snapshot"}
        /\ Hear("snapshot" \in overtaken, TRUE, snap \in Open, snap = "PAUSED")
    BY <1>4 DEF SnapEmit, Tell, Overtake
  <2>2. /\ StartAgrees' /\ ControlsAgree' /\ \A a, p : Agrees(a, p)' <=> Agrees(a, p)
    BY <1>1, <2>1, Reports
  <2>3. SnapAgrees'
    BY <2>1 DEF SnapAgrees, Statuses, Terminal
  <2>4. ViewAgrees'
    <3> SUFFICES ASSUME ~doubt', ~Starting
                 PROVE  Agrees(active, paused)'
      BY <1>b DEF ViewAgrees
    <3>1. /\ active' = (snap \in Open) /\ paused' = (snap = "PAUSED")
          /\ "snapshot" \notin overtaken
      BY <1>0, <2>1 DEF Hear, OnlyHearing
    <3>2. Agrees(snap \in Open, snap = "PAUSED")
      BY <1>0, <2>1, <3>1 DEF SnapAgrees
    <3>3. Controls \cap current' = Controls \cap current
      BY <2>1, Reports
    <3> QED BY <1>a, <1>b, <3>1, <3>2, <3>3 DEF Agrees
  <2> QED BY <2>2, <2>3, <2>4 DEF Beliefs
<1> QED BY <1>2, <1>3, <1>4 DEF Gateway

\* The page's connection tells it nothing, and a page that does not hear believes
\* nothing.
LEMMA PageNext ==
  ASSUME Inv, Page \/ UNCHANGED vars
  PROVE  Beliefs'
<1>0. /\ TypeOK /\ OnlyHearing /\ StartAgrees /\ ControlsAgree /\ SnapAgrees /\ ViewAgrees
  BY DEF Inv, Beliefs
<1>a. UNCHANGED <<type, status, flag, loop, starter, ctl>>
  BY OthersKeepSession
<1>b. Starting' = Starting /\ Excused' = Excused
  BY <1>a DEF Starting, Excused, Orphaned
<1>1. ASSUME Controls \cap current' = Controls \cap current, current \ {"snapshot"} \subseteq current',
             overtaken \ {"snapshot"} \subseteq overtaken'
      PROVE  StartAgrees' /\ ControlsAgree' /\ \A a, p : Agrees(a, p)' <=> Agrees(a, p)
  <2>1. \A a, p : Agrees(a, p)' <=> Agrees(a, p)
    BY <1>1, <1>a, <1>b DEF Agrees
  <2>2. StartAgrees'
    BY <1>0, <1>1, <1>b, <2>1 DEF StartAgrees
  <2>3. ControlsAgree'
    BY <1>0, <1>1, <1>a, <1>b, Reports DEF ControlsAgree
  <2> QED BY <2>1, <2>2, <2>3
<1>2. CASE Lost
  <2>1. StartAgrees' /\ ControlsAgree'
    BY <1>1, <1>2, Reports DEF Lost
  <2>2. SnapAgrees' /\ ViewAgrees'
    BY <1>2 DEF Lost, SnapAgrees, ViewAgrees, Statuses, Terminal
  <2> QED BY <2>1, <2>2 DEF Beliefs
<1>3. CASE ~Lost
  <2>1. /\ UNCHANGED <<current, overtaken, doubt, active, paused>>
        /\ snap' = snap \/ snap' \in {"asked", "none"}
    BY <1>3
    DEF Page, Connect, LeavePage, OtherConnection, Fetch, vars, viewVars, reportVars
  <2>2. StartAgrees' /\ ControlsAgree' /\ \A a, p : Agrees(a, p)' <=> Agrees(a, p)
    BY <1>1, <2>1
  <2>3. SnapAgrees' /\ ViewAgrees'
    BY <1>0, <1>b, <2>1, <2>2 DEF SnapAgrees, ViewAgrees, Statuses, Terminal
  <2> QED BY <2>2, <2>3 DEF Beliefs
<1> QED BY <1>2, <1>3

------------------------------------------------------------------------------
(* Theorems. *)

\* Every step keeps the invariant.
LEMMA InvNext == Inv /\ [Next]_vars => Inv'
<1> SUFFICES ASSUME Inv, [Next]_vars
             PROVE  Inv'
  OBVIOUS
<1>1. TypeOK' /\ SessionInv' /\ RowFollowsFlag' /\ OnlyHearing' /\ NeverPaused' /\ CurrentIsRow'
  BY TypeNext, NeverPausedNext, CurrentNext
<1>2. Beliefs'
  <2>1. CASE Start \/ End \/ Control
    <3>1. \/ Quiet
          \/ StartWrite \/ ConcludeWrite \/ FailWrite \/ CompleteWrite
          \/ AnnounceStart \/ StartUntold \/ AnnounceEnd \/ AnnounceComplete \/ HandleStop
          \/ \E c \in Controls : ControlWrite(c) \/ AnnounceControl(c)
      BY <2>1 DEF Start, End, Control, Quiet
    <3> QED BY <3>1, QuietNext, WriteNext, EventNext
  <2>2. CASE Gateway
    BY <2>2, GatewayNext
  <2>3. CASE Page \/ UNCHANGED vars
    BY <2>3, PageNext
  <2> QED BY <2>1, <2>2, <2>3 DEF Next
<1> QED BY <1>1, <1>2 DEF Inv

\* What a page without doubt believes is wrong only while something is owed to it, or of
\* a row that nothing runs.
THEOREM Invariance == Spec => []Inv
  BY InvInit, InvNext, PTL DEF Spec

\* The session, the snapshot and the page keep their types, and a control flag exists
\* while its loop does (the handlers of CouncilService and the gateway).
THEOREM TypeCorrect == Spec => []TypeOK
<1>1. Inv => TypeOK
  BY DEF Inv
<1> QED BY Invariance, <1>1, PTL

\* At rest, what a page without doubt believes is what may be believed of an open row.
LEMMA AtRestAgrees ==
  ASSUME Inv, AtRest, ~doubt, ~Orphaned
  PROVE  active = (status \in Open) /\ paused = (status = "PAUSED")
<1>0. TypeOK /\ CurrentIsRow /\ ViewAgrees
  BY DEF Inv, Beliefs
<1>1. ~Starting /\ ~Excused /\ loop \notin {"gathered", "completeWrite"}
  BY DEF AtRest, Starting, Excused, DiscussionStages
<1>2. Controls \cap current = {}
  BY <1>0 DEF AtRest, CurrentIsRow
<1>3. (active <=> status \in Open) /\ (paused <=> status = "PAUSED")
  BY <1>0, <1>1, <1>2 DEF ViewAgrees, Agrees
<1> QED BY <1>0, <1>3 DEF TypeOK

\* At rest, a page that heard every report in order shows the status of the row, however
\* its handlers, the updates of the row and the snapshot of its connection interleave
\* (use-websocket.ts, SessionService.update, handleConnection of discussion.gateway.ts);
\* of a row that is left open with nothing to run it there is no such promise.
THEOREM ViewsAreCurrent == Spec => []ViewIsCurrent
<1>1. Inv => ViewIsCurrent
  BY AtRestAgrees DEF ViewIsCurrent
<1> QED BY Invariance, <1>1, PTL

\* A Pause that such a page offers is accepted by pauseDiscussion, unless the updates of
\* pauses and resumes overlapped or one was rejected (SessionControls.tsx and the control
\* flag of council.service.ts).
THEOREM PausesAreAccepted == Spec => []PauseIsAccepted
<1>1. Inv => PauseIsAccepted
  <2> SUFFICES ASSUME Inv, AtRest, ~doubt, ~Orphaned, "pause" \in Offered, ~astray
               PROVE  Admits("pause")
    BY DEF PauseIsAccepted
  <2>1. active = (status \in Open) /\ paused = (status = "PAUSED")
    BY AtRestAgrees
  <2>2. active = TRUE /\ paused = FALSE /\ type = "DISCUSSION"
    BY DEF Offered, ShownStatus, Statuses, Terminal, Inv, TypeOK
  <2>3. status = "ACTIVE"
    BY <2>1, <2>2 DEF Open
  <2>4. loop = "turns" /\ flag # "none" /\ flag # "stopped"
    <3>1. loop \in {"idle", "turns", "answers"} /\ flag # "stopped"
      BY DEF AtRest
    <3>2. loop # "idle"
      BY <2>3 DEF AtRest, Orphaned, Open
    <3>3. loop # "answers"
      BY <2>2 DEF Inv, SessionInv, ComparisonStages
    <3> QED BY <3>1, <3>2, <3>3 DEF Inv, TypeOK, DiscussionStages
  <2>5. flag # "paused"
    BY <2>3, <2>4 DEF Inv, RowFollowsFlag, AtRest, Updating
  <2>6. flag = "running"
    BY <2>4, <2>5 DEF Inv, TypeOK
  <2> QED BY <2>6 DEF Admits
<1> QED BY Invariance, <1>1, PTL
==============================================================================

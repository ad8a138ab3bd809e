-------------------------- MODULE DiscussionLifecycle --------------------------
(***************************************************************************)
(* What a discussion session promises to the people who control it: a      *)
(* session is started once, turns begin only while it is running, so that  *)
(* at most the turn under way when it is paused or stopped still adds a    *)
(* message, a stopped session comes to its end, and an ended one is silent.*)
(***************************************************************************)
EXTENDS Naturals

CONSTANT Limit     \* most messages a session holds

VARIABLES phase,   \* "pending", "running", "paused", "stopped" or "over"
          turn,    \* a turn is under way
          said     \* expert messages so far

vars == <<phase, turn, said>>

Init == phase = "pending" /\ turn = FALSE /\ said = 0

\* The first turn is under way at once.
Start == phase = "pending" /\ phase' = "running" /\ turn' = TRUE /\ UNCHANGED said

Pause == phase = "running" /\ phase' = "paused" /\ UNCHANGED <<turn, said>>

\* A session that had come to rest takes up a turn with the resumption itself.
Resume ==
  /\ phase = "paused"
  /\ phase' = "running"
  /\ turn' \in {turn, TRUE}
  /\ UNCHANGED said

Stop ==
  /\ phase \in {"running", "paused"}
  /\ phase' = "stopped"
  /\ UNCHANGED <<turn, said>>

BeginTurn == phase = "running" /\ ~turn /\ turn' = TRUE /\ UNCHANGED <<phase, said>>

Speak ==
  /\ turn
  /\ said < Limit
  /\ said' = said + 1
  /\ turn' = FALSE
  /\ UNCHANGED phase

\* The expert failed or had nothing to say, or there was no room.
Skip == turn /\ turn' = FALSE /\ UNCHANGED <<phase, said>>

End ==
  /\ phase \in {"running", "paused", "stopped"}
  /\ phase' = "over"
  /\ turn' = FALSE
  /\ UNCHANGED said

Next == Start \/ Pause \/ Resume \/ Stop \/ BeginTurn \/ Speak \/ Skip \/ End

Spec == Init /\ [][Next]_vars

\* Only a stop obliges the session to end.
LiveSpec == Spec /\ WF_vars(phase = "stopped" /\ End)
==============================================================================

---------------------------- MODULE SessionStatus ----------------------------
(***************************************************************************)
(* The status column of a session row and the state machine that           *)
(* SessionService.update enforces on it (src/session/session.service.ts).  *)
(***************************************************************************)

Terminal == {"COMPLETED", "CANCELLED"}

Statuses == {"PENDING", "ACTIVE", "PAUSED"} \cup Terminal

\* A deleted row is not a status: findOne no longer finds it.
Deleted == "DELETED"

Successors(from) ==
  CASE from = "PENDING" -> {"ACTIVE", "CANCELLED"}
    [] from = "ACTIVE"  -> {"PAUSED", "COMPLETED", "CANCELLED"}
    [] from = "PAUSED"  -> {"ACTIVE", "CANCELLED"}
    [] OTHER            -> {}

\* What update accepts for a row it read with status from: a status is always
\* its own successor, and a row that is gone is a NotFoundException.
ValidTransition(from, to) ==
  from # Deleted /\ (to = from \/ to \in Successors(from))

\* What prisma.session.update makes of the row: nothing when it is gone (P2025).
Written(current, to) == IF current = Deleted THEN Deleted ELSE to
==============================================================================

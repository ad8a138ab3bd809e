------------------------- MODULE DiscussionRefinement -------------------------
(***************************************************************************)
(* A session with one start request implements DiscussionLifecycle: the    *)
(* control flag is the phase, and a turn is under way from the moment the  *)
(* loop is past the flag test until its reply is stored.                   *)
(***************************************************************************)
EXTENDS Discussion

PastFlagTest == {"woken", "intervene", "interveneCommit", "count", "turn",
                 "create", "commit"}

Phase ==
  IF flag # "none" THEN flag
  ELSE IF \E l \in Starts : pc[l] \in Over THEN "over" ELSE "pending"

UnderWay == \E l \in Starts : pc[l] \in PastFlagTest

Lifecycle == INSTANCE DiscussionLifecycle
               WITH phase <- Phase, turn <- UnderWay, said <- said,
                    Limit <- MaxMessages

\* Every behaviour of the loop and of its control requests is one of the abstract
\* session (council.service.ts, the flag and the loop that obeys it).
ImplementsLifecycle == Lifecycle!LiveSpec
==============================================================================

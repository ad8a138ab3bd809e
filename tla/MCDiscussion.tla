----------------------------- MODULE MCDiscussion -----------------------------
(***************************************************************************)
(* Instances of Discussion small enough for TLC.                           *)
(***************************************************************************)
EXTENDS DiscussionProperties, DiscussionRefinement, TLC

\* One score below the polling score of 0.7, one that polls, one above the
\* threshold; the threshold is the default 0.8.
MCScores    == {5, 7, 9}
MCThreshold == 8
NoPollScores == {5, 9}

NoFaults      == {}
\* Those that lose a session, an expert or the process, and those that keep the rows.
LosingFaults  == {"crash", "remove"}
KeepingFaults == {"database"}

\* LLMs that answer, that also fail, that never say nothing, that only do.
Answering  == {"reply"}
Failing    == {"reply", "transient"}
Talkative  == AllReplies \ {"empty"}
Speechless == {"empty"}

Symmetry == Permutations(Controls) \cup Permutations(Interventions)
==============================================================================

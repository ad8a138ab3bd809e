---------------------------- MODULE MCExpertTurn ----------------------------
(***************************************************************************)
(* An instance of ExpertTurn small enough for TLC.  The waits reach the    *)
(* largest delay and the total time, and the memories the budget, which    *)
(* one of them passes by itself.                                           *)
(***************************************************************************)
EXTENDS ExpertTurn

MCDrivers     == {"OPENAI", "ANTHROPIC"}
MCDurations   == {0, 2}
MCRetryAfters == {0, 1, 5}

MCMemories == 1..3

\* Fresh and on topic; as good but long; older; a note of full relevance and no topic
\* in common, which the filter drops once it is old.
Kinds ==
  <<[base |-> 10, weeks |-> 0, jaccard |-> 8, tokens |-> 2],
    [base |-> 10, weeks |-> 0, jaccard |-> 8, tokens |-> 4],
    [base |-> 6,  weeks |-> 4, jaccard |-> 5, tokens |-> 1],
    [base |-> 10, weeks |-> 9, jaccard |-> 0, tokens |-> 1]>>

\* The memories are alike but for their kinds: one function for each bag of kinds.
MCStocks ==
  {[m \in MCMemories |-> Kinds[kind[m]]] :
     kind \in {k \in [MCMemories -> DOMAIN Kinds] : k[1] <= k[2] /\ k[2] <= k[3]}}

\* Five memories alike, of which the tokens allow four: the sentence about the top three
\* needs more than three.
FiveMemories == 1..5
FiveAlike    == {[m \in FiveMemories |-> Kinds[3]]}
==============================================================================

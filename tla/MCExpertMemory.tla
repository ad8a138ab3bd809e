---------------------------- MODULE MCExpertMemory ----------------------------
(***************************************************************************)
(* Instances of ExpertMemory small enough for TLC.                         *)
(***************************************************************************)
EXTENDS ExpertMemory, TLC

NoEvents == {}

Symmetry == Permutations(Notes) \cup Permutations(Sessions)
==============================================================================

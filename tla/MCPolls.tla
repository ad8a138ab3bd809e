-------------------------------- MODULE MCPolls --------------------------------
(***************************************************************************)
(* Polls at a size for TLC: with two experts, three rounds and six         *)
(* messages there is room for a round, the poll's message, a round in      *)
(* which an expert speaks twice, and a round after it.                     *)
(***************************************************************************)
EXTENDS Polls
==============================================================================

---------------------------- MODULE MCPageMessages ----------------------------
(***************************************************************************)
(* PageMessages for TLC; its bounds are numbers, given by the cfg.         *)
(***************************************************************************)
EXTENDS PageMessages
==============================================================================

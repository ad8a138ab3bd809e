----------------------------- MODULE MCComparison -----------------------------
(***************************************************************************)
(* An instance of Comparison small enough for TLC.                         *)
(***************************************************************************)
EXTENDS Comparison

AllFaults == {"crash", "database", "remove"}
==============================================================================

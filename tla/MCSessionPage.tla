---------------------------- MODULE MCSessionPage ----------------------------
(***************************************************************************)
(* An instance of SessionPage small enough for TLC: both types of session, *)
(* two pauses or resumes under way at once, and two connections, one after *)
(* the other.  The requests are alike.                                     *)
(***************************************************************************)
EXTENDS SessionPage, TLC

BothTypes == {"DISCUSSION", "COMPARISON"}

Interchangeable == Permutations(Controls)
==============================================================================

------------------------------ MODULE MCListPage ------------------------------
(***************************************************************************)
(* ListPage at a size for TLC.  Two experts make one full session; with    *)
(* three fetches a refresh of the experts can be overtaken by the fetch    *)
(* that follows a change; of the analytics two fetches overtake each       *)
(* other, and the range that is applied leaves out the sessions of the     *)
(* first day by its from and those of the second by its to.                *)
(***************************************************************************)
EXTENDS ListPage, TLC

CONSTANTS e1, e2, s1, s2   \* model values

MCExpertIds  == {e1, e2}
MCSessionIds == {s1, s2}
Identifiers  == Permutations(MCExpertIds) \cup Permutations(MCSessionIds)

MCFilters    == {[from |-> 2, to |-> 2]}
Analytics    == {"analytics"}
AllKinds     == {"experts", "sessions", "analytics"}
MCMaxFetches == [k \in Kinds |-> IF k = "experts" THEN 3 ELSE 2]
MCMaxOthers  == [k \in Kinds |-> 1]
==============================================================================

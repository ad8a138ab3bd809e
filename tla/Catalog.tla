-------------------------------- MODULE Catalog --------------------------------
(***************************************************************************)
(* The rows that the experts' and the sessions' REST endpoints keep:       *)
(* src/expert/expert.service.ts, the creation and the deletion of sessions *)
(* in src/session/session.service.ts, and the foreign keys of              *)
(* prisma/schema.prisma that tie a session to its experts.                 *)
(*                                                                         *)
(* An identifier is used once.  A session is posted in two steps: the      *)
(* experts are looked up first, the transaction that writes the session    *)
(* and its SessionExpert rows comes after.                                 *)
(***************************************************************************)
EXTENDS Naturals, FiniteSets

CONSTANTS
  ExpertIds, SessionIds,   \* identifiers the database hands out (bound)
  MinChosen,               \* ArrayMinSize of CreateSessionDto.expertIds
  LastDay                  \* days on which sessions are created (bound)

ASSUME CatalogAssumption ==
  MinChosen \in Nat \ {0} /\ LastDay \in Nat \ {0}

VARIABLES
  expert,    \* an Expert row: none yet, kept, removed
  session,   \* a Session: none yet, posted, kept, refused, removed
  chosen,    \* the expertIds of its request
  places,    \* SessionExpert rows, <<session, expert>>
  day        \* the day of its createdAt; 0 before

catalogVars == <<expert, session, chosen, places, day>>

Kept(rows) == {i \in DOMAIN rows : rows[i] = "kept"}
Of(s) == {e \in ExpertIds : <<s, e>> \in places}

CatalogInit ==
  /\ expert \in [ExpertIds -> {"none", "kept"}]
  /\ session \in [SessionIds -> {"none", "kept"}]
  /\ Kept(session) # {} => Cardinality(Kept(expert)) >= MinChosen
  /\ chosen = [s \in SessionIds |-> IF session[s] = "kept" THEN Kept(expert) ELSE {}]
  /\ places = Kept(session) \X Kept(expert)
  /\ day \in [SessionIds -> 0..LastDay]
  /\ \A s \in SessionIds : day[s] = 0 <=> session[s] = "none"

CreateExpert(e) ==
  /\ expert[e] = "none"
  /\ expert' = [expert EXCEPT ![e] = "kept"]
  /\ UNCHANGED <<session, chosen, places, day>>

\* A clone copies a row read before it: all it needs is that there was one.
CloneExpert(e) ==
  /\ \E original \in ExpertIds \ {e} : expert[original] # "none"
  /\ CreateExpert(e)

\* Which data a row has is left out.
UpdateExpert(e) == expert[e] = "kept" /\ UNCHANGED catalogVars

\* onDelete: Cascade takes the expert out of its sessions.
RemoveExpert(e) ==
  /\ expert[e] = "kept"
  /\ expert' = [expert EXCEPT ![e] = "removed"]
  /\ places' = {p \in places : p[2] # e}
  /\ UNCHANGED <<session, chosen, day>>

\* create finds all the experts of the request; otherwise it throws here.
PostSession(s, experts) ==
  /\ session[s] = "none"
  /\ Cardinality(experts) >= MinChosen
  /\ experts \subseteq Kept(expert)
  /\ session' = [session EXCEPT ![s] = "posted"]
  /\ chosen' = [chosen EXCEPT ![s] = experts]
  /\ UNCHANGED <<expert, places, day>>

\* Mutant: session.create and sessionExpert.createMany run without a transaction.
InsertUnguarded(s) ==
  /\ session[s] = "posted"
  /\ \E d \in 1..LastDay :
       /\ \A t \in SessionIds : day[t] <= d
       /\ day' = [day EXCEPT ![s] = d]
  /\ session' = [session EXCEPT ![s] = "kept"]
  /\ places' = IF chosen[s] \subseteq Kept(expert)
                 THEN places \cup ({s} \X chosen[s]) ELSE places
  /\ UNCHANGED <<expert, chosen>>

\* The transaction: a foreign key that refers to no row any more (P2003) undoes it.
InsertSession(s) ==
  /\ session[s] = "posted"
  /\ \/ /\ chosen[s] \subseteq Kept(expert)
        /\ session' = [session EXCEPT ![s] = "kept"]
        /\ places' = places \cup ({s} \X chosen[s])
        /\ \E d \in 1..LastDay :
             /\ \A t \in SessionIds : day[t] <= d
             /\ day' = [day EXCEPT ![s] = d]
     \/ /\ ~(chosen[s] \subseteq Kept(expert))
        /\ session' = [session EXCEPT ![s] = "refused"]
        /\ UNCHANGED <<places, day>>
  /\ UNCHANGED <<expert, chosen>>

RemoveSession(s) ==
  /\ session[s] = "kept"
  /\ session' = [session EXCEPT ![s] = "removed"]
  /\ places' = {p \in places : p[1] # s}
  /\ UNCHANGED <<expert, chosen, day>>

CatalogTypeOK ==
  /\ expert \in [ExpertIds -> {"none", "kept", "removed"}]
  /\ session \in [SessionIds -> {"none", "posted", "kept", "refused", "removed"}]
  /\ chosen \in [SessionIds -> SUBSET ExpertIds]
  /\ places \subseteq SessionIds \X ExpertIds
  /\ day \in [SessionIds -> 0..LastDay]

\* A session has been written with all the experts it was posted with: it is without
\* one of them only when that expert has been removed since, and no row of places is
\* left of a session or of an expert that is gone.  (The experts are looked up before
\* the transaction: session.service.ts:41-93.)
SessionsAreWhole ==
  /\ \A s \in Kept(session) : Of(s) = chosen[s] \cap Kept(expert)
  /\ \A s \in SessionIds \ Kept(session) : Of(s) = {}
==============================================================================

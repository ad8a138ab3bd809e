----------------------------- MODULE ExpertMemory -----------------------------
(***************************************************************************)
(* The memories of one expert: MemoryService (src/memory/memory.service.ts)*)
(* with the requests that add user notes and the generations that the      *)
(* council starts, without awaiting them, when a session has ended.        *)
(*                                                                         *)
(* Every prisma call that matters is a step of its own: a prune counts,    *)
(* then selects, then deletes, and anything may happen in between.         *)
(***************************************************************************)
EXTENDS Naturals, FiniteSets

CONSTANTS
  Notes,        \* requests that create a USER_NOTE
  Sessions,     \* ended sessions whose memory is generated
  MaxInsights,  \* most insights kept of one answer (five in the code)
  MaxEntries,   \* expert.memoryMaxEntries
  Events        \* what else may happen: a subset of AllEvents

AllEvents == {"crash", "failure", "expert deleted", "entry deleted"}

Requests == Notes \cup Sessions

ASSUME RequestsAssumption == IsFiniteSet(Requests) /\ Notes \cap Sessions = {}
ASSUME BoundsAssumption   == MaxInsights \in Nat /\ MaxEntries \in Nat
ASSUME EventsAssumption   == Events \subseteq AllEvents

\* An entry is named by the request that made it and its place there: a note is
\* the only entry of its request, a summary is the first of its session.
Prunable == Sessions \X (0 .. MaxInsights)
Entries  == (Notes \X {0}) \cup Prunable

VARIABLES
  expert,    \* the expert's row exists
  memories,  \* the entries in the database
  pc,        \* where a request is
  toMake,    \* entries it has to create
  made,      \* entries it has created
  excess,    \* deleteCount of its prune
  doomed     \* toDelete of its prune

vars == <<expert, memories, pc, toMake, made, excess, doomed>>

Pcs == {"idle", "chat", "create", "count", "select", "delete", "done", "failed"}

Goto(r, where) == pc' = [pc EXCEPT ![r] = where]

\* A request ends: its local variables go.
End(r, how) ==
  /\ Goto(r, how)
  /\ toMake' = [toMake EXCEPT ![r] = 0]
  /\ made' = [made EXCEPT ![r] = 0]
  /\ excess' = [excess EXCEPT ![r] = 0]
  /\ doomed' = [doomed EXCEPT ![r] = {}]

Init ==
  /\ expert = TRUE
  /\ memories = {}
  /\ pc = [r \in Requests |-> "idle"]
  /\ toMake = [r \in Requests |-> 0]
  /\ made = [r \in Requests |-> 0]
  /\ excess = [r \in Requests |-> 0]
  /\ doomed = [r \in Requests |-> {}]

(***************************************************************************)
(* create and generateSessionMemory, up to the first entry.                *)
(***************************************************************************)
CreateNote(n) ==
  /\ pc[n] = "idle"
  /\ IF expert
       THEN Goto(n, "create") /\ toMake' = [toMake EXCEPT ![n] = 1]
       ELSE Goto(n, "done") /\ UNCHANGED toMake
  /\ UNCHANGED <<expert, memories, made, excess, doomed>>

\* Nothing is generated when the expert is gone, has its memory turned off or
\* said nothing in the session.
GenerateSessionMemory(g) ==
  /\ pc[g] = "idle"
  /\ \/ expert /\ Goto(g, "chat")
     \/ Goto(g, "done")
  /\ UNCHANGED <<expert, memories, toMake, made, excess, doomed>>

\* The LLM answers: a summary and insights, of which the first MaxInsights are
\* kept.  An error, or an answer that is no JSON, is logged.
Answer(g) ==
  /\ pc[g] = "chat"
  /\ \/ /\ Goto(g, "create")
        /\ \E k \in 0 .. MaxInsights : toMake' = [toMake EXCEPT ![g] = k + 1]
     \/ Goto(g, "done") /\ UNCHANGED toMake
  /\ UNCHANGED <<expert, memories, made, excess, doomed>>

\* One entry; without the expert's row the insert fails.
Create(r) ==
  /\ pc[r] = "create"
  /\ IF expert
       THEN /\ memories' = memories \cup {<<r, made[r]>>}
            /\ made' = [made EXCEPT ![r] = @ + 1]
            /\ Goto(r, IF made[r] + 1 < toMake[r] THEN "create" ELSE "count")
            /\ UNCHANGED <<toMake, excess, doomed>>
       ELSE End(r, "failed") /\ UNCHANGED memories
  /\ UNCHANGED expert

(***************************************************************************)
(* pruneMemories.                                                          *)
(***************************************************************************)

\* Mutant: the count may be one more than the limit.
CountShort(r) ==
  /\ pc[r] = "count"
  /\ IF Cardinality(memories) <= MaxEntries + 1
       THEN End(r, "done")
       ELSE /\ Goto(r, "select")
            /\ excess' = [excess EXCEPT ![r] = Cardinality(memories) - MaxEntries]
            /\ UNCHANGED <<toMake, made, doomed>>
  /\ UNCHANGED <<expert, memories>>

\* Mutant: the difference is taken without the comparison that guards it.
CountUnguarded(r) ==
  /\ pc[r] = "count"
  /\ Goto(r, "select")
  /\ excess' = [excess EXCEPT ![r] = Cardinality(memories) - MaxEntries]
  /\ UNCHANGED <<expert, memories, toMake, made, doomed>>

CountEntries(r) ==
  /\ pc[r] = "count"
  /\ IF Cardinality(memories) <= MaxEntries
       THEN End(r, "done")
       ELSE /\ Goto(r, "select")
            /\ excess' = [excess EXCEPT ![r] = Cardinality(memories) - MaxEntries]
            /\ UNCHANGED <<toMake, made, doomed>>
  /\ UNCHANGED <<expert, memories>>

\* The first n of the entries from, or all when there are fewer.  The code sorts
\* by a score that depends on the time and on what update gave an entry: which
\* entries come first is left open.
FirstOf(from, n) ==
  {D \in SUBSET from : Cardinality(D) = n \/ (D = from /\ Cardinality(D) < n)}

\* Mutant: the notes are sorted with the rest.
SelectAny(r) ==
  /\ pc[r] = "select"
  /\ \E D \in FirstOf(memories, excess[r]) : doomed' = [doomed EXCEPT ![r] = D]
  /\ Goto(r, "delete")
  /\ UNCHANGED <<expert, memories, toMake, made, excess>>

\* findMany of what is not a note, now, and the first excess[r] of that.
Select(r) ==
  /\ pc[r] = "select"
  /\ \E D \in FirstOf(memories \cap Prunable, excess[r]) :
       \/ D = {} /\ End(r, "done")
       \/ /\ D # {}
          /\ doomed' = [doomed EXCEPT ![r] = D]
          /\ Goto(r, "delete")
          /\ UNCHANGED <<toMake, made, excess>>
  /\ UNCHANGED <<expert, memories>>

Delete(r) ==
  /\ pc[r] = "delete"
  /\ memories' = memories \ doomed[r]
  /\ End(r, "done")
  /\ UNCHANGED expert

(***************************************************************************)
(* The user's deletions, failures and crashes.                             *)
(***************************************************************************)
Remove(m) ==
  /\ "entry deleted" \in Events
  /\ m \in memories
  /\ memories' = memories \ {m}
  /\ UNCHANGED <<expert, pc, toMake, made, excess, doomed>>

ClearAllByExpert ==
  /\ "entry deleted" \in Events
  /\ expert
  /\ memories' = {}
  /\ UNCHANGED <<expert, pc, toMake, made, excess, doomed>>

\* The expert's row is deleted: its memories cascade.
RemoveExpert ==
  /\ "expert deleted" \in Events
  /\ expert
  /\ expert' = FALSE
  /\ memories' = {}
  /\ UNCHANGED <<pc, toMake, made, excess, doomed>>

\* A call fails, an insight has no text or its session is deleted: the request
\* ends, nothing undoes what it created, and a prune that has not happened does
\* not happen.
Failure(r) ==
  /\ "failure" \in Events
  /\ pc[r] \in {"create", "count", "select", "delete"}
  /\ End(r, "failed")
  /\ UNCHANGED <<expert, memories>>

\* The process stops: no request of this process is taken up again.
Crash ==
  /\ "crash" \in Events
  /\ pc' = [r \in Requests |-> IF pc[r] \in {"idle", "done"} THEN pc[r] ELSE "failed"]
  /\ toMake' = [r \in Requests |-> 0]
  /\ made' = [r \in Requests |-> 0]
  /\ excess' = [r \in Requests |-> 0]
  /\ doomed' = [r \in Requests |-> {}]
  /\ UNCHANGED <<expert, memories>>

------------------------------------------------------------------------------
Prune(r) == CountEntries(r) \/ Select(r) \/ Delete(r)

Next ==
  \/ \E n \in Notes : CreateNote(n)
  \/ \E g \in Sessions : GenerateSessionMemory(g) \/ Answer(g)
  \/ \E r \in Requests : Create(r) \/ Prune(r) \/ Failure(r)
  \/ \E m \in Entries : Remove(m)
  \/ ClearAllByExpert \/ RemoveExpert \/ Crash

Spec == Init /\ [][Next]_vars

------------------------------------------------------------------------------
\* Every variable has its type (MemoryService's local state and the rows).
TypeOK ==
  /\ expert \in BOOLEAN
  /\ memories \subseteq Entries
  /\ pc \in [Requests -> Pcs]
  /\ toMake \in [Requests -> 0 .. MaxInsights + 1]
  /\ made \in [Requests -> 0 .. MaxInsights + 1]
  /\ excess \in [Requests -> Nat]
  /\ doomed \in [Requests -> SUBSET Entries]

\* No prune under way will delete a note, whatever was added, changed or deleted
\* since it made its choice (pruneMemories; the design document says "Never prune
\* USER_NOTE entries automatically").
NotesAreSafe ==
  \A r \in Requests : pc[r] = "delete" => doomed[r] \subseteq Prunable

AtRest == \A r \in Requests : pc[r] \in {"idle", "done"}

\* Once every request has run to its end without a failure, the expert is within
\* memoryMaxEntries or has only notes, however their counts, selections and
\* deletions were interleaved (pruneMemories).
BoundedAtRest ==
  AtRest => \/ Cardinality(memories) <= MaxEntries
            \/ memories \cap Prunable = {}

\* docs/specs/2026-04-11-persistent-expert-memory-design.md:208, of pruning: "Delete
\* the lowest-scored entries until count <= memoryMaxEntries."  So a deletion does
\* not leave fewer entries than that (pruneMemories).
PruneStopsAtLimit ==
  [][ \A r \in Requests : Delete(r) /\ Cardinality(memories) >= MaxEntries
        => Cardinality(memories') >= MaxEntries ]_vars
==============================================================================

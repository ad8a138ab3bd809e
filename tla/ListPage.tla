------------------------------- MODULE ListPage -------------------------------
(***************************************************************************)
(* A browser page that lists rows: the experts, the sessions, or the       *)
(* analytics of the sessions of a range of days                            *)
(* (frontend/src/pages/ExpertsPage.tsx, SessionsPage.tsx,                  *)
(* AnalyticsPage.tsx with their dialogs, and                               *)
(* src/analytics/analytics.service.ts).                                    *)
(*                                                                         *)
(* The page fetches when it is mounted, when its user refreshes or changes *)
(* the filter, and after each of its own changes that succeeded.  Nothing  *)
(* cancels a fetch that is under way and nothing orders the answers.  A    *)
(* request may fail before or after the server worked on it (the client    *)
(* gives up after 30 s).                                                   *)
(***************************************************************************)
EXTENDS Catalog

CONSTANTS
  Kinds,        \* the pages looked at, a subset of {"experts", "sessions", "analytics"}
  Filters,      \* ranges its user looks at
  MaxFetches,   \* fetches a page of each kind makes (bound)
  MaxOps,       \* changes its user submits (bound)
  MaxLost,      \* answers it does not get (bound)
  MaxOthers     \* changes by others, for each kind (bound)

Ops == 1..MaxOps

\* A range of days as the date inputs give it, 0 and LastDay + 1 when one is empty;
\* handleApply swaps the two when they are the wrong way round.
Ranges == {f \in [from : 0..LastDay, to : 1..(LastDay + 1)] : f.from <= f.to}
NoFilter == [from |-> 0, to |-> LastDay + 1]

ASSUME ListAssumption ==
  /\ Kinds \subseteq {"experts", "sessions", "analytics"}
  /\ Filters \subseteq Ranges
  /\ MaxFetches \in [Kinds -> Nat \ {0}]
  /\ MaxOthers \in [Kinds -> Nat]
  /\ {MaxOps, MaxLost} \subseteq Nat

VARIABLES
  kind,      \* which page it is
  open,      \* it is shown
  newest,    \* the fetch it started last
  filter,    \* dateFilter
  answer,    \* per fetch it awaits, and part: what the request has brought
  loading,
  shown,     \* per part: the answer it shows, and of which fetch
  dialog,    \* the dialog that is open, and its row
  op,        \* the changes it submitted
  lost, others   \* answers lost and changes by others, so far

pageVars == <<kind, open, newest, filter, answer, loading, shown>>
opVars   == <<dialog, op>>
vars     == <<catalogVars, pageVars, opVars, lost, others>>

PartsOf(k) ==
  IF k = "analytics" THEN {"overview", "sessions", "experts", "comparisons"} ELSE {"list"}
Rows == IF kind = "experts" THEN expert ELSE session
Ids  == IF kind = "experts" THEN ExpertIds ELSE SessionIds

\* A request; known is history: the sessions that were there when it went out.
Asked(f)   == [status |-> "asked", filter |-> f, known |-> Kept(session),
               rows |-> {}, figures |-> {}, edited |-> {}]
Nothing    == [fetch |-> 0, filter |-> NoFilter, known |-> {},
               rows |-> {}, figures |-> {}, edited |-> {}]
Unused     == [act |-> "none", row |-> 0, state |-> "unused"]
NoDialog   == [act |-> "none", row |-> 0, by |-> 0]

Fetches == 1..MaxFetches[kind]
Pending == {n \in Fetches : answer[n] # << >>}

\* setLoading(true) and the requests go out together.
Fetching(f) ==
  /\ newest < MaxFetches[kind]
  /\ newest' = newest + 1
  /\ answer' = [answer EXCEPT ![newest + 1] = [p \in PartsOf(kind) |-> Asked(f)]]
  /\ loading' = TRUE

\* The effect of the first rendering has run.
Init ==
  /\ CatalogInit
  /\ kind \in Kinds /\ open = TRUE
  /\ kind = "experts" => Kept(session) = {}   \* of the experts alone (bound)
  /\ newest = 1 /\ loading = TRUE
  /\ filter = NoFilter
  /\ answer = [f \in Fetches |-> IF f = 1 THEN [p \in PartsOf(kind) |-> Asked(NoFilter)]
                                          ELSE << >>]
  /\ shown = [p \in PartsOf(kind) |-> Nothing]
  /\ dialog = NoDialog
  /\ op = [k \in Ops |-> Unused]
  /\ lost = 0 /\ others = 0

------------------------------------------------------------------------------
(***************************************************************************)
(* Fetches.                                                                *)

\* The Refresh button.
Refresh ==
  /\ open /\ ~loading
  /\ Fetching(filter)
  /\ UNCHANGED <<catalogVars, kind, open, filter, shown, opVars, lost, others>>

\* Apply and Clear are not disabled while the page loads, and a filter is a new
\* object even when its days are the same.
ApplyFilter(f) ==
  /\ open /\ kind = "analytics"
  /\ filter' = f
  /\ Fetching(f)
  /\ UNCHANGED <<catalogVars, kind, open, shown, opVars, lost, others>>

\* The dates of the inputs are midnights, so sessions of the last day are out.
InRange(s, f) == f.from <= day[s] /\ day[s] < f.to

\* Each service reads the sessions of the range; getExpertsList comes to them by the
\* SessionExpert rows.
SessionsList(f) == {s \in Kept(session) : InRange(s, f)}
Overview(f)     == SessionsList(f)
ExpertsList(f)  == {s \in Kept(session) : Of(s) # {} /\ InRange(s, f)}

\* Mutant: getComparisons leaves the range out of its where clause.
ComparisonsOfAll(f) == Kept(session)

Comparisons(f) == {s \in Kept(session) : InRange(s, f)}

Read(p, f) ==
  CASE p = "overview"    -> Overview(f)
    [] p = "sessions"    -> SessionsList(f)
    [] p = "experts"     -> ExpertsList(f)
    [] p = "comparisons" -> Comparisons(f)
    [] OTHER             -> Kept(Rows)

\* The sessions whose metrics or messages a part adds up, of those it lists or counts:
\* getOverview names none to its query when there are none, which is then about them all,
\* and getExpertsList asks for all messages of the experts it has come to.
Figures(p, listed) ==
  CASE p = "overview" /\ listed = {} -> Kept(session)
    [] p = "experts" -> {s \in Kept(session) : \E t \in listed : Of(s) \cap Of(t) # {}}
    [] OTHER -> listed

\* Experts whose row has an edit of this page.
Edited == {op[k].row : k \in {i \in Ops : op[i].act = "edit" /\ op[i].state \in {"done", "told"}}}

ReadPart(n, p) ==
  /\ n \in Pending /\ p \in DOMAIN answer[n] /\ answer[n][p].status = "asked"
  /\ LET listed == Read(p, answer[n][p].filter) IN
     answer' = [answer EXCEPT
       ![n][p].status = "read",
       ![n][p].rows = listed, ![n][p].figures = Figures(p, listed),
       ![n][p].edited = Edited]
  /\ UNCHANGED <<catalogVars, kind, open, newest, filter, loading, shown, opVars, lost, others>>

LosePart(n, p) ==
  /\ n \in Pending /\ p \in DOMAIN answer[n] /\ answer[n][p].status = "asked"
  /\ lost < MaxLost /\ lost' = lost + 1
  /\ answer' = [answer EXCEPT  ![n][p].status = "failed"]
  /\ UNCHANGED <<catalogVars, kind, open, newest, filter, loading, shown, opVars, others>>

Settled(n) ==
  [p \in DOMAIN shown |->
    IF answer[n][p].status = "read"
      THEN [fetch |-> n, filter |-> answer[n][p].filter, known |-> answer[n][p].known,
            rows |-> answer[n][p].rows, figures |-> answer[n][p].figures,
            edited |-> answer[n][p].edited]
      ELSE shown[p]]

\* Mutant: loading is reset where the data is set, and nowhere else.
AnswerUnfinished(n) ==
  /\ open /\ n \in Pending
  /\ \A p \in DOMAIN answer[n] : answer[n][p].status # "asked"
  /\ shown' = Settled(n)
  /\ answer' = [answer EXCEPT ![n] = << >>]
  /\ loading' = (loading /\ \E p \in DOMAIN answer[n] : answer[n][p].status = "failed")
  /\ UNCHANGED <<catalogVars, kind, open, newest, filter, opVars, lost, others>>

\* Promise.allSettled, or the one promise: what failed keeps what was shown, and
\* loading ends whichever fetch this is.
Answer(n) ==
  /\ open /\ n \in Pending
  /\ \A p \in DOMAIN answer[n] : answer[n][p].status # "asked"
  /\ shown' = Settled(n)
  /\ answer' = [answer EXCEPT ![n] = << >>]
  /\ loading' = FALSE
  /\ UNCHANGED <<catalogVars, kind, open, newest, filter, opVars, lost, others>>

------------------------------------------------------------------------------
(***************************************************************************)
(* The changes of the user: the dialogs, the requests they send, and the   *)
(* toasts that end them.                                                   *)
InFlight(act) == \E k \in Ops : op[k].act = act /\ op[k].state \in {"sent", "done", "refused"}
Unsuccessful(k) == op[k].state \in {"given up", "failed"}
NextOp(k) == op[k] = Unused /\ \A j \in Ops : j < k => op[j] # Unused
Submitted(act, r) == [act |-> act, row |-> r, state |-> "sent"]

\* A row's buttons are there while the table is.  Escape closes a dialog at any time.
Choose(act, r) ==
  /\ open /\ ~loading /\ kind # "analytics"
  /\ act \in (IF kind = "experts" THEN {"edit", "delete"} ELSE {"delete"})
  /\ r \in shown["list"].rows
  /\ dialog = NoDialog /\ dialog' = [act |-> act, row |-> r, by |-> 0]
  /\ UNCHANGED <<catalogVars, pageVars, op, lost, others>>

CloseDialog ==
  /\ open /\ dialog # NoDialog /\ dialog' = NoDialog
  /\ UNCHANGED <<catalogVars, pageVars, op, lost, others>>

\* A form is submitted again only after a failure.  The delete dialogs stay mounted, so
\* isDeleting outlives one that was closed.
Submit(k) ==
  /\ open /\ dialog # NoDialog /\ NextOp(k)
  /\ dialog.by # 0 => Unsuccessful(dialog.by)
  /\ dialog.act = "delete" => ~InFlight("delete")
  /\ op' = [op EXCEPT ![k] = Submitted(dialog.act, dialog.row)]
  /\ dialog' = [dialog EXCEPT !.by = k]
  /\ UNCHANGED <<catalogVars, pageVars, lost, others>>

\* The dialogs that create are opened by a button that is always there.
SubmitNew(k) ==
  /\ open /\ kind # "analytics" /\ NextOp(k)
  /\ op' = [op EXCEPT ![k] = Submitted("create", 0)]
  /\ dialog' = NoDialog
  /\ UNCHANGED <<catalogVars, pageVars, lost, others>>

\* The server is done with a request, which the client may have given up.
Served(k, r, result) ==
  op' = [op EXCEPT ![k].row = r,
                   ![k].state = IF @ = "given up" THEN "failed" ELSE result]

\* The server's part of a change: a row that is gone (P2025) is a 404, and so is a
\* session with an expert that is gone.
Serve(k) ==
  /\ op[k].state \in {"sent", "given up"}
  /\ LET r == op[k].row IN
     \/ /\ op[k].act = "delete" /\ Served(k, r, "done")
        /\ IF kind = "experts" THEN RemoveExpert(r) ELSE RemoveSession(r)
     \/ op[k].act = "edit" /\ UpdateExpert(r) /\ Served(k, r, "done")
     \/ /\ op[k].act \in {"delete", "edit"} /\ Rows[r] # "kept" /\ Served(k, r, "refused")
        /\ UNCHANGED catalogVars
     \/ /\ op[k].act = "create" /\ kind = "experts"
        /\ \E e \in ExpertIds : CreateExpert(e) /\ Served(k, e, "done")
     \/ /\ op[k].act = "create" /\ kind = "sessions" /\ r = 0
        /\ \E s \in SessionIds, experts \in SUBSET ExpertIds :
             PostSession(s, experts) /\ op' = [op EXCEPT ![k].row = s]
     \/ /\ op[k].act = "create" /\ kind = "sessions" /\ r = 0 /\ Served(k, 0, "refused")
        /\ UNCHANGED catalogVars
     \/ /\ op[k].act = "create" /\ kind = "sessions" /\ r # 0 /\ session[r] # "posted"
        /\ Served(k, r, IF session[r] = "refused" THEN "refused" ELSE "done")
        /\ UNCHANGED catalogVars
  /\ UNCHANGED <<pageVars, dialog, lost, others>>

\* Mutant: onSuccess closes the dialog and does not fetch.
SucceedUnrefreshed(k) ==
  /\ open /\ op[k].state = "done"
  /\ op' = [op EXCEPT ![k].state = "told"]
  /\ dialog' = IF dialog.act = op[k].act THEN NoDialog ELSE dialog
  /\ UNCHANGED <<catalogVars, pageVars, lost, others>>

\* A change that succeeded closes its kind of dialog and fetches again; a session that
\* was created leads to its own page.
Succeed(k) ==
  /\ open /\ op[k].state = "done"
  /\ op' = [op EXCEPT ![k].state = "told"]
  /\ dialog' = IF dialog.act = op[k].act THEN NoDialog ELSE dialog
  /\ IF kind = "sessions" /\ op[k].act = "create"
       THEN open' = FALSE /\ UNCHANGED <<newest, answer, loading>>
       ELSE Fetching(filter) /\ UNCHANGED open
  /\ UNCHANGED <<catalogVars, kind, filter, shown, lost, others>>

\* One that failed, or whose answer does not come, shows a toast, and neither closes
\* the dialog nor fetches.
Fail(k) ==
  /\ open
  /\ \/ op[k].state = "refused" /\ Served(k, op[k].row, "failed") /\ UNCHANGED lost
     \/ /\ op[k].state \in {"sent", "done"}
        /\ lost < MaxLost /\ lost' = lost + 1
        /\ op' = [op EXCEPT ![k].state = IF @ = "sent" THEN "given up" ELSE "failed"]
  /\ UNCHANGED <<catalogVars, pageVars, dialog, others>>

------------------------------------------------------------------------------
(***************************************************************************)
(* Everybody else, and the transaction that a request is left with.        *)
InsertPosted == (\E s \in SessionIds : InsertSession(s)) /\ UNCHANGED others

Another ==
  /\ others < MaxOthers[kind] /\ others' = others + 1
  /\ \/ \E e \in ExpertIds : CreateExpert(e) \/ CloneExpert(e) \/ RemoveExpert(e)
     \/ \E s \in SessionIds : RemoveSession(s)
     \/ \E s \in SessionIds, experts \in SUBSET ExpertIds : PostSession(s, experts)

Server == (InsertPosted \/ Another) /\ UNCHANGED <<pageVars, opVars, lost>>

Page ==
  \/ Refresh \/ (\E f \in Filters : ApplyFilter(f))
  \/ \E n \in Fetches : Answer(n) \/ \E p \in PartsOf(kind) : ReadPart(n, p) \/ LosePart(n, p)
  \/ \E act \in {"edit", "delete"}, r \in Ids : Choose(act, r)
  \/ CloseDialog
  \/ \E k \in Ops : Submit(k) \/ SubmitNew(k) \/ Serve(k) \/ Succeed(k) \/ Fail(k)

Next == Page \/ Server
Spec == Init /\ [][Next]_vars

------------------------------------------------------------------------------
\* Types, and that the skeleton the page shows while it loads stands for a fetch that is
\* under way, whatever failed or overtook what before (loading is one flag for all).
TypeOK ==
  /\ CatalogTypeOK
  /\ kind \in Kinds /\ open \in BOOLEAN /\ newest \in Fetches /\ filter \in Ranges
  /\ lost \in 0..MaxLost /\ others \in 0..MaxOthers[kind]
  /\ \A n \in Pending : n <= newest /\ DOMAIN answer[n] = PartsOf(kind)
  /\ \A p \in PartsOf(kind) : shown[p].fetch \in 0..newest
  /\ dialog.row # 0 => dialog.row \in Ids
  /\ \A k \in Ops : op[k].row \in Ids \cup {0}
  /\ loading \in BOOLEAN /\ loading => Pending # {}

Fresh == Pending = {} /\ \A p \in PartsOf(kind) : shown[p].fetch = newest

\* Once the newest fetch is the one that is shown and nothing is under way, the page
\* shows its own changes: what it was told is deleted is not listed, what it was told is
\* created is listed unless it has been removed again, what it was told is edited is
\* shown as edited, and every part has the filter that is set.  (A delete, an edit and a
\* filter reach the list only by the fetch that follows: ExpertsPage.tsx:52-54,
\* SessionsPage.tsx:136, AnalyticsPage.tsx:75-77.)
LatestIsCurrent ==
  open /\ Fresh =>
    /\ \A p \in PartsOf(kind) : shown[p].filter = filter
    /\ \A k \in Ops : op[k].state = "told" =>
         LET list == shown["list"]  r == op[k].row IN
         /\ op[k].act = "delete" => r \notin list.rows
         /\ op[k].act = "create" => r \in list.rows \/ Rows[r] = "removed"
         /\ op[k].act = "edit" /\ r \in list.rows => r \in list.edited

\* A part that adds up what it lists or counts, and nothing else.
AddsUpItsRows(p) == p # "experts" /\ shown[p].rows # {}

\* The parts of the analytics that one fetch has brought list and count the same sessions:
\* one that was there when it started and has not been deleted since is in all of them
\* or in none, by its day.  What they add up they add up of the same sessions too, but for
\* the two that FiguresAreOfRange is about: the experts' part, and an overview that counts
\* no session.  (Four services build the same range on their own,
\* analytics.service.ts:90-96, 175-181, 203-209, 281-287; the experts' comes to the
\* sessions through their experts.)
PartsAgree ==
  \A p, q \in PartsOf(kind) : shown[p].fetch = shown[q].fetch =>
    \A s \in shown[p].known : session[s] = "kept" /\ Of(s) # {} =>
      /\ s \in shown[p].rows <=> s \in shown[q].rows
      /\ AddsUpItsRows(p) /\ AddsUpItsRows(q) =>
           (s \in shown[p].figures <=> s \in shown[q].figures)

\* What AnalyticsPage.tsx:94-96 says next to the filter: "Date filter applies to all
\* data".  Once nothing is under way, every part is of the filter that is set.
FilterApplies ==
  Pending = {} => \A p \in PartsOf(kind) : shown[p].filter = filter

\* The same sentence, of what is added up: a part is of sessions of its range alone.
\* The code does otherwise: the token sums of an overview of a range without sessions are
\* those of all sessions, and an expert's average is over all of its messages.
FiguresAreOfRange ==
  \A p \in PartsOf(kind), s \in SessionIds :
    kind = "analytics" /\ s \in shown[p].figures => InRange(s, shown[p].filter)
==============================================================================

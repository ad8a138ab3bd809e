----------------------------- MODULE ListPageProofs -----------------------------
(***************************************************************************)
(* Theorems about ListPage and the Catalog behind it, for any number of    *)
(* experts, sessions, days, fetches and changes, by the page and by        *)
(* others, and any answers that are lost.                                  *)
(***************************************************************************)
EXTENDS ListPage, TLAPS

------------------------------------------------------------------------------
(* The catalog. *)

\* What the page and everybody else do to the rows.  A request of the page names a row
\* that it was shown, which may be gone.
CatalogStep ==
  \/ \E e \in ExpertIds : CreateExpert(e)
  \/ \E r : RemoveExpert(r)
  \/ \E s \in SessionIds, experts \in SUBSET ExpertIds : PostSession(s, experts)
  \/ \E s \in SessionIds : InsertSession(s)
  \/ \E r : RemoveSession(r)
  \/ UNCHANGED catalogVars

\* Every step of the page, of its requests and of others is one of these for the rows.
LEMMA CatalogSteps == [Next]_vars => CatalogStep
<1> SUFFICES ASSUME [Next]_vars PROVE CatalogStep
  OBVIOUS
<1> USE DEF CatalogStep
<1>1. CASE Server
  BY <1>1 DEF Server, InsertPosted, Another, CloneExpert
<1>2. ASSUME NEW k \in Ops, Serve(k) PROVE CatalogStep
  BY <1>2 DEF Serve, UpdateExpert
<1>3. CASE UNCHANGED catalogVars
  BY <1>3
<1>4. CASE Page
  <2>1. UNCHANGED catalogVars \/ \E k \in Ops : Serve(k)
    <3>1. ASSUME NEW n \in Fetches, NEW p \in PartsOf(kind), ReadPart(n, p) \/ LosePart(n, p)
          PROVE  UNCHANGED catalogVars
      BY <3>1 DEF ReadPart, LosePart
    <3> QED BY <1>4, <3>1 DEF Page, Refresh, ApplyFilter, Answer, Choose, CloseDialog,
       Submit, SubmitNew, Succeed, Fail
  <2> QED BY <2>1, <1>2
<1> QED BY <1>1, <1>3, <1>4 DEF Next, vars

\* An expert that was chosen for a session had a row.
ChosenExisted ==
  \A s \in SessionIds : session[s] \in {"posted", "kept"} =>
    \A e \in chosen[s] : expert[e] # "none"

CatalogInv == CatalogTypeOK /\ ChosenExisted /\ SessionsAreWhole

\* The first rows are whole.
LEMMA CatalogInitially == CatalogInit => CatalogInv
<1> SUFFICES ASSUME CatalogInit PROVE CatalogInv
  OBVIOUS
<1> USE DEF CatalogInit
<1>1. Kept(expert) \subseteq ExpertIds /\ Kept(session) \subseteq SessionIds
  BY DEF Kept
<1>2. CatalogTypeOK
  BY <1>1 DEF CatalogTypeOK
<1>3. \A s \in SessionIds : Of(s) = IF s \in Kept(session) THEN Kept(expert) ELSE {}
  BY <1>1 DEF Of
<1>4. \A s \in Kept(session) : s \in SessionIds /\ session[s] = "kept" /\ chosen[s] = Kept(expert)
  BY <1>1 DEF Kept
<1>5. \A s \in SessionIds : session[s] # "posted"
  OBVIOUS
<1>6. ChosenExisted
  BY <1>1, <1>5 DEF ChosenExisted, Kept
<1>7. SessionsAreWhole
  BY <1>3, <1>4 DEF SessionsAreWhole
<1> QED BY <1>2, <1>6, <1>7 DEF CatalogInv

\* The rows stay whole: a session is written with the experts that still have a row, or
\* not at all, and a deletion takes a row and all that refers to it.
LEMMA CatalogNext == CatalogInv /\ CatalogStep => CatalogInv'
<1> SUFFICES ASSUME CatalogInv, CatalogStep PROVE CatalogInv'
  OBVIOUS
<1> USE DEF CatalogInv, CatalogTypeOK, ChosenExisted, SessionsAreWhole, Kept, Of
<1>1. ASSUME NEW e \in ExpertIds, CreateExpert(e) PROVE CatalogInv'
  BY <1>1 DEF CreateExpert
<1>2. ASSUME NEW r, RemoveExpert(r) PROVE CatalogInv'
  <2>1. /\ expert' = [expert EXCEPT ![r] = "removed"] /\ UNCHANGED <<session, chosen, day>>
        /\ places' = {p \in places : p[2] # r}
    BY <1>2 DEF RemoveExpert
  <2>2. \A s \in SessionIds, e \in ExpertIds : <<s, e>> \in places' <=> <<s, e>> \in places /\ e # r
    BY <2>1
  <2>3. \A e \in ExpertIds : expert'[e] = IF e = r THEN "removed" ELSE expert[e]
    BY <2>1
  <2>4. CatalogTypeOK'
    BY <2>1
  <2>5. ChosenExisted'
    BY <2>1, <2>3
  <2>6. SessionsAreWhole'
    <3>1. \A s \in SessionIds : Of(s)' = Of(s) \ {r}
      BY <2>2
    <3>2. \A s \in SessionIds : (chosen[s] \cap Kept(expert))' = (chosen[s] \cap Kept(expert)) \ {r}
      BY <2>1, <2>3
    <3> QED BY <2>1, <3>1, <3>2
  <2> QED BY <2>4, <2>5, <2>6
<1>3. ASSUME NEW s \in SessionIds, NEW experts \in SUBSET ExpertIds, PostSession(s, experts)
      PROVE  CatalogInv'
  <2>1. /\ session[s] = "none" /\ experts \subseteq Kept(expert)
        /\ session' = [session EXCEPT ![s] = "posted"] /\ chosen' = [chosen EXCEPT ![s] = experts]
        /\ UNCHANGED <<expert, places, day>>
    BY <1>3 DEF PostSession
  <2>2. Kept(session)' = Kept(session) /\ s \notin Kept(session)
    BY <2>1
  <2>3. CatalogTypeOK'
    BY <2>1
  <2>4. ChosenExisted'
    BY <2>1
  <2>5. SessionsAreWhole'
    <3>1. \A r \in SessionIds : Of(r)' = Of(r)
      BY <2>1
    <3>2. \A r \in Kept(session) : chosen'[r] = chosen[r] /\ r \in SessionIds
      BY <2>1, <2>2
    <3>3. (\A r \in Kept(session) : Of(r) = chosen[r] \cap Kept(expert))'
      BY <2>1, <2>2, <3>1, <3>2
    <3>4. (\A r \in SessionIds \ Kept(session) : Of(r) = {})'
      BY <2>2, <3>1
    <3> QED BY <3>3, <3>4
  <2> QED BY <2>3, <2>4, <2>5
<1>4. ASSUME NEW s \in SessionIds, InsertSession(s) PROVE CatalogInv'
  <2>1. session[s] = "posted" /\ UNCHANGED <<expert, chosen>>
    BY <1>4 DEF InsertSession
  <2>2. ASSUME NEW d \in 1..LastDay, chosen[s] \subseteq Kept(expert),
               session' = [session EXCEPT ![s] = "kept"],
               places' = places \cup ({s} \X chosen[s]), day' = [day EXCEPT ![s] = d]
        PROVE  CatalogInv'
    <3>1. CatalogTypeOK'
      BY <2>1, <2>2
    <3>2. ChosenExisted'
      BY <2>1, <2>2
    <3>3. Kept(session)' = Kept(session) \cup {s} /\ s \notin Kept(session)
      BY <2>1, <2>2
    <3>4. \A t \in SessionIds : Of(t)' = IF t = s THEN chosen[s] ELSE Of(t)
      BY <2>1, <2>2, <3>3
    <3>5. SessionsAreWhole'
      BY <2>1, <2>2, <3>3, <3>4
    <3> QED BY <3>1, <3>2, <3>5
  <2>3. ASSUME session' = [session EXCEPT ![s] = "refused"], UNCHANGED <<places, day>>
        PROVE  CatalogInv'
    <3>1. CatalogTypeOK' /\ ChosenExisted'
      BY <2>1, <2>3
    <3>2. Kept(session)' = Kept(session) /\ \A t \in SessionIds : Of(t)' = Of(t)
      BY <2>1, <2>3
    <3> QED BY <2>1, <3>1, <3>2
  <2> HIDE DEF CatalogInv, Kept
  <2> QED BY <1>4, <2>2, <2>3 DEF InsertSession
<1>5. ASSUME NEW r, RemoveSession(r) PROVE CatalogInv'
  <2>1. /\ session' = [session EXCEPT ![r] = "removed"] /\ UNCHANGED <<expert, chosen, day>>
        /\ places' = {p \in places : p[1] # r}
    BY <1>5 DEF RemoveSession
  <2>2. CatalogTypeOK' /\ ChosenExisted'
    BY <2>1
  <2>3. Kept(session)' = Kept(session) \ {r}
    BY <2>1
  <2>4. \A t \in SessionIds : Of(t)' = IF t = r THEN {} ELSE Of(t)
    BY <2>1
  <2>5. SessionsAreWhole'
    BY <2>1, <2>3, <2>4
  <2> QED BY <2>2, <2>5
<1>6. CASE UNCHANGED catalogVars
  BY <1>6 DEF catalogVars
<1> QED BY <1>1, <1>2, <1>3, <1>4, <1>5, <1>6 DEF CatalogStep

\* A session is with all the experts it was posted with that still exist, and nothing is
\* left of one that is gone.
THEOREM SessionsStayWhole == Spec => []SessionsAreWhole
<1>1. Init => CatalogInv
  BY CatalogInitially DEF Init
<1>2. CatalogInv /\ [Next]_vars => CatalogInv'
  BY CatalogSteps, CatalogNext
<1>3. CatalogInv => SessionsAreWhole
  BY DEF CatalogInv
<1> QED BY <1>1, <1>2, <1>3, PTL DEF Spec

------------------------------------------------------------------------------
(* The page's types. *)

RowIds  == ExpertIds \cup SessionIds
Request == [status : {"asked", "read", "failed"}, filter : Ranges, known : SUBSET SessionIds,
            rows : SUBSET RowIds, figures : SUBSET RowIds,
            edited : SUBSET (RowIds \cup {0})]
Showing == [fetch : Nat, filter : Ranges, known : SUBSET SessionIds,
            rows : SUBSET RowIds, figures : SUBSET RowIds,
            edited : SUBSET (RowIds \cup {0})]
Acts    == {"none", "create", "edit", "delete"}
Change  == [act : Acts, row : Ids \cup {0},
            state : {"unused", "sent", "done", "refused", "told", "failed", "given up"}]

\* The requests that are under way.
AnswerType ==
  /\ answer \in [Fetches -> {<< >>} \cup [PartsOf(kind) -> Request]]
  /\ newest \in Fetches /\ \A n \in Pending : n <= newest
  /\ loading \in BOOLEAN /\ (loading => Pending # {})

\* What is shown.
ShownType ==
  /\ shown \in [PartsOf(kind) -> Showing]
  /\ \A p \in PartsOf(kind) : shown[p].fetch \in 0..newest

\* The user's changes.
OpType ==
  /\ dialog \in [act : Acts, row : Ids \cup {0}, by : Ops \cup {0}]
  /\ op \in [Ops -> Change]

\* The rest.
CountType ==
  /\ kind \in Kinds /\ open \in BOOLEAN /\ filter \in Ranges
  /\ lost \in 0..MaxLost /\ others \in 0..MaxOthers[kind]

PageType == CatalogTypeOK /\ AnswerType /\ ShownType /\ OpType /\ CountType

\* What the bounds are.
LEMMA Bounds ==
  ASSUME kind \in Kinds
  PROVE  /\ MaxFetches[kind] \in Nat \ {0} /\ MaxOthers[kind] \in Nat
         /\ MaxOps \in Nat /\ MaxLost \in Nat /\ 1 \in Fetches /\ Fetches \subseteq Nat \ {0}
BY ListAssumption DEF Fetches

\* Answers have parts, so that one that is pending is not the empty function.
LEMMA PartsAreSome ==
  /\ PartsOf(kind) # {}
  /\ \A S : \A f \in [PartsOf(kind) -> S] : f # << >>
<1>1. PartsOf(kind) # {}
  BY DEF PartsOf
<1>2. DOMAIN << >> = {}
  OBVIOUS
<1> QED BY <1>1, <1>2

\* The range of all days is one.
LEMMA NoFilterIsRange == NoFilter \in Ranges
BY CatalogAssumption DEF NoFilter, Ranges

\* A request that goes out asks for every part with one filter.
LEMMA AskedIsRequest == CatalogTypeOK => \A f \in Ranges : Asked(f) \in Request
<1>1. CatalogTypeOK => Kept(session) \subseteq SessionIds
  BY DEF Kept, CatalogTypeOK
<1> QED BY <1>1 DEF Asked, Request

\* A fetch that goes out is the newest, and pending.
LEMMA FetchingTypes ==
  ASSUME CatalogTypeOK, AnswerType, CountType, kind' = kind, NEW f \in Ranges, Fetching(f)
  PROVE  AnswerType' /\ newest' = newest + 1 /\ newest + 1 \in Fetches
<1> DEFINE new == [p \in PartsOf(kind) |-> Asked(f)]
<1>b. MaxFetches[kind] \in Nat /\ newest \in Nat /\ Fetches' = Fetches
  BY Bounds DEF CountType, AnswerType, Fetches
<1>1. newest' = newest + 1 /\ newest + 1 \in Fetches
  BY <1>b DEF Fetching, Fetches, AnswerType
<1>2. new \in [PartsOf(kind) -> Request]
  BY AskedIsRequest
<1>3. new # << >>
  BY <1>2, PartsAreSome
<1>4. answer' = [answer EXCEPT ![newest + 1] = new] /\ loading' = TRUE
  BY DEF Fetching
<1> HIDE DEF new
<1>5. PartsOf(kind)' = PartsOf(kind)
  BY DEF PartsOf
<1>6. Pending' = Pending \cup {newest + 1}
  BY <1>1, <1>3, <1>4, <1>b DEF Pending, AnswerType
<1>7. answer' \in [Fetches -> {<< >>} \cup [PartsOf(kind) -> Request]]
  BY <1>1, <1>2, <1>4 DEF AnswerType
<1>8. \A n \in Pending : n \in Nat
  BY <1>b DEF Pending, Fetches
<1>9. \A n \in Pending' : n <= newest'
  BY <1>1, <1>6, <1>8, <1>b DEF AnswerType
<1> QED BY <1>1, <1>4, <1>5, <1>6, <1>7, <1>9, <1>b DEF AnswerType

\* What a request brings are identifiers of rows.
LEMMA ReadIsRows ==
  ASSUME CatalogTypeOK, NEW p, NEW f
  PROVE  Read(p, f) \subseteq RowIds
BY DEF Read, Overview, SessionsList, ExpertsList, Comparisons, Kept, Rows, RowIds, CatalogTypeOK

\* What a part adds up is of rows that there are.
LEMMA FiguresAreRows ==
  ASSUME CatalogTypeOK, NEW p, NEW R \in SUBSET RowIds
  PROVE  Figures(p, R) \subseteq RowIds
BY DEF Figures, Kept, RowIds, CatalogTypeOK

\* Rows that were edited are identifiers.
LEMMA EditedIsRows == OpType => Edited \subseteq RowIds \cup {0}
BY DEF OpType, Edited, Change, Ids, RowIds

\* A request that is read.
LEMMA ReadRequest ==
  ASSUME NEW a \in Request, NEW R \in SUBSET RowIds, NEW F \in SUBSET RowIds,
         NEW E \in SUBSET (RowIds \cup {0})
  PROVE  [a EXCEPT !.status = "read", !.rows = R, !.figures = F, !.edited = E]
           = [status |-> "read", filter |-> a.filter, known |-> a.known,
              rows |-> R, figures |-> F, edited |-> E]
<1> DEFINE x == [a EXCEPT !.status = "read", !.rows = R, !.figures = F, !.edited = E]
<1>1. /\ x \in Request /\ x.status = "read" /\ x.rows = R /\ x.figures = F /\ x.edited = E
      /\ x.filter = a.filter /\ x.known = a.known
  BY DEF Request
<1> HIDE DEF x
<1>2. x = [status |-> x.status, filter |-> x.filter, known |-> x.known,
           rows |-> x.rows, figures |-> x.figures, edited |-> x.edited]
  BY <1>1 DEF Request
<1> QED BY <1>1, <1>2 DEF x

\* A part is read, or lost: only its own answer changes.
LEMMA PartAnswers ==
  ASSUME CatalogTypeOK, AnswerType, OpType, NEW n \in Fetches, NEW p \in PartsOf(kind),
         ReadPart(n, p) \/ LosePart(n, p)
  PROVE  LET old == answer[n][p] IN
         /\ n \in Pending /\ old \in Request /\ old.status = "asked"
         /\ answer' \in [Fetches -> {<< >>} \cup [PartsOf(kind) -> Request]]
         /\ Pending' = Pending
         /\ answer'[n][p] \in
              {[status |-> "read", filter |-> old.filter, known |-> old.known,
                rows |-> Read(p, old.filter),
                figures |-> Figures(p, Read(p, old.filter)), edited |-> Edited],
               [status |-> "failed", filter |-> old.filter, known |-> old.known,
                rows |-> old.rows, figures |-> old.figures, edited |-> old.edited]}
         /\ \A m \in Fetches, q \in PartsOf(kind) :
              m # n \/ q # p => answer'[m][q] = answer[m][q]
<1> DEFINE old == answer[n][p]
           read == [status |-> "read", filter |-> old.filter, known |-> old.known,
                    rows |-> Read(p, old.filter),
                    figures |-> Figures(p, Read(p, old.filter)), edited |-> Edited]
           failed == [status |-> "failed", filter |-> old.filter, known |-> old.known,
                      rows |-> old.rows, figures |-> old.figures, edited |-> old.edited]
<1>1. n \in Pending /\ old.status = "asked" /\ kind' = kind
  BY DEF ReadPart, LosePart
<1>2. answer[n] \in [PartsOf(kind) -> Request]
  BY <1>1 DEF Pending, AnswerType
<1>3. old \in Request
  BY <1>2
<1>4. PICK new \in {read, failed} :
        answer' = [answer EXCEPT ![n] = [answer[n] EXCEPT ![p] = new]]
  <2>1. CASE ReadPart(n, p)
    <3> DEFINE R == Read(p, old.filter)
               x == [old EXCEPT !.status = "read", !.rows = R, !.figures = Figures(p, R),
                                !.edited = Edited]
    <3>1. answer' = [answer EXCEPT ![n] = [answer[n] EXCEPT ![p] = x]]
      BY <2>1, <1>2, <1>3 DEF ReadPart, AnswerType
    <3>2. R \in SUBSET RowIds /\ Edited \in SUBSET (RowIds \cup {0})
      BY ReadIsRows, EditedIsRows
    <3>4. Figures(p, R) \in SUBSET RowIds
      BY <3>2, FiguresAreRows
    <3>3. x = read
      BY <1>3, <3>2, <3>4, ReadRequest
    <3> QED BY <3>1, <3>3
  <2>2. CASE LosePart(n, p)
    <3>1. answer' = [answer EXCEPT ![n] = [answer[n] EXCEPT ![p] = [old EXCEPT !.status = "failed"]]]
      BY <2>2, <1>2, <1>3 DEF LosePart, AnswerType
    <3>2. [old EXCEPT !.status = "failed"] = failed
      BY <1>3 DEF Request
    <3> QED BY <3>1, <3>2
  <2> QED BY <2>1, <2>2
<1>5. new \in Request
  <2>1. old.filter \in Ranges /\ old.known \in SUBSET SessionIds /\ old.rows \in SUBSET RowIds
        /\ old.figures \in SUBSET RowIds /\ old.edited \in SUBSET (RowIds \cup {0})
    BY <1>3 DEF Request
  <2>2. read \in Request
    BY <2>1, ReadIsRows, FiguresAreRows, EditedIsRows DEF Request
  <2>3. failed \in Request
    BY <2>1 DEF Request
  <2> QED BY <1>4, <2>2, <2>3
<1>6. [answer[n] EXCEPT ![p] = new] \in [PartsOf(kind) -> Request]
  BY <1>2, <1>5
<1>7. [answer[n] EXCEPT ![p] = new] # << >>
  BY <1>6, PartsAreSome
<1>8. answer' \in [Fetches -> {<< >>} \cup [PartsOf(kind) -> Request]]
  BY <1>4, <1>6 DEF AnswerType
<1>9. Pending' = Pending
  BY <1>1, <1>4, <1>7 DEF Pending, AnswerType, Fetches
<1>10. answer'[n][p] = new
  BY <1>2, <1>4 DEF AnswerType
<1>11. \A m \in Fetches, q \in PartsOf(kind) : m # n \/ q # p => answer'[m][q] = answer[m][q]
  BY <1>2, <1>4 DEF AnswerType
<1> QED BY <1>1, <1>3, <1>4, <1>8, <1>9, <1>10, <1>11

\* Answers that have come are shown, each with the number of its fetch, and the fetch is
\* not awaited any more.
LEMMA AnswersAreShown ==
  ASSUME CatalogTypeOK, AnswerType, ShownType, NEW n \in Fetches, Answer(n)
  PROVE  /\ n \in Pending /\ Pending' = Pending \ {n}
         /\ answer' = [answer EXCEPT ![n] = << >>] /\ loading' = FALSE
         /\ kind' = kind /\ UNCHANGED catalogVars
         /\ newest' = newest
         /\ shown' \in [PartsOf(kind) -> Showing]
         /\ answer[n] \in [PartsOf(kind) -> Request]
         /\ \A p \in PartsOf(kind) :
              \/ answer[n][p].status = "read" /\ shown'[p] =
                   [fetch |-> n, filter |-> answer[n][p].filter, known |-> answer[n][p].known,
                    rows |-> answer[n][p].rows, figures |-> answer[n][p].figures,
                    edited |-> answer[n][p].edited]
              \/ shown'[p] = shown[p]
<1>1. /\ n \in Pending /\ answer' = [answer EXCEPT ![n] = << >>] /\ loading' = FALSE
      /\ kind' = kind /\ UNCHANGED catalogVars /\ shown' = Settled(n) /\ newest' = newest
  BY DEF Answer
<1>2. answer[n] \in [PartsOf(kind) -> Request]
  BY <1>1 DEF Pending, AnswerType
<1>3. Pending' = Pending \ {n}
  BY <1>1 DEF Pending, AnswerType, Fetches
<1>4. \A p \in PartsOf(kind) : Settled(n)[p] =
        IF answer[n][p].status = "read"
          THEN [fetch |-> n, filter |-> answer[n][p].filter, known |-> answer[n][p].known,
                rows |-> answer[n][p].rows, figures |-> answer[n][p].figures,
                edited |-> answer[n][p].edited]
          ELSE shown[p]
  BY DEF Settled, ShownType
<1>5. n \in Nat
  BY Bounds DEF Fetches
<1>6. \A p \in PartsOf(kind) : Settled(n)[p] \in Showing
  <2> SUFFICES ASSUME NEW p \in PartsOf(kind) PROVE Settled(n)[p] \in Showing
    OBVIOUS
  <2>1. answer[n][p] \in Request /\ shown[p] \in Showing
    BY <1>2 DEF ShownType
  <2>2. /\ answer[n][p].filter \in Ranges /\ answer[n][p].known \in SUBSET SessionIds
        /\ answer[n][p].rows \in SUBSET RowIds /\ answer[n][p].figures \in SUBSET RowIds
        /\ answer[n][p].edited \in SUBSET (RowIds \cup {0})
    BY <2>1 DEF Request
  <2>3. CASE answer[n][p].status = "read"
    <3>1. Settled(n)[p] = [fetch |-> n, filter |-> answer[n][p].filter,
                           known |-> answer[n][p].known,
                           rows |-> answer[n][p].rows, figures |-> answer[n][p].figures,
                           edited |-> answer[n][p].edited]
      BY <1>4, <2>3
    <3> QED BY <1>5, <2>2, <3>1 DEF Showing
  <2>4. CASE answer[n][p].status # "read"
    BY <1>4, <2>1, <2>4
  <2> QED BY <2>3, <2>4
<1>7. Settled(n) \in [PartsOf(kind) -> Showing]
  <2>1. DOMAIN shown = PartsOf(kind)
    BY DEF ShownType
  <2> QED BY <1>6, <2>1 DEF Settled
<1> QED BY <1>1, <1>2, <1>3, <1>4, <1>7

\* What a step is for the requests and for what is shown.
LEMMA AnswerSteps ==
  ASSUME CountType, [Next]_vars
  PROVE  /\ kind' = kind
         /\ \/ (\E f \in Ranges : Fetching(f)) /\ shown' = shown /\ UNCHANGED catalogVars
            \/ \E n \in Fetches, p \in PartsOf(kind) : ReadPart(n, p) \/ LosePart(n, p)
            \/ \E n \in Fetches : Answer(n)
            \/ UNCHANGED <<newest, answer, loading, shown>>
<1>1. CASE Refresh
  BY <1>1 DEF Refresh, CountType
<1>2. ASSUME NEW f \in Filters, ApplyFilter(f)
      PROVE  kind' = kind /\ (\E g \in Ranges : Fetching(g)) /\ shown' = shown /\ UNCHANGED catalogVars
  BY <1>2, ListAssumption DEF ApplyFilter
<1>3. ASSUME NEW n \in Fetches, Answer(n) \/ \E p \in PartsOf(kind) : ReadPart(n, p) \/ LosePart(n, p)
      PROVE  kind' = kind
  BY <1>3 DEF Answer, ReadPart, LosePart
<1>4. ASSUME NEW k \in Ops, Succeed(k)
      PROVE  /\ kind' = kind
             /\ \/ (\E g \in Ranges : Fetching(g)) /\ shown' = shown /\ UNCHANGED catalogVars
                \/ UNCHANGED <<newest, answer, loading, shown>>
  BY <1>4 DEF Succeed, CountType
<1>5. ASSUME NEW k \in Ops, Submit(k) \/ SubmitNew(k) \/ Serve(k) \/ Fail(k)
      PROVE  kind' = kind /\ UNCHANGED <<newest, answer, loading, shown>>
  BY <1>5 DEF Submit, SubmitNew, Serve, Fail, pageVars
<1>6. ASSUME NEW act \in {"edit", "delete"}, NEW r \in Ids, Choose(act, r)
      PROVE  kind' = kind /\ UNCHANGED <<newest, answer, loading, shown>>
  BY <1>6 DEF Choose, pageVars
<1>7. CASE CloseDialog \/ Server \/ UNCHANGED vars
  BY <1>7 DEF CloseDialog, Server, pageVars, vars
<1> QED BY <1>1, <1>2, <1>3, <1>4, <1>5, <1>6, <1>7 DEF Next, Page

\* Every step keeps the types of the requests and of what is shown.
LEMMA AnswerNext ==
  ASSUME PageType, [Next]_vars
  PROVE  AnswerType' /\ ShownType'
<1> USE DEF PageType
<1>k. kind' = kind /\ PartsOf(kind)' = PartsOf(kind) /\ Fetches' = Fetches
  BY AnswerSteps DEF PartsOf, Fetches
<1>n. newest \in Nat /\ Fetches \subseteq Nat \ {0}
  BY Bounds DEF CountType, AnswerType
<1>1. ASSUME NEW f \in Ranges, Fetching(f), shown' = shown PROVE AnswerType' /\ ShownType'
  <2>1. AnswerType' /\ newest' = newest + 1
    BY <1>1, <1>k, FetchingTypes
  <2>2. \A p \in PartsOf(kind) : shown[p].fetch \in 0..newest'
    BY <1>n, <2>1 DEF ShownType
  <2> QED BY <1>1, <1>k, <2>1, <2>2 DEF ShownType
<1>2. ASSUME NEW n \in Fetches, NEW p \in PartsOf(kind), ReadPart(n, p) \/ LosePart(n, p)
      PROVE  AnswerType' /\ ShownType'
  <2>1. UNCHANGED <<newest, loading, shown>>
    BY <1>2 DEF ReadPart, LosePart
  <2>2. answer' \in [Fetches -> {<< >>} \cup [PartsOf(kind) -> Request]] /\ Pending' = Pending
    BY <1>2, PartAnswers
  <2> QED BY <1>k, <2>1, <2>2 DEF AnswerType, ShownType
<1>3. ASSUME NEW n \in Fetches, Answer(n) PROVE AnswerType' /\ ShownType'
  <2>1. /\ n \in Pending /\ Pending' = Pending \ {n}
        /\ answer' = [answer EXCEPT ![n] = << >>] /\ loading' = FALSE /\ newest' = newest
        /\ shown' \in [PartsOf(kind) -> Showing]
    BY <1>3, AnswersAreShown
  <2>2. answer' \in [Fetches -> {<< >>} \cup [PartsOf(kind) -> Request]]
    BY <2>1 DEF AnswerType
  <2>3. AnswerType'
    BY <1>k, <2>1, <2>2 DEF AnswerType
  <2>4. n \in 0..newest
    BY <1>n, <2>1 DEF AnswerType
  <2>5. \A p \in PartsOf(kind) : shown'[p].fetch \in 0..newest
    <3> SUFFICES ASSUME NEW p \in PartsOf(kind) PROVE shown'[p].fetch \in 0..newest
      OBVIOUS
    <3>1. CASE shown'[p] = shown[p]
      BY <3>1 DEF ShownType
    <3>2. CASE shown'[p] = [fetch |-> n, filter |-> answer[n][p].filter, known |-> answer[n][p].known,
                            rows |-> answer[n][p].rows, figures |-> answer[n][p].figures,
                            edited |-> answer[n][p].edited]
      BY <2>4, <3>2
    <3> QED BY <1>3, <3>1, <3>2, AnswersAreShown
  <2> QED BY <1>k, <2>1, <2>3, <2>5 DEF ShownType
<1>4. CASE UNCHANGED <<newest, answer, loading, shown>>
  <2>1. Pending' = Pending
    BY <1>4, <1>k DEF Pending
  <2> QED BY <1>4, <1>k, <2>1 DEF AnswerType, ShownType
<1> QED BY AnswerSteps, <1>1, <1>2, <1>3, <1>4

\* What a request that the server is done with becomes.
LEMMA ServedType ==
  ASSUME OpType, NEW k \in Ops, NEW r \in Ids \cup {0}, NEW result \in {"done", "refused", "failed"},
         Served(k, r, result)
  PROVE  op' \in [Ops -> Change]
<1>1. op \in [Ops -> Change] /\ op[k] \in Change
  BY DEF OpType
<1>2. PICK state \in {"done", "refused", "failed"} :
        op' = [op EXCEPT ![k] = [op[k] EXCEPT !.row = r, !.state = state]]
  BY <1>1 DEF Served, Change
<1>3. [op[k] EXCEPT !.row = r, !.state = state] \in Change
  BY <1>1 DEF Change
<1> QED BY <1>1, <1>2, <1>3

\* The steps that the user's changes take.
LEMMA ChangeActs ==
  [Next]_vars =>
    \/ \E act \in {"edit", "delete"}, r \in Ids : Choose(act, r)
    \/ CloseDialog
    \/ \E k \in Ops : Submit(k) \/ SubmitNew(k) \/ Serve(k) \/ Succeed(k) \/ Fail(k)
    \/ UNCHANGED opVars
<1>1. CASE Server \/ Refresh \/ (\E f \in Filters : ApplyFilter(f)) \/ UNCHANGED vars
  BY <1>1 DEF Server, Refresh, ApplyFilter, vars
<1>2. ASSUME NEW n \in Fetches, Answer(n) \/ \E p \in PartsOf(kind) : ReadPart(n, p) \/ LosePart(n, p)
      PROVE  UNCHANGED opVars
  BY <1>2 DEF Answer, ReadPart, LosePart
<1> QED BY <1>1, <1>2 DEF Next, Page

\* Every step keeps the types of the user's changes.
LEMMA OpNext ==
  ASSUME PageType, [Next]_vars
  PROVE  OpType'
<1> USE DEF PageType
<1>k. kind' = kind /\ Ids' = Ids /\ Change' = Change
  BY AnswerSteps DEF Ids, Change
<1>o. dialog \in [act : Acts, row : Ids \cup {0}, by : Ops \cup {0}] /\ op \in [Ops -> Change]
  BY DEF OpType
<1>d. NoDialog \in [act : Acts, row : Ids \cup {0}, by : Ops \cup {0}]
  BY DEF NoDialog, Acts
<1>1. ASSUME NEW act \in {"edit", "delete"}, NEW r \in Ids, Choose(act, r) PROVE OpType'
  BY <1>1, <1>k, <1>o DEF Choose, OpType, Acts
<1>2. CASE CloseDialog
  BY <1>2, <1>k, <1>o, <1>d DEF CloseDialog, OpType
<1>3. ASSUME NEW k \in Ops, Submit(k) PROVE OpType'
  <2>1. /\ op' = [op EXCEPT ![k] = Submitted(dialog.act, dialog.row)]
        /\ dialog' = [dialog EXCEPT !.by = k]
    BY <1>3 DEF Submit
  <2>2. Submitted(dialog.act, dialog.row) \in Change
    BY <1>o DEF Submitted, Change
  <2> QED BY <1>k, <1>o, <2>1, <2>2 DEF OpType
<1>4. ASSUME NEW k \in Ops, SubmitNew(k) PROVE OpType'
  <2>1. Submitted("create", 0) \in Change
    BY DEF Submitted, Change, Acts
  <2> QED BY <1>4, <1>k, <1>o, <1>d, <2>1 DEF SubmitNew, OpType
<1>5. ASSUME NEW k \in Ops, Serve(k) PROVE OpType'
  <2>1. dialog' = dialog /\ op[k] \in Change /\ op[k].row \in Ids \cup {0}
    BY <1>5, <1>o DEF Serve, Change
  <2>2. \/ \E r \in Ids \cup {0}, result \in {"done", "refused"} : Served(k, r, result)
        \/ \E s \in Ids : op' = [op EXCEPT ![k].row = s]
        \/ op' = op
    BY <1>5, <2>1 DEF Serve, Ids
  <2>3. ASSUME NEW r \in Ids \cup {0}, NEW result \in {"done", "refused"}, Served(k, r, result)
        PROVE  op' \in [Ops -> Change]
    BY <2>3, ServedType
  <2>4. ASSUME NEW s \in Ids, op' = [op EXCEPT ![k].row = s] PROVE op' \in [Ops -> Change]
    <3>1. [op[k] EXCEPT !.row = s] \in Change
      BY <2>1 DEF Change
    <3> QED BY <1>o, <2>4, <3>1
  <2> QED BY <1>k, <1>o, <2>1, <2>2, <2>3, <2>4 DEF OpType
<1>6. ASSUME NEW k \in Ops, Succeed(k) PROVE OpType'
  <2>1. op' = [op EXCEPT ![k].state = "told"] /\ dialog' \in {NoDialog, dialog}
    BY <1>6 DEF Succeed
  <2>2. [op[k] EXCEPT !.state = "told"] \in Change
    BY <1>o DEF Change
  <2>3. op' \in [Ops -> Change]
    BY <1>o, <2>1, <2>2
  <2> QED BY <1>k, <1>o, <1>d, <2>1, <2>3 DEF OpType
<1>7. ASSUME NEW k \in Ops, Fail(k) PROVE OpType'
  <2>1. op[k] \in Change /\ op[k].row \in Ids \cup {0} /\ dialog' = dialog
    BY <1>7, <1>o DEF Fail, Change
  <2>2. CASE Served(k, op[k].row, "failed")
    BY <1>k, <1>o, <2>1, <2>2, ServedType DEF OpType
  <2>3. ASSUME NEW state \in {"given up", "failed"}, op' = [op EXCEPT ![k].state = state]
        PROVE  OpType'
    <3>1. [op[k] EXCEPT !.state = state] \in Change
      BY <2>1 DEF Change
    <3> QED BY <1>k, <1>o, <2>1, <2>3, <3>1 DEF OpType
  <2> QED BY <1>7, <2>2, <2>3 DEF Fail
<1>8. CASE UNCHANGED opVars
  BY <1>8, <1>k, <1>o DEF opVars, OpType
<1> QED BY <1>1, <1>2, <1>3, <1>4, <1>5, <1>6, <1>7, <1>8, ChangeActs

\* What a step does to the rest: a page that was left is not come back to.
LEMMA CountSteps ==
  [Next]_vars =>
    /\ open' = open \/ open' = FALSE
    /\ filter' = filter \/ filter' \in Filters
    /\ lost' = lost \/ (lost < MaxLost /\ lost' = lost + 1)
    /\ others' = others \/ (others < MaxOthers[kind] /\ others' = others + 1)
<1> DEFINE Step == /\ open' = open \/ open' = FALSE
                   /\ filter' = filter \/ filter' \in Filters
                   /\ lost' = lost \/ (lost < MaxLost /\ lost' = lost + 1)
                   /\ others' = others \/ (others < MaxOthers[kind] /\ others' = others + 1)
<1>1. ASSUME Server PROVE Step
  BY <1>1 DEF Server, InsertPosted, Another, pageVars
<1>2. ASSUME Refresh \/ CloseDialog \/ UNCHANGED vars PROVE Step
  BY <1>2 DEF Refresh, CloseDialog, pageVars, vars
<1>3. ASSUME NEW f \in Filters, ApplyFilter(f) PROVE Step
  BY <1>3 DEF ApplyFilter
<1>4. ASSUME NEW n \in Fetches, Answer(n) \/ \E p \in PartsOf(kind) : ReadPart(n, p) \/ LosePart(n, p)
      PROVE  Step
  BY <1>4 DEF Answer, ReadPart, LosePart
<1>5. ASSUME NEW act \in {"edit", "delete"}, NEW r \in Ids, Choose(act, r) PROVE Step
  BY <1>5 DEF Choose, pageVars
<1>6. ASSUME NEW k \in Ops, Submit(k) \/ SubmitNew(k) \/ Serve(k) PROVE Step
  BY <1>6 DEF Submit, SubmitNew, Serve, pageVars
<1>7. ASSUME NEW k \in Ops, Succeed(k) PROVE Step
  BY <1>7 DEF Succeed
<1>8. ASSUME NEW k \in Ops, Fail(k) PROVE Step
  BY <1>8 DEF Fail, pageVars
<1>9. [Next]_vars => Step
  <2> HIDE DEF Step
  <2> QED BY <1>1, <1>2, <1>3, <1>4, <1>5, <1>6, <1>7, <1>8 DEF Next, Page
<1> QED BY <1>9

\* Every step keeps the types of the rest.
LEMMA CountNext ==
  ASSUME PageType, [Next]_vars
  PROVE  CountType'
<1> USE DEF PageType
<1>k. kind' = kind
  BY AnswerSteps
<1>b. MaxOthers[kind] \in Nat /\ MaxLost \in Nat /\ lost \in Nat /\ others \in Nat
  BY Bounds DEF CountType
<1>1. open' \in BOOLEAN
  BY CountSteps DEF CountType
<1>2. filter' \in Ranges
  BY CountSteps, ListAssumption DEF CountType
<1>3. lost' \in 0..MaxLost /\ others' \in 0..MaxOthers[kind]
  BY CountSteps, <1>b DEF CountType
<1> QED BY <1>k, <1>1, <1>2, <1>3 DEF CountType

\* Initially the first fetch is under way.
LEMMA PageInit == Init => PageType
<1> SUFFICES ASSUME Init PROVE PageType
  OBVIOUS
<1> USE DEF Init
<1> DEFINE new == [p \in PartsOf(kind) |-> Asked(NoFilter)]
<1>c. CatalogTypeOK
  BY CatalogInitially DEF CatalogInv
<1>b. MaxOthers[kind] \in Nat /\ MaxLost \in Nat /\ 1 \in Fetches /\ Fetches \subseteq Nat \ {0}
  BY Bounds
<1>1. new \in [PartsOf(kind) -> Request]
  BY <1>c, AskedIsRequest, NoFilterIsRange
<1>2. new # << >>
  BY <1>1, PartsAreSome
<1>3. answer = [f \in Fetches |-> IF f = 1 THEN new ELSE << >>]
  OBVIOUS
<1> HIDE DEF new
<1>4. Pending = {1}
  BY <1>b, <1>2, <1>3 DEF Pending
<1>5. AnswerType
  BY <1>b, <1>1, <1>3, <1>4 DEF AnswerType
<1>6. Nothing \in Showing /\ Nothing.fetch = 0
  BY NoFilterIsRange DEF Nothing, Showing
<1>7. ShownType
  BY <1>6 DEF ShownType
<1>8. Unused \in Change /\ NoDialog \in [act : Acts, row : Ids \cup {0}, by : Ops \cup {0}]
  BY DEF Unused, NoDialog, Change, Acts
<1>9. OpType
  BY <1>8 DEF OpType
<1>10. CountType
  BY <1>b, NoFilterIsRange DEF CountType
<1> QED BY <1>c, <1>5, <1>7, <1>9, <1>10 DEF PageType

\* Every step keeps the types.
LEMMA PageNext == CatalogInv /\ PageType /\ [Next]_vars => CatalogInv' /\ PageType'
<1> SUFFICES ASSUME CatalogInv, PageType, [Next]_vars PROVE CatalogInv' /\ PageType'
  OBVIOUS
<1>1. CatalogInv'
  BY CatalogSteps, CatalogNext
<1> QED BY <1>1, AnswerNext, OpNext, CountNext DEF PageType, CatalogInv

\* What the types say is what TypeOK says.
LEMMA PageTypeOK == PageType => TypeOK
<1> SUFFICES ASSUME PageType PROVE TypeOK
  OBVIOUS
<1> USE DEF PageType
<1>1. \A n \in Pending : DOMAIN answer[n] = PartsOf(kind)
  <2>1. \A n \in Pending : answer[n] \in [PartsOf(kind) -> Request]
    BY DEF Pending, AnswerType
  <2> QED BY <2>1
<1>2. dialog.row \in Ids \cup {0} /\ \A k \in Ops : op[k].row \in Ids \cup {0}
  BY DEF OpType, Change
<1> QED BY <1>1, <1>2 DEF AnswerType, ShownType, CountType, TypeOK

\* The page's variables keep their types; a page that says it loads awaits a fetch.
THEOREM TypeCorrect == Spec => []TypeOK
<1>1. Init => CatalogInv /\ PageType
  BY CatalogInitially, PageInit DEF Init
<1> QED BY <1>1, PageNext, PageTypeOK, PTL DEF Spec

------------------------------------------------------------------------------
(* The analytics: parts of one fetch agree. *)

\* The sessions an answer was asked about were there, and may have been deleted since.
WereKept(a) == \A s \in a.known : session[s] \in {"kept", "removed"}

\* Of those that are still there, with an expert, an answer has the ones of its range.
Faithful(a) ==
  \A s \in a.known : session[s] = "kept" /\ Of(s) # {} => (s \in a.rows <=> InRange(s, a.filter))

\* A part that finds sessions adds up those it lists or counts, but for the experts'.
AddsUp(p, a) == p # "experts" /\ a.rows # {} => a.figures = a.rows

\* The parts of a fetch were asked for together, and are shown together.
AgreeInv ==
  /\ \A n \in Pending, p, q \in PartsOf(kind) :
       answer[n][p].filter = answer[n][q].filter /\ answer[n][p].known = answer[n][q].known
  /\ \A n \in Pending, p \in PartsOf(kind) : shown[p].fetch # n /\ WereKept(answer[n][p])
  /\ \A p, q \in PartsOf(kind) : shown[p].fetch = shown[q].fetch =>
       shown[p].filter = shown[q].filter /\ shown[p].known = shown[q].known
  /\ \A p \in PartsOf(kind) : WereKept(shown[p])
  /\ kind = "analytics" => \A p \in PartsOf(kind) :
       /\ \A n \in Pending : answer[n][p].status = "read" => Faithful(answer[n][p])
       /\ Faithful(shown[p])
  /\ \A p \in PartsOf(kind) :
       /\ \A n \in Pending : answer[n][p].status = "read" => AddsUp(p, answer[n][p])
       /\ AddsUp(p, shown[p])

\* The same of an answer once the step is taken.
WillBeKept(a) == \A s \in a.known : session'[s] \in {"kept", "removed"}
WillBeFaithful(a) ==
  \A s \in a.known : session'[s] = "kept" /\ Of(s)' # {} =>
    (s \in a.rows <=> a.filter.from <= day'[s] /\ day'[s] < a.filter.to)

\* No change of the rows makes an answer wrong: a session that is there again is another
\* one, its day does not change, and experts only leave it.
LEMMA RowsStayTrue ==
  ASSUME CatalogInv, CatalogStep, NEW a, a.known \subseteq SessionIds, WereKept(a)
  PROVE  WillBeKept(a) /\ (Faithful(a) => WillBeFaithful(a))
<1> DEFINE Stays(s) ==
      /\ session'[s] \in {"kept", "removed"} /\ (session'[s] = "kept" => session[s] = "kept")
      /\ day'[s] = day[s] /\ Of(s)' \subseteq Of(s)
<1>1. ASSUME NEW s \in a.known PROVE Stays(s)
  <2>0. s \in SessionIds /\ session[s] \in {"kept", "removed"}
    BY DEF WereKept
  <2> USE <2>0 DEF CatalogInv, CatalogTypeOK, Of
  <2>1. ASSUME NEW e \in ExpertIds, CreateExpert(e) PROVE Stays(s)
    BY <2>1 DEF CreateExpert
  <2>2. ASSUME NEW r, RemoveExpert(r) PROVE Stays(s)
    BY <2>2 DEF RemoveExpert
  <2>3. ASSUME NEW t \in SessionIds, NEW experts \in SUBSET ExpertIds, PostSession(t, experts)
        PROVE  Stays(s)
    BY <2>3 DEF PostSession
  <2>4. ASSUME NEW t \in SessionIds, InsertSession(t) PROVE Stays(s)
    <3>1. session[t] = "posted" /\ t # s
      BY <2>4 DEF InsertSession
    <3> QED BY <2>4, <3>1 DEF InsertSession
  <2>5. ASSUME NEW r, RemoveSession(r) PROVE Stays(s)
    BY <2>5 DEF RemoveSession
  <2>6. CASE UNCHANGED catalogVars
    BY <2>6 DEF catalogVars
  <2> QED BY <2>1, <2>2, <2>3, <2>4, <2>5, <2>6 DEF CatalogStep
<1> QED BY <1>1 DEF WillBeKept, Faithful, WillBeFaithful, InRange

\* What a part reads is faithful: a session of the range, and, for the experts' part, one
\* that an expert leads to.
LEMMA ReadIsFaithful ==
  ASSUME CatalogTypeOK, kind = "analytics", NEW p \in PartsOf(kind), NEW a,
         a.known \subseteq SessionIds, a.rows = Read(p, a.filter)
  PROVE  Faithful(a)
<1>1. p \in {"overview", "sessions", "experts", "comparisons"}
  BY DEF PartsOf
<1>2. \A s \in SessionIds : session[s] = "kept" /\ Of(s) # {} =>
        (s \in Read(p, a.filter) <=> InRange(s, a.filter))
  BY <1>1 DEF Read, Overview, SessionsList, ExpertsList, Comparisons, Kept, CatalogTypeOK
<1> QED BY <1>2 DEF Faithful

\* Initially nothing is shown.
LEMMA AgreeInit == Init => AgreeInv
<1> SUFFICES ASSUME Init PROVE AgreeInv
  OBVIOUS
<1> USE DEF Init
<1>1. \A p \in PartsOf(kind) : shown[p] = Nothing /\ Nothing.fetch = 0 /\ Nothing.known = {}
  BY DEF Nothing
<1>2. \A n \in Pending : n = 1 /\ \A p \in PartsOf(kind) : answer[n][p] = Asked(NoFilter)
  BY DEF Pending
<1>3. Asked(NoFilter).known = Kept(session) /\ Asked(NoFilter).status = "asked"
  BY DEF Asked
<1>4. WereKept(Nothing) /\ Faithful(Nothing)
  BY DEF WereKept, Faithful, Nothing
<1>6. \A p : AddsUp(p, Nothing)
  BY DEF AddsUp, Nothing
<1>5. WereKept(Asked(NoFilter))
  BY <1>3 DEF WereKept, Kept
<1> QED BY <1>1, <1>2, <1>3, <1>4, <1>5, <1>6 DEF AgreeInv

\* Every step keeps the parts of a fetch in agreement.
LEMMA AgreeNext == CatalogInv /\ PageType /\ AgreeInv /\ [Next]_vars => AgreeInv'
<1> SUFFICES ASSUME CatalogInv, PageType, AgreeInv, [Next]_vars PROVE AgreeInv'
  OBVIOUS
<1> USE DEF PageType
<1>k. kind' = kind /\ PartsOf(kind)' = PartsOf(kind) /\ Fetches' = Fetches
  BY AnswerSteps DEF PartsOf, Fetches
<1>n. newest \in Nat /\ Fetches \subseteq Nat \ {0} /\ Pending \subseteq Fetches
  BY Bounds DEF CountType, AnswerType, Pending
<1>t. /\ \A n \in Pending : answer[n] \in [PartsOf(kind) -> Request]
      /\ \A n \in Pending, p \in PartsOf(kind) : answer[n][p].known \subseteq SessionIds
      /\ \A p \in PartsOf(kind) : shown[p].known \subseteq SessionIds
  <2>1. \A n \in Pending : answer[n] \in [PartsOf(kind) -> Request]
    BY DEF AnswerType, Pending
  <2>2. \A n \in Pending, p \in PartsOf(kind) : answer[n][p] \in Request
    BY <2>1
  <2>3. \A p \in PartsOf(kind) : shown[p] \in Showing
    BY DEF ShownType
  <2> QED BY <2>1, <2>2, <2>3 DEF Request, Showing
<1>a. /\ \A n \in Pending, p \in PartsOf(kind) :
           /\ WillBeKept(answer[n][p])
           /\ kind = "analytics" /\ answer[n][p].status = "read" => WillBeFaithful(answer[n][p])
      /\ \A p \in PartsOf(kind) :
           WillBeKept(shown[p]) /\ (kind = "analytics" => WillBeFaithful(shown[p]))
  <2>1. \A a : a.known \subseteq SessionIds /\ WereKept(a) =>
          WillBeKept(a) /\ (Faithful(a) => WillBeFaithful(a))
    BY RowsStayTrue, CatalogSteps
  <2> QED BY <1>t, <2>1 DEF AgreeInv
<1>e. ASSUME \A n \in Pending', p, q \in PartsOf(kind) :
               answer'[n][p].filter = answer'[n][q].filter /\ answer'[n][p].known = answer'[n][q].known,
             \A n \in Pending', p \in PartsOf(kind) :
               shown'[p].fetch # n /\ WillBeKept(answer'[n][p]),
             \A p, q \in PartsOf(kind) : shown'[p].fetch = shown'[q].fetch =>
               shown'[p].filter = shown'[q].filter /\ shown'[p].known = shown'[q].known,
             \A p \in PartsOf(kind) : WillBeKept(shown'[p]),
             kind = "analytics" => \A p \in PartsOf(kind) :
               /\ \A n \in Pending' : answer'[n][p].status = "read" => WillBeFaithful(answer'[n][p])
               /\ WillBeFaithful(shown'[p]),
             \A p \in PartsOf(kind) :
               /\ \A n \in Pending' : answer'[n][p].status = "read" => AddsUp(p, answer'[n][p])
               /\ AddsUp(p, shown'[p])
      PROVE  AgreeInv'
  BY <1>e, <1>k DEF AgreeInv, WereKept, WillBeKept, Faithful, WillBeFaithful, InRange, AddsUp
<1>1. ASSUME NEW f \in Ranges, Fetching(f), shown' = shown, UNCHANGED catalogVars PROVE AgreeInv'
  <2> DEFINE m == newest + 1
             new == [p \in PartsOf(kind) |-> Asked(f)]
  <2>1. m \in Fetches /\ answer' = [answer EXCEPT ![m] = new]
    BY <1>1, <1>k, FetchingTypes DEF Fetching
  <2>2. \A n \in Pending : n # m
    BY <1>n DEF AnswerType
  <2>3. \A p \in PartsOf(kind) : shown[p].fetch # m
    BY <1>n DEF ShownType
  <2>4. \A n \in Fetches : answer'[n] = IF n = m THEN new ELSE answer[n]
    BY <2>1 DEF AnswerType
  <2>5. \A n \in Pending' : n = m \/ (n \in Pending /\ answer'[n] = answer[n])
    BY <1>k, <2>4 DEF Pending
  <2>6. \A p \in PartsOf(kind) : answer'[m][p] = Asked(f)
    BY <2>1, <2>4
  <2>7. Asked(f).status = "asked" /\ Asked(f).known = Kept(session)
    BY DEF Asked
  <2>8. WillBeKept(Asked(f))
    BY <1>1, <2>7 DEF WillBeKept, Kept, catalogVars
  <2> HIDE DEF new, m
  <2>9. \A n \in Pending', p, q \in PartsOf(kind) :
          answer'[n][p].filter = answer'[n][q].filter /\ answer'[n][p].known = answer'[n][q].known
    BY <2>5, <2>6 DEF AgreeInv
  <2>10. \A n \in Pending', p \in PartsOf(kind) : shown'[p].fetch # n /\ WillBeKept(answer'[n][p])
    BY <1>1, <1>a, <2>3, <2>5, <2>6, <2>8 DEF AgreeInv
  <2>11. kind = "analytics" => \A p \in PartsOf(kind), n \in Pending' :
           answer'[n][p].status = "read" => WillBeFaithful(answer'[n][p])
    BY <1>a, <2>5, <2>6, <2>7
  <2>12. \A p \in PartsOf(kind), n \in Pending' :
           answer'[n][p].status = "read" => AddsUp(p, answer'[n][p])
    BY <2>5, <2>6, <2>7 DEF AgreeInv
  <2> QED BY <1>1, <1>a, <1>e, <2>9, <2>10, <2>11, <2>12 DEF AgreeInv
<1>2. ASSUME NEW n \in Fetches, NEW p \in PartsOf(kind), ReadPart(n, p) \/ LosePart(n, p)
      PROVE  AgreeInv'
  <2> DEFINE old == answer[n][p]
             read == [status |-> "read", filter |-> old.filter, known |-> old.known,
                      rows |-> Read(p, old.filter),
                      figures |-> Figures(p, Read(p, old.filter)), edited |-> Edited]
             failed == [status |-> "failed", filter |-> old.filter, known |-> old.known,
                        rows |-> old.rows, figures |-> old.figures, edited |-> old.edited]
  <2>1. /\ n \in Pending /\ Pending' = Pending
        /\ \A m \in Fetches, q \in PartsOf(kind) : m # n \/ q # p => answer'[m][q] = answer[m][q]
    BY <1>2, PartAnswers
  <2>2. PICK new \in {read, failed} : answer'[n][p] = new
    BY <1>2, PartAnswers
  <2>3. shown' = shown /\ UNCHANGED catalogVars
    BY <1>2 DEF ReadPart, LosePart
  <2>4. new.filter = old.filter /\ new.known = old.known
    BY <2>2
  <2>5. WillBeKept(new)
    BY <1>a, <2>1, <2>4 DEF WillBeKept
  <2>6. kind = "analytics" /\ new.status = "read" => WillBeFaithful(new)
    <3> SUFFICES ASSUME kind = "analytics", new.status = "read" PROVE WillBeFaithful(new)
      OBVIOUS
    <3>1. new.rows = Read(p, new.filter)
      BY <2>2
    <3>2. new.known \subseteq SessionIds /\ WereKept(new)
      BY <1>t, <2>1, <2>4 DEF AgreeInv, WereKept
    <3>3. Faithful(new)
      BY <3>1, <3>2, ReadIsFaithful DEF CatalogInv
    <3> QED BY <3>2, <3>3, RowsStayTrue, CatalogSteps
  <2>11. new.status = "read" => AddsUp(p, new)
    <3>1. CASE new = read
      <4>1. new.rows = Read(p, old.filter) /\ new.figures = Figures(p, new.rows)
        BY <3>1
      <4> HIDE DEF read, old
      <4> QED BY <4>1 DEF AddsUp, Figures
    <3>2. CASE new = failed
      BY <3>2
    <3> QED BY <2>2, <3>1, <3>2
  <2> HIDE DEF read, failed, old
  <2>12. \A q \in PartsOf(kind), m \in Pending' :
           answer'[m][q].status = "read" => AddsUp(q, answer'[m][q])
    BY <1>n, <2>1, <2>2, <2>11 DEF AgreeInv
  <2>7. \A m \in Pending, q \in PartsOf(kind) :
          answer'[m][q].filter = answer[m][q].filter /\ answer'[m][q].known = answer[m][q].known
    BY <1>n, <2>1, <2>2, <2>4 DEF old
  <2>8. \A m \in Pending', q \in PartsOf(kind) : shown'[q].fetch # m /\ WillBeKept(answer'[m][q])
    BY <1>n, <1>a, <2>1, <2>2, <2>3, <2>5 DEF AgreeInv
  <2>9. kind = "analytics" => \A q \in PartsOf(kind), m \in Pending' :
          answer'[m][q].status = "read" => WillBeFaithful(answer'[m][q])
    BY <1>n, <1>a, <2>1, <2>2, <2>6
  <2>10. \A m \in Pending', q, r \in PartsOf(kind) :
          answer'[m][q].filter = answer'[m][r].filter /\ answer'[m][q].known = answer'[m][r].known
    BY <2>1, <2>7 DEF AgreeInv
  <2> QED BY <1>a, <1>e, <2>3, <2>8, <2>9, <2>10, <2>12 DEF AgreeInv
<1>3. ASSUME NEW n \in Fetches, Answer(n) PROVE AgreeInv'
  <2>1. /\ n \in Pending /\ Pending' = Pending \ {n} /\ answer' = [answer EXCEPT ![n] = << >>]
    BY <1>3, AnswersAreShown
  <2>2. \A m \in Pending' : m \in Pending /\ m # n /\ answer'[m] = answer[m]
    BY <1>n, <2>1 DEF AnswerType
  <2>3. \A p \in PartsOf(kind) :
          \/ /\ answer[n][p].status = "read" /\ shown'[p].fetch = n
             /\ shown'[p].filter = answer[n][p].filter /\ shown'[p].known = answer[n][p].known
             /\ shown'[p].rows = answer[n][p].rows /\ shown'[p].figures = answer[n][p].figures
          \/ shown'[p] = shown[p] /\ shown[p].fetch # n
    <3> SUFFICES ASSUME NEW p \in PartsOf(kind), shown'[p] # shown[p]
                 PROVE  /\ answer[n][p].status = "read" /\ shown'[p].fetch = n
                        /\ shown'[p].filter = answer[n][p].filter /\ shown'[p].known = answer[n][p].known
                        /\ shown'[p].rows = answer[n][p].rows
                        /\ shown'[p].figures = answer[n][p].figures
      BY <2>1 DEF AgreeInv
    <3>1. answer[n][p].status = "read" /\ shown'[p] =
            [fetch |-> n, filter |-> answer[n][p].filter, known |-> answer[n][p].known,
             rows |-> answer[n][p].rows, figures |-> answer[n][p].figures,
             edited |-> answer[n][p].edited]
      BY <1>3, AnswersAreShown
    <3> QED BY <3>1
  <2>4. \A m \in Pending', p \in PartsOf(kind) : shown'[p].fetch # m /\ WillBeKept(answer'[m][p])
    BY <1>a, <2>2, <2>3 DEF AgreeInv
  <2>5. \A p, q \in PartsOf(kind) : shown'[p].fetch = shown'[q].fetch =>
          shown'[p].filter = shown'[q].filter /\ shown'[p].known = shown'[q].known
    BY <2>1, <2>3 DEF AgreeInv
  <2>6. \A p \in PartsOf(kind) : WillBeKept(shown'[p])
    BY <1>a, <2>1, <2>3 DEF WillBeKept
  <2>7. kind = "analytics" => \A p \in PartsOf(kind) : WillBeFaithful(shown'[p])
    BY <1>a, <2>1, <2>3 DEF WillBeFaithful
  <2>8. \A m \in Pending', p, q \in PartsOf(kind) :
          answer'[m][p].filter = answer'[m][q].filter /\ answer'[m][p].known = answer'[m][q].known
    BY <2>2 DEF AgreeInv
  <2>9. kind = "analytics" => \A p \in PartsOf(kind), m \in Pending' :
          answer'[m][p].status = "read" => WillBeFaithful(answer'[m][p])
    BY <1>a, <2>2
  <2>10. \A p \in PartsOf(kind) :
           /\ \A m \in Pending' : answer'[m][p].status = "read" => AddsUp(p, answer'[m][p])
           /\ AddsUp(p, shown'[p])
    BY <2>1, <2>2, <2>3 DEF AgreeInv, AddsUp
  <2> QED BY <1>e, <2>4, <2>5, <2>6, <2>7, <2>8, <2>9, <2>10
<1>4. CASE UNCHANGED <<newest, answer, loading, shown>>
  <2>1. Pending' = Pending
    BY <1>4, <1>k DEF Pending
  <2> QED BY <1>4, <1>a, <1>e, <2>1 DEF AgreeInv
<1> QED BY AnswerSteps, <1>1, <1>2, <1>3, <1>4

\* The parts of the analytics that one fetch brought list and count the same sessions, and
\* add them up, but for the experts' part and an overview that counts none.
THEOREM AnalyticsAgree == Spec => []PartsAgree
<1>1. Init => CatalogInv /\ PageType /\ AgreeInv
  BY CatalogInitially, PageInit, AgreeInit DEF Init
<1>2. CatalogInv /\ PageType /\ AgreeInv => PartsAgree
  <2> SUFFICES ASSUME CatalogInv, PageType, AgreeInv, NEW p \in PartsOf(kind), NEW q \in PartsOf(kind),
                      shown[p].fetch = shown[q].fetch, NEW s \in shown[p].known,
                      session[s] = "kept", Of(s) # {}
               PROVE  /\ s \in shown[p].rows <=> s \in shown[q].rows
                      /\ AddsUpItsRows(p) /\ AddsUpItsRows(q) =>
                           (s \in shown[p].figures <=> s \in shown[q].figures)
    BY DEF PartsAgree
  <2>1. s \in shown[p].rows <=> s \in shown[q].rows
    <3>1. CASE p = q
      BY <3>1
    <3>2. CASE p # q
      <4>1. kind = "analytics"
        BY <3>2 DEF PartsOf
      <4>2. shown[p].filter = shown[q].filter /\ s \in shown[q].known
        BY DEF AgreeInv
      <4> QED BY <4>1, <4>2 DEF AgreeInv, Faithful
    <3> QED BY <3>1, <3>2
  <2>2. \A r \in PartsOf(kind) : AddsUpItsRows(r) => shown[r].figures = shown[r].rows
    BY DEF AgreeInv, AddsUp, AddsUpItsRows
  <2> QED BY <2>1, <2>2
<1> QED BY <1>1, <1>2, PageNext, AgreeNext, PTL DEF Spec
------------------------------------------------------------------------------
(* The list: the newest fetch shows what the page was told. *)

\* What a change of the page has done to its row, and which rows it may be about.  Nobody
\* is on this page any more once a session was created from it.
ChangeTrue(k) ==
  LET r == op[k].row IN
  /\ op[k].act = "delete" => r \in Ids
  /\ op[k].state # "unused" => kind # "analytics"
  /\ op[k].state \in {"done", "told"} =>
       /\ op[k].act = "delete" => Rows[r] = "removed"
       /\ op[k].act = "create" /\ kind = "experts" => r \in Ids /\ Rows[r] \in {"kept", "removed"}
  /\ op[k].state = "told" /\ op[k].act = "create" /\ open => kind = "experts"

ChangesTrue ==
  /\ dialog # NoDialog =>
       dialog.act \in {"edit", "delete"} /\ dialog.row \in Ids /\ kind # "analytics"
  /\ \A k \in Ops : ChangeTrue(k)

\* An answer tells of every change that the page was told of.
TellsOf(a, k) ==
  op[k].state = "told" =>
    /\ op[k].act = "delete" => op[k].row \notin a.rows
    /\ op[k].act = "create" => op[k].row \in a.rows \/ Rows[op[k].row] = "removed"
    /\ op[k].act = "edit" /\ op[k].row \in a.rows => op[k].row \in a.edited

Tells(a) == \A k \in Ops : TellsOf(a, k)

\* The requests of the newest fetch went out after all that the page was told, and with
\* the filter that is set; so did those it shows once they are the newest.
NewestInv ==
  open => \A p \in PartsOf(kind) :
    /\ newest \in Pending =>
         /\ answer[newest][p].filter = filter
         /\ answer[newest][p].status = "read" => Tells(answer[newest][p])
    /\ shown[p].fetch = newest => shown[p].filter = filter /\ Tells(shown[p])
\* A row that was removed stays removed, and one that is there is kept or removed.
LEMMA RowsAge ==
  ASSUME CatalogInv, CatalogStep, kind' = kind, NEW r \in Ids
  PROVE  /\ Rows[r] = "removed" => Rows'[r] = "removed"
         /\ Rows[r] = "kept" => Rows'[r] \in {"kept", "removed"}
<1> USE DEF CatalogInv, CatalogTypeOK, Rows, Ids
<1>1. ASSUME NEW e \in ExpertIds, CreateExpert(e)
      PROVE  Rows'[r] = Rows[r] \/ Rows[r] = "none"
  BY <1>1 DEF CreateExpert
<1>2. ASSUME NEW e, RemoveExpert(e) PROVE Rows'[r] = Rows[r] \/ Rows'[r] = "removed"
  BY <1>2 DEF RemoveExpert
<1>3. ASSUME NEW s \in SessionIds, NEW experts \in SUBSET ExpertIds, PostSession(s, experts)
      PROVE  Rows'[r] = Rows[r] \/ Rows[r] = "none"
  BY <1>3 DEF PostSession
<1>4. ASSUME NEW s \in SessionIds, InsertSession(s)
      PROVE  Rows'[r] = Rows[r] \/ Rows[r] = "posted"
  BY <1>4 DEF InsertSession
<1>5. ASSUME NEW s, RemoveSession(s) PROVE Rows'[r] = Rows[r] \/ Rows'[r] = "removed"
  BY <1>5 DEF RemoveSession
<1>6. CASE UNCHANGED catalogVars
  BY <1>6 DEF catalogVars
<1> QED BY <1>1, <1>2, <1>3, <1>4, <1>5, <1>6 DEF CatalogStep

\* What is true of a change stays true while nothing happens to it.
LEMMA ChangeStays ==
  ASSUME CatalogInv, PageType, [Next]_vars, NEW k \in Ops, ChangeTrue(k), op'[k] = op[k]
  PROVE  ChangeTrue(k)'
<1>1. kind' = kind /\ Ids' = Ids
  BY AnswerSteps DEF PageType, Ids
<1>2. open' => open
  BY CountSteps DEF PageType, CountType
<1>3. \A r \in Ids : /\ Rows[r] = "removed" => Rows'[r] = "removed"
                     /\ Rows[r] = "kept" => Rows'[r] \in {"kept", "removed"}
  BY <1>1, RowsAge, CatalogSteps
<1> QED BY <1>1, <1>2, <1>3 DEF ChangeTrue

\* Only the change that a step is about becomes another one.
LEMMA OneChange ==
  ASSUME CatalogInv, PageType, ChangesTrue, [Next]_vars, NEW k \in Ops, NEW c,
         op' = [op EXCEPT ![k] = c], ChangeTrue(k)'
  PROVE  \A j \in Ops : ChangeTrue(j)'
<1>1. op \in [Ops -> Change]
  BY DEF PageType, OpType
<1>2. \A j \in Ops : j # k => op'[j] = op[j]
  BY <1>1
<1> QED BY <1>2, ChangeStays DEF ChangesTrue
\* Initially the user has changed nothing.
LEMMA ChangesInit == Init => ChangesTrue
BY DEF Init, ChangesTrue, ChangeTrue, Unused, NoDialog

\* The server's part makes a change true: what is deleted was there, and what is created
\* is there.
LEMMA ServeMakesTrue ==
  ASSUME CatalogInv, PageType, ChangesTrue, [Next]_vars, NEW k \in Ops, Serve(k)
  PROVE  ChangesTrue'
<1> DEFINE r == op[k].row
<1> USE DEF PageType
<1>k. kind' = kind /\ Ids' = Ids /\ UNCHANGED <<pageVars, dialog>>
  BY AnswerSteps DEF Ids, Serve
<1>o. op \in [Ops -> Change] /\ op[k] \in Change /\ op[k].state \in {"sent", "given up"}
  BY DEF OpType, Serve
<1>t. ChangeTrue(k) /\ kind # "analytics"
  BY <1>o DEF ChangesTrue, ChangeTrue
<1> SUFFICES \A j \in Ops : ChangeTrue(j)'
  BY <1>k DEF ChangesTrue, NoDialog
<1>s. ASSUME NEW x, NEW result, Served(k, x, result)
      PROVE  \E state : /\ op' = [op EXCEPT ![k] = [op[k] EXCEPT !.row = x, !.state = state]]
                        /\ state = result \/ state = "failed"
  BY <1>s, <1>o DEF Served, Change
<1>1. ASSUME NEW x, NEW state, op' = [op EXCEPT ![k] = [op[k] EXCEPT !.row = x, !.state = state]],
             state # "told", op[k].act = "delete" => x \in Ids,
             state = "done" =>
               /\ op[k].act = "delete" => Rows'[x] = "removed"
               /\ op[k].act = "create" /\ kind = "experts" => x \in Ids /\ Rows'[x] \in {"kept", "removed"}
      PROVE  \A j \in Ops : ChangeTrue(j)'
  <2>1. op'[k].act = op[k].act /\ op'[k].row = x /\ op'[k].state = state
    BY <1>1, <1>o DEF Change
  <2>2. ChangeTrue(k)'
    BY <1>1, <1>k, <1>t, <2>1 DEF ChangeTrue
  <2> QED BY <1>1, <2>2, OneChange
<1>r. ASSUME NEW x, NEW result \in {"done", "refused"}, Served(k, x, result),
             op[k].act = "delete" => x \in Ids,
             result = "done" =>
               /\ op[k].act = "delete" => Rows'[x] = "removed"
               /\ op[k].act = "create" /\ kind = "experts" => x \in Ids /\ Rows'[x] \in {"kept", "removed"}
      PROVE  \A j \in Ops : ChangeTrue(j)'
  <2>1. PICK state : /\ op' = [op EXCEPT ![k] = [op[k] EXCEPT !.row = x, !.state = state]]
                     /\ state = result \/ state = "failed"
    BY <1>r, <1>s
  <2> QED BY <1>1, <1>r, <2>1
<1>2. CASE op[k].act = "delete" /\ Served(k, r, "done")
           /\ IF kind = "experts" THEN RemoveExpert(r) ELSE RemoveSession(r)
  <2>1. r \in Ids
    BY <1>2, <1>t DEF ChangeTrue
  <2>2. Rows'[r] = "removed"
    BY <1>2, <1>k, <2>1 DEF RemoveExpert, RemoveSession, Rows, Ids, CatalogInv, CatalogTypeOK
  <2> QED BY <1>r, <1>2, <2>1, <2>2
<1>3. CASE op[k].act = "edit" /\ Served(k, r, "done")
  BY <1>r, <1>3
<1>4. CASE Served(k, r, "refused") /\ op[k].act # "create"
  BY <1>r, <1>4, <1>t DEF ChangeTrue
<1>5. ASSUME op[k].act = "create", kind = "experts", NEW e \in ExpertIds, CreateExpert(e),
             Served(k, e, "done")
      PROVE  \A j \in Ops : ChangeTrue(j)'
  <2>1. e \in Ids /\ Rows'[e] = "kept"
    BY <1>5, <1>k DEF CreateExpert, Rows, Ids, CatalogInv, CatalogTypeOK
  <2> QED BY <1>r, <1>5, <2>1
<1>6. ASSUME op[k].act = "create", kind = "sessions", NEW s, op' = [op EXCEPT ![k].row = s]
      PROVE  \A j \in Ops : ChangeTrue(j)'
  <2>1. [op[k] EXCEPT !.row = s] = [op[k] EXCEPT !.row = s, !.state = op[k].state]
    BY <1>o DEF Change
  <2>2. op' = [op EXCEPT ![k] = [op[k] EXCEPT !.row = s, !.state = op[k].state]]
    BY <1>6, <1>o, <2>1
  <2> QED BY <1>1, <1>6, <1>o, <2>2
<1>7. ASSUME op[k].act = "create", kind = "sessions", NEW x, NEW result \in {"refused", "done"},
             Served(k, x, result)
      PROVE  \A j \in Ops : ChangeTrue(j)'
  BY <1>r, <1>7
<1> QED BY <1>2, <1>3, <1>4, <1>5, <1>6, <1>7 DEF Serve

\* Every step keeps the page's changes true.
LEMMA ChangesNext == CatalogInv /\ PageType /\ ChangesTrue /\ [Next]_vars => ChangesTrue'
<1> SUFFICES ASSUME CatalogInv, PageType, ChangesTrue, [Next]_vars PROVE ChangesTrue'
  OBVIOUS
<1>k. kind' = kind /\ Ids' = Ids
  BY AnswerSteps DEF PageType, Ids
<1>o. op \in [Ops -> Change] /\ dialog \in [act : Acts, row : Ids \cup {0}, by : Ops \cup {0}]
      /\ open \in BOOLEAN
  BY DEF PageType, OpType, CountType
<1>u. ASSUME op' = op PROVE \A k \in Ops : ChangeTrue(k)'
  BY <1>u, ChangeStays DEF ChangesTrue
<1>c. ASSUME NEW k \in Ops, op' = [op EXCEPT ![k] = op'[k]], ChangeTrue(k)'
      PROVE  \A j \in Ops : ChangeTrue(j)'
  BY <1>c, OneChange
<1>1. ASSUME NEW act \in {"edit", "delete"}, NEW r \in Ids, Choose(act, r) PROVE ChangesTrue'
  BY <1>1, <1>u, <1>k DEF Choose, ChangesTrue
<1>2. CASE CloseDialog
  BY <1>2, <1>u DEF CloseDialog, ChangesTrue, NoDialog
<1>3. ASSUME NEW k \in Ops, Submit(k) PROVE ChangesTrue'
  <2>1. /\ dialog # NoDialog /\ op' = [op EXCEPT ![k] = Submitted(dialog.act, dialog.row)]
        /\ dialog' = [dialog EXCEPT !.by = k]
    BY <1>3 DEF Submit
  <2>2. op'[k] = Submitted(dialog.act, dialog.row)
    BY <1>o, <2>1
  <2>3. ChangeTrue(k)'
    BY <1>k, <2>1, <2>2 DEF ChangesTrue, ChangeTrue, Submitted
  <2> QED BY <1>c, <1>k, <1>o, <2>1, <2>2, <2>3 DEF ChangesTrue
<1>4. ASSUME NEW k \in Ops, SubmitNew(k) PROVE ChangesTrue'
  <2>1. op' = [op EXCEPT ![k] = Submitted("create", 0)] /\ dialog' = NoDialog /\ kind # "analytics"
    BY <1>4 DEF SubmitNew
  <2>2. op'[k] = Submitted("create", 0)
    BY <1>o, <2>1
  <2>3. ChangeTrue(k)'
    BY <1>k, <2>1, <2>2 DEF ChangeTrue, Submitted
  <2> QED BY <1>c, <2>1, <2>2, <2>3 DEF ChangesTrue, NoDialog
<1>5. ASSUME NEW k \in Ops, Serve(k) PROVE ChangesTrue'
  BY <1>5, ServeMakesTrue
<1>6. ASSUME NEW k \in Ops, Succeed(k) PROVE ChangesTrue'
  <2>1. /\ op[k].state = "done" /\ op' = [op EXCEPT ![k].state = "told"]
        /\ dialog' \in {NoDialog, dialog} /\ UNCHANGED <<catalogVars, filter>>
        /\ kind = "sessions" /\ op[k].act = "create" => open' = FALSE
    BY <1>6 DEF Succeed
  <2>2. op'[k] = [op[k] EXCEPT !.state = "told"]
    BY <1>o, <2>1
  <2>3. op'[k].act = op[k].act /\ op'[k].row = op[k].row /\ op'[k].state = "told"
    BY <1>o, <2>2 DEF Change
  <2>4. kind \in {"experts", "sessions", "analytics"}
    BY ListAssumption DEF PageType, CountType
  <2>5. ChangeTrue(k)'
    BY <1>k, <2>1, <2>3, <2>4 DEF ChangesTrue, ChangeTrue, Rows, catalogVars
  <2>6. op' = [op EXCEPT ![k] = op'[k]]
    BY <2>1, <2>2
  <2> QED BY <1>c, <1>k, <2>1, <2>5, <2>6 DEF ChangesTrue, NoDialog
<1>7. ASSUME NEW k \in Ops, Fail(k) PROVE ChangesTrue'
  <2>1. /\ dialog' = dialog /\ UNCHANGED <<catalogVars, pageVars>>
        /\ op[k].state \in {"refused", "sent", "done"}
    BY <1>7 DEF Fail
  <2>2. PICK state \in {"failed", "given up"} : op' = [op EXCEPT ![k] = [op[k] EXCEPT !.state = state]]
    <3>1. CASE op[k].state = "refused" /\ Served(k, op[k].row, "failed")
      <4>1. op' = [op EXCEPT ![k] = [op[k] EXCEPT !.row = op[k].row, !.state = "failed"]]
        BY <3>1, <1>o DEF Served
      <4>2. [op[k] EXCEPT !.row = op[k].row, !.state = "failed"] = [op[k] EXCEPT !.state = "failed"]
        BY <1>o DEF Change
      <4> QED BY <4>1, <4>2
    <3>2. CASE op' = [op EXCEPT ![k].state = IF @ = "sent" THEN "given up" ELSE "failed"]
      BY <3>2
    <3> QED BY <1>7, <3>1, <3>2 DEF Fail
  <2>3. op[k] \in Change /\ op'[k] = [op[k] EXCEPT !.state = state]
    BY <1>o, <2>2
  <2>4. op'[k].act = op[k].act /\ op'[k].row = op[k].row /\ op'[k].state = state
    BY <2>3 DEF Change
  <2>5. ChangeTrue(k)'
    BY <1>k, <2>1, <2>4 DEF ChangesTrue, ChangeTrue
  <2>6. op' = [op EXCEPT ![k] = op'[k]]
    BY <2>2, <2>3
  <2> QED BY <1>c, <1>k, <2>1, <2>5, <2>6 DEF ChangesTrue, NoDialog
<1>8. CASE UNCHANGED opVars
  BY <1>8, <1>k, <1>u DEF opVars, ChangesTrue, NoDialog
<1> QED BY <1>1, <1>2, <1>3, <1>4, <1>5, <1>6, <1>7, <1>8, ChangeActs
\* What a step is for the newest fetch: another one goes out, with the filter that is
\* set; or the page stays as far as it is told of, while answers come; or it is left.
LEMMA NewestSteps ==
  ASSUME PageType, [Next]_vars
  PROVE  \/ open' = FALSE
         \/ Fetching(filter') /\ filter' \in Ranges /\ shown' = shown
         \/ /\ filter' = filter
            /\ \A k \in Ops : op'[k].state = "told" => op'[k] = op[k]
            /\ \/ \E n \in Fetches, p \in PartsOf(kind) : ReadPart(n, p) \/ LosePart(n, p)
               \/ \E n \in Fetches : Answer(n)
               \/ UNCHANGED <<newest, answer, loading, shown>>
<1>o. op \in [Ops -> Change] /\ dialog \in [act : Acts, row : Ids \cup {0}, by : Ops \cup {0}]
      /\ filter \in Ranges
  BY DEF PageType, OpType, CountType
<1> DEFINE Silence == \A k \in Ops : op'[k].state = "told" => op'[k] = op[k]
           Still   == filter' = filter /\ UNCHANGED <<newest, answer, loading, shown>>
<1>c. ASSUME NEW k \in Ops, NEW c, op' = [op EXCEPT ![k] = c], c.state # "told" PROVE Silence
  BY <1>c, <1>o
<1>1. CASE Refresh
  BY <1>1, <1>o DEF Refresh
<1>2. ASSUME NEW f \in Filters, ApplyFilter(f)
      PROVE  Fetching(filter') /\ filter' \in Ranges /\ shown' = shown
  BY <1>2, ListAssumption DEF ApplyFilter
<1>3. ASSUME NEW n \in Fetches, Answer(n) \/ \E p \in PartsOf(kind) : ReadPart(n, p) \/ LosePart(n, p)
      PROVE  filter' = filter /\ op' = op
  BY <1>3 DEF Answer, ReadPart, LosePart, opVars
<1>4. CASE CloseDialog \/ Server \/ (\E act \in {"edit", "delete"}, r \in Ids : Choose(act, r))
           \/ UNCHANGED vars
  BY <1>4 DEF CloseDialog, Server, Choose, pageVars, opVars, vars
<1>5. ASSUME NEW k \in Ops, Submit(k) \/ SubmitNew(k) PROVE Silence /\ Still
  <2>1. PICK act, r : op' = [op EXCEPT ![k] = Submitted(act, r)]
    BY <1>5 DEF Submit, SubmitNew
  <2>2. Silence
    BY <1>c, <2>1 DEF Submitted
  <2> QED BY <1>5, <2>2 DEF Submit, SubmitNew, pageVars
<1>6. ASSUME NEW k \in Ops, Serve(k) PROVE Silence /\ Still
  <2>1. op[k] \in Change /\ op[k].state \in {"sent", "given up"}
    BY <1>6, <1>o DEF Serve
  <2>2. \/ \E x : \E result \in {"done", "refused"} : Served(k, x, result)
        \/ \E s : op' = [op EXCEPT ![k].row = s]
    BY <1>6 DEF Serve
  <2>3. PICK x, state : /\ op' = [op EXCEPT ![k] = [op[k] EXCEPT !.row = x, !.state = state]]
                        /\ state # "told"
    <3>1. ASSUME NEW x, NEW result \in {"done", "refused"}, Served(k, x, result)
          PROVE  \E y, state : /\ op' = [op EXCEPT ![k] = [op[k] EXCEPT !.row = y, !.state = state]]
                               /\ state # "told"
      <4> DEFINE after == IF op[k].state = "given up" THEN "failed" ELSE result
      <4>1. op' = [op EXCEPT ![k] = [op[k] EXCEPT !.row = x, !.state = after]]
        BY <3>1, <1>o, <2>1 DEF Served, Change
      <4>2. after # "told"
        BY <3>1
      <4> QED BY <4>1, <4>2
    <3>2. ASSUME NEW s, op' = [op EXCEPT ![k].row = s]
          PROVE  \E y, state : /\ op' = [op EXCEPT ![k] = [op[k] EXCEPT !.row = y, !.state = state]]
                               /\ state # "told"
      <4>1. [op[k] EXCEPT !.row = s] = [op[k] EXCEPT !.row = s, !.state = op[k].state]
        BY <2>1 DEF Change
      <4> QED BY <3>2, <2>1, <4>1
    <3> QED BY <2>2, <3>1, <3>2
  <2>4. [op[k] EXCEPT !.row = x, !.state = state].state # "told"
    BY <2>1, <2>3 DEF Change
  <2>5. Silence
    BY <1>c, <2>3, <2>4
  <2> QED BY <1>6, <2>5 DEF Serve, pageVars
<1>7. ASSUME NEW k \in Ops, Succeed(k)
      PROVE  open' = FALSE \/ (Fetching(filter') /\ filter' \in Ranges /\ shown' = shown)
  BY <1>7, <1>o DEF Succeed
<1>8. ASSUME NEW k \in Ops, Fail(k) PROVE Silence /\ Still
  <2>1. op[k] \in Change
    BY <1>o
  <2>2. PICK x, state : /\ op' = [op EXCEPT ![k] = [op[k] EXCEPT !.row = x, !.state = state]]
                        /\ state \in {"failed", "given up"}
    <3>1. CASE op[k].state = "refused" /\ Served(k, op[k].row, "failed")
      BY <3>1, <1>o DEF Served
    <3>2. CASE op' = [op EXCEPT ![k].state = IF @ = "sent" THEN "given up" ELSE "failed"]
      <4>1. [op[k] EXCEPT !.state = IF op[k].state = "sent" THEN "given up" ELSE "failed"]
              = [op[k] EXCEPT !.row = op[k].row,
                              !.state = IF op[k].state = "sent" THEN "given up" ELSE "failed"]
        BY <2>1 DEF Change
      <4> QED BY <3>2, <4>1
    <3> QED BY <1>8, <3>1, <3>2 DEF Fail
  <2>3. [op[k] EXCEPT !.row = x, !.state = state].state # "told"
    BY <2>1, <2>2 DEF Change
  <2>4. Silence
    BY <1>c, <2>2, <2>3
  <2> QED BY <1>8, <2>4 DEF Fail, pageVars
<1> QED BY <1>1, <1>2, <1>3, <1>4, <1>5, <1>6, <1>7, <1>8 DEF Next, Page

\* The same of an answer once the step is taken.
WillTell(a) ==
  \A k \in Ops : op'[k].state = "told" =>
    /\ op'[k].act = "delete" => op'[k].row \notin a.rows
    /\ op'[k].act = "create" => op'[k].row \in a.rows \/ Rows'[op'[k].row] = "removed"
    /\ op'[k].act = "edit" /\ op'[k].row \in a.rows => op'[k].row \in a.edited

\* An answer that tells of all that the page was told goes on doing so while it is told of
\* nothing more.
LEMMA TellsStill ==
  ASSUME CatalogInv, PageType, ChangesTrue, [Next]_vars, open, NEW a, Tells(a),
         \A k \in Ops : op'[k].state = "told" => op'[k] = op[k]
  PROVE  WillTell(a)
<1>1. kind' = kind
  BY AnswerSteps DEF PageType
<1>2. \A r \in Ids : Rows[r] = "removed" => Rows'[r] = "removed"
  BY <1>1, RowsAge, CatalogSteps
<1>3. \A k \in Ops : op[k].state = "told" /\ op[k].act = "create" => op[k].row \in Ids
  BY DEF ChangesTrue, ChangeTrue
<1> QED BY <1>2, <1>3 DEF Tells, TellsOf, WillTell

\* What the list reads tells of all that the page was told: the changes were done before.
LEMMA ReadTells ==
  ASSUME CatalogInv, PageType, ChangesTrue, open, NEW p \in PartsOf(kind), NEW f, NEW a,
         a.rows = Read(p, f), a.edited = Edited
  PROVE  Tells(a)
<1> SUFFICES ASSUME NEW k \in Ops, op[k].state = "told" PROVE TellsOf(a, k)
  BY DEF Tells, TellsOf
<1>1. ChangeTrue(k) /\ kind # "analytics"
  BY DEF ChangesTrue, ChangeTrue
<1>2. p = "list" /\ a.rows = Kept(Rows)
  BY <1>1 DEF PartsOf, Read
<1>3. DOMAIN Rows = Ids
  BY DEF Rows, Ids, CatalogInv, CatalogTypeOK
<1>4. op[k].act = "edit" => op[k].row \in a.edited
  BY DEF Edited
<1> QED BY <1>1, <1>2, <1>3, <1>4 DEF TellsOf, ChangeTrue, Kept

\* Initially the page was told nothing.
LEMMA NewestInit == Init => NewestInv
<1> SUFFICES ASSUME Init PROVE NewestInv
  OBVIOUS
<1> USE DEF Init
<1>1. newest = 1 /\ \A p \in PartsOf(kind) : shown[p].fetch = 0
  BY DEF Nothing
<1>2. \A p \in PartsOf(kind) : newest \in Pending => answer[newest][p] = Asked(NoFilter)
  BY <1>1 DEF Pending
<1>3. Asked(NoFilter).filter = NoFilter /\ Asked(NoFilter).status = "asked"
  BY DEF Asked
<1> QED BY <1>1, <1>2, <1>3 DEF NewestInv

\* Every step keeps the newest fetch true.
LEMMA NewestNext ==
  CatalogInv /\ PageType /\ ChangesTrue /\ NewestInv /\ [Next]_vars => NewestInv'
<1> SUFFICES ASSUME CatalogInv, PageType, ChangesTrue, NewestInv, [Next]_vars PROVE NewestInv'
  OBVIOUS
<1> SUFFICES ASSUME open' = TRUE PROVE NewestInv'
  <2>1. open' \in BOOLEAN
    BY CountSteps DEF PageType, CountType
  <2> QED BY <2>1 DEF NewestInv
<1> USE DEF PageType
<1>k. kind' = kind /\ PartsOf(kind)' = PartsOf(kind) /\ Fetches' = Fetches /\ open = TRUE
  BY AnswerSteps, CountSteps DEF PartsOf, Fetches
<1>n. newest \in Nat /\ newest \in Fetches /\ Pending \subseteq Fetches /\ Fetches \subseteq Nat \ {0}
  BY Bounds DEF AnswerType, CountType, Pending
<1>p. \A p \in PartsOf(kind) :
        /\ newest \in Pending =>
             /\ answer[newest][p].filter = filter
             /\ answer[newest][p].status = "read" => Tells(answer[newest][p])
        /\ shown[p].fetch = newest => shown[p].filter = filter /\ Tells(shown[p])
  BY <1>k DEF NewestInv
<1>e. ASSUME \A p \in PartsOf(kind) :
               /\ newest' \in Pending' =>
                    /\ answer'[newest'][p].filter = filter'
                    /\ answer'[newest'][p].status = "read" => WillTell(answer'[newest'][p])
               /\ shown'[p].fetch = newest' => shown'[p].filter = filter' /\ WillTell(shown'[p])
      PROVE  NewestInv'
  BY <1>e, <1>k DEF NewestInv, Tells, TellsOf, WillTell
<1>1. ASSUME Fetching(filter'), filter' \in Ranges, shown' = shown PROVE NewestInv'
  <2>1. newest' = newest + 1 /\ newest + 1 \in Fetches
    BY <1>1, <1>k, FetchingTypes
  <2>2. \A p \in PartsOf(kind) : answer'[newest'][p] = Asked(filter')
    BY <1>1, <2>1 DEF Fetching, AnswerType
  <2>3. Asked(filter').filter = filter' /\ Asked(filter').status = "asked"
    BY DEF Asked
  <2>4. \A p \in PartsOf(kind) : shown'[p].fetch # newest'
    BY <1>1, <1>n, <2>1 DEF ShownType
  <2> QED BY <1>e, <2>2, <2>3, <2>4
<1>2. ASSUME filter' = filter, \A k \in Ops : op'[k].state = "told" => op'[k] = op[k],
             NEW n \in Fetches, NEW p \in PartsOf(kind), ReadPart(n, p) \/ LosePart(n, p)
      PROVE  NewestInv'
  <2> DEFINE old == answer[n][p]
             read == [status |-> "read", filter |-> old.filter, known |-> old.known,
                      rows |-> Read(p, old.filter),
                      figures |-> Figures(p, Read(p, old.filter)), edited |-> Edited]
             failed == [status |-> "failed", filter |-> old.filter, known |-> old.known,
                        rows |-> old.rows, figures |-> old.figures, edited |-> old.edited]
  <2>1. /\ n \in Pending /\ Pending' = Pending
        /\ \A m \in Fetches, q \in PartsOf(kind) : m # n \/ q # p => answer'[m][q] = answer[m][q]
    BY <1>2, PartAnswers
  <2>2. PICK new \in {read, failed} : answer'[n][p] = new
    BY <1>2, PartAnswers
  <2>3. shown' = shown /\ newest' = newest
    BY <1>2 DEF ReadPart, LosePart
  <2>4. new.filter = old.filter /\ (new.status = "read" => Tells(new))
    <3>1. CASE new = read
      <4>1. new.rows = Read(p, old.filter) /\ new.edited = Edited
        BY <3>1
      <4> QED BY <1>k, <3>1, <4>1, ReadTells
    <3>2. CASE new = failed
      BY <3>2
    <3> QED BY <2>2, <3>1, <3>2
  <2>5. new.status = "read" => WillTell(new)
    BY <1>2, <1>k, <2>4, TellsStill
  <2>6. \A q \in PartsOf(kind) : newest \in Pending =>
          /\ answer'[newest][q].filter = filter
          /\ answer'[newest][q].status = "read" => WillTell(answer'[newest][q])
    <3> SUFFICES ASSUME NEW q \in PartsOf(kind), newest \in Pending
                 PROVE  /\ answer'[newest][q].filter = filter
                        /\ answer'[newest][q].status = "read" => WillTell(answer'[newest][q])
      OBVIOUS
    <3>1. CASE newest = n /\ q = p
      BY <1>p, <2>2, <2>4, <2>5, <3>1
    <3>2. CASE newest # n \/ q # p
      <4>1. answer'[newest][q] = answer[newest][q]
        BY <1>n, <2>1, <3>2
      <4> QED BY <1>2, <1>k, <1>p, <4>1, TellsStill
    <3> QED BY <3>1, <3>2
  <2>7. \A q \in PartsOf(kind) : shown[q].fetch = newest => WillTell(shown[q])
    BY <1>2, <1>k, <1>p, TellsStill
  <2> QED BY <1>e, <1>2, <1>p, <2>1, <2>3, <2>6, <2>7
<1>3. ASSUME filter' = filter, \A k \in Ops : op'[k].state = "told" => op'[k] = op[k],
             NEW n \in Fetches, Answer(n)
      PROVE  NewestInv'
  <2>1. /\ n \in Pending /\ Pending' = Pending \ {n} /\ answer' = [answer EXCEPT ![n] = << >>]
        /\ newest' = newest
    BY <1>3, AnswersAreShown
  <2>2. newest \in Pending' => newest \in Pending /\ newest # n /\ answer'[newest] = answer[newest]
    BY <1>n, <2>1 DEF AnswerType
  <2>3. \A q \in PartsOf(kind) :
          newest \in Pending /\ answer[newest][q].status = "read" => WillTell(answer[newest][q])
    BY <1>3, <1>k, <1>p, TellsStill
  <2>4. \A q \in PartsOf(kind) : shown[q].fetch = newest => WillTell(shown[q])
    BY <1>3, <1>k, <1>p, TellsStill
  <2>5. \A q \in PartsOf(kind) : shown'[q].fetch = newest =>
          shown'[q].filter = filter /\ WillTell(shown'[q])
    <3> SUFFICES ASSUME NEW q \in PartsOf(kind), shown'[q].fetch = newest
                 PROVE  shown'[q].filter = filter /\ WillTell(shown'[q])
      OBVIOUS
    <3>1. CASE shown'[q] = shown[q]
      BY <1>p, <2>4, <3>1
    <3>2. CASE shown'[q] # shown[q]
      <4> DEFINE b == [fetch |-> n, filter |-> answer[n][q].filter, known |-> answer[n][q].known,
                       rows |-> answer[n][q].rows, figures |-> answer[n][q].figures,
                       edited |-> answer[n][q].edited]
      <4>1. answer[n][q].status = "read" /\ shown'[q] = b
        BY <1>3, <3>2, AnswersAreShown
      <4>2. /\ b.fetch = n /\ b.filter = answer[n][q].filter
            /\ b.rows = answer[n][q].rows /\ b.edited = answer[n][q].edited
        OBVIOUS
      <4> HIDE DEF b
      <4>3. n = newest /\ WillTell(answer[n][q]) /\ answer[n][q].filter = filter
        BY <1>p, <2>1, <2>3, <4>1, <4>2
      <4>4. WillTell(b)
        BY <4>2, <4>3 DEF WillTell
      <4> QED BY <4>1, <4>2, <4>3, <4>4
    <3> QED BY <3>1, <3>2
  <2> QED BY <1>e, <1>3, <1>p, <2>1, <2>2, <2>3, <2>5
<1>4. ASSUME filter' = filter, \A k \in Ops : op'[k].state = "told" => op'[k] = op[k],
             UNCHANGED <<newest, answer, loading, shown>>
      PROVE  NewestInv'
  <2>1. Pending' = Pending
    BY <1>4, <1>k DEF Pending
  <2>2. \A q \in PartsOf(kind) :
          /\ newest \in Pending /\ answer[newest][q].status = "read" => WillTell(answer[newest][q])
          /\ shown[q].fetch = newest => WillTell(shown[q])
    BY <1>4, <1>k, <1>p, TellsStill
  <2> QED BY <1>e, <1>4, <1>p, <2>1, <2>2
<1> QED BY NewestSteps, <1>1, <1>2, <1>3, <1>4

\* Once the newest fetch is shown and nothing is under way, the page shows what it was
\* told: every part has the filter that is set, what was deleted is not listed, what was
\* created is, unless it is gone again, and what was edited is shown as edited.
THEOREM NewestIsCurrent == Spec => []LatestIsCurrent
<1>1. Init => CatalogInv /\ PageType /\ ChangesTrue /\ NewestInv
  BY CatalogInitially, PageInit, ChangesInit, NewestInit DEF Init
<1>2. CatalogInv /\ PageType /\ ChangesTrue /\ NewestInv => LatestIsCurrent
  <2> SUFFICES ASSUME PageType, ChangesTrue, NewestInv, open, Fresh PROVE LatestIsCurrent
    BY DEF LatestIsCurrent
  <2>1. \A p \in PartsOf(kind) : shown[p].filter = filter /\ Tells(shown[p])
    BY DEF NewestInv, Fresh
  <2>2. \A k \in Ops : op[k].state = "told" => "list" \in PartsOf(kind)
    BY DEF ChangesTrue, ChangeTrue, PartsOf
  <2> QED BY <2>1, <2>2 DEF LatestIsCurrent, Tells, TellsOf
<1> QED BY <1>1, <1>2, PageNext, ChangesNext, NewestNext, PTL DEF Spec
==============================================================================

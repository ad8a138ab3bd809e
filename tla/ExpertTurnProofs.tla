---------------------------- MODULE ExpertTurnProofs ----------------------------
(***************************************************************************)
(* Theorems about ExpertTurn, for any options of the retries, any headers  *)
(* and durations, any memories, and timers however late.                   *)
(***************************************************************************)
EXTENDS ExpertTurn, FiniteSetTheorems, WellFoundedInduction, TLAPS

\* What is between two steps of the retries: a wait has an attempt left and ends within
\* the total time; what is thrown was retried as far as the options go.
RetryInv ==
  /\ pc \in {"recall", "create"} => attempt = 0 /\ error = "none"
  /\ attempt <= MaxRetries
  /\ pc = "wait" => attempt < MaxRetries
  /\ pc = "mapError" =>
       error \in Errors /\ (isRetryableError(error) => attempt = MaxRetries \/ clock >= MaxTotal)

Inv == TypeOK /\ RetryInv /\ WithinBudget /\ GivenUpMeansTried

------------------------------------------------------------------------------
(* What the helpers return. *)

\* The memories injected are some of the expert's: the ranking is of candidates.
LEMMA RelevantAreMemories == \A S \in Relevant : S \subseteq Memories
<1> SUFFICES ASSUME NEW S \in Relevant PROVE S \subseteq Memories
  OBVIOUS
<1> DEFINE n == Cardinality(Candidates)
           k == LesserOf(n, MaxInject)
<1>1. Candidates \subseteq Memories
  BY DEF Candidates, Fetched
<1>2. n \in Nat
  BY <1>1, TurnAssumption, FS_Subset, FS_CardinalityType
<1>3. k \in Nat /\ k <= n
  BY <1>2, TurnAssumption DEF LesserOf
<1>4. PICK r \in Ranked(n) : S = Taken(r, k)
  BY DEF Relevant
<1>5. r \in [1..n -> Candidates]
  BY <1>4 DEF Ranked
<1> HIDE DEF n, k
<1>6. \A s \in S : \E i \in 1..k : s = r[i]
  BY <1>4 DEF Taken
<1>7. \A i \in 1..k : r[i] \in Candidates
  BY <1>2, <1>3, <1>5
<1> QED BY <1>1, <1>6, <1>7

\* A delay is a number of units, whether a header gives it or the jitter.
LEMMA DelaysAreNumbers ==
  ASSUME NEW header \in RetryAfters \cup {NoHeader}, NEW delay \in Delays(header)
  PROVE  delay \in Nat
<1>1. CASE header = NoHeader
  <2> DEFINE top == GreaterOf(1, LesserOf(BaseDelay * 2^attempt, MaxDelay)) - 1
  <2>1. delay \in 0..top
    BY <1>1 DEF Delays, Jitter
  <2> HIDE DEF top
  <2> QED BY <2>1
<1>2. CASE header # NoHeader
  BY <1>2, TurnAssumption DEF Delays, LesserOf
<1> QED BY <1>1, <1>2

\* Every error is mapped to an exception, and one that may be retried to one that lets
\* the discussion go on: the drivers classify errors by themselves.
LEMMA ErrorsAreMapped ==
  ASSUME TypeOK, NEW e \in Errors
  PROVE  /\ mapError(e) \in Exceptions
         /\ isRetryableError(e) => mapError(e) \in Transient
BY DEF TypeOK, AllDrivers, mapError, ClaudeError, OpenAIError, GrokError, Exceptions,
   Transient, Errors, isRetryableError

\* A reply is a text, nothing, or an error of its own.
LEMMA RepliesAreKnown ==
  ASSUME TypeOK, NEW r \in Replies
  PROVE  ReplyOf(r) \in {"text", "empty", "other"}
BY DEF TypeOK, AllDrivers, ReplyOf, ClaudeReply, OpenAIReply, GrokReply, Replies

------------------------------------------------------------------------------
(* The invariant. *)

\* Initially the turn has not begun.
LEMMA InvInit == Init => Inv
BY TurnAssumption DEF Init, Inv, TypeOK, RetryInv, WithinBudget, GivenUpMeansTried,
   Exceptions, Transient, Errors

\* Every step keeps the turn's shape, its budget and what it gives up on.
LEMMA InvNext == Inv /\ [Next]_vars => Inv'
<1> SUFFICES ASSUME Inv, [Next]_vars PROVE Inv'
  OBVIOUS
<1> USE TurnAssumption DEF Inv, turnVars, retryVars
<1>n. attempt \in Nat /\ clock \in Nat /\ wake \in Nat
  BY DEF TypeOK
<1>1. CASE Recall
  <2>1. injected' \subseteq Memories
    BY <1>1, RelevantAreMemories DEF Recall, TypeOK
  <2> QED
    BY <1>1, <2>1 DEF Recall, TypeOK, RetryInv, WithinBudget, GivenUpMeansTried
<1>2. CASE CreateDriver
  BY <1>2 DEF CreateDriver, TypeOK, RetryInv, WithinBudget, GivenUpMeansTried,
     Exceptions, Transient
<1>3. ASSUME NEW r \in Replies, NEW d \in Durations, CallReturns(r, d) PROVE Inv'
  <2>1. /\ pc = "call" /\ clock' = clock + d /\ clock' \in Nat
        /\ UNCHANGED <<turnVars, attempt, wake, passed>>
    BY <1>3, <1>n DEF CallReturns
  <2>2. \/ pc' = "mapError" /\ error' = "other" /\ outcome' = outcome
        \/ pc' = "done" /\ error' = error /\ outcome' \in {"text", "empty"}
    BY <1>3, RepliesAreKnown DEF CallReturns
  <2>3. TypeOK'
    BY <2>1, <2>2 DEF TypeOK, Errors
  <2>4. RetryInv' /\ WithinBudget' /\ GivenUpMeansTried'
    BY <2>1, <2>2 DEF RetryInv, WithinBudget, GivenUpMeansTried, isRetryableError, Errors,
       Exceptions, Transient
  <2> QED BY <2>3, <2>4
<1>4. ASSUME NEW e \in Errors, NEW header \in RetryAfters \cup {NoHeader},
             NEW d \in Durations, CallFails(e, header, d)
      PROVE  Inv'
  <2>1. /\ pc = "call" /\ clock' = clock + d /\ clock' \in Nat /\ error' = e
        /\ UNCHANGED <<turnVars, attempt, outcome>>
    BY <1>4, <1>n DEF CallFails
  <2>2. CASE GivesUp(e, clock')
    <3>1. pc' = "mapError" /\ UNCHANGED <<wake, passed>>
      BY <1>4, <2>2 DEF CallFails
    <3>2. TypeOK'
      BY <2>1, <3>1 DEF TypeOK
    <3>3. RetryInv' /\ WithinBudget' /\ GivenUpMeansTried'
      BY <1>n, <2>1, <2>2, <3>1 DEF RetryInv, WithinBudget, GivenUpMeansTried, GivesUp
    <3> QED BY <3>2, <3>3
  <2>3. CASE ~GivesUp(e, clock')
    <3>1. /\ pc' = "wait" /\ passed' = passed \cup {e}
          /\ \E delay \in Delays(header) : wake' = clock' + LesserOf(delay, MaxTotal - clock')
      BY <1>4, <2>3 DEF CallFails
    <3>2. isRetryableError(e) /\ attempt < MaxRetries /\ clock' < MaxTotal
      BY <1>n, <2>1, <2>3 DEF GivesUp
    <3>3. wake' \in Nat /\ wake' <= MaxTotal
      BY <2>1, <3>1, <3>2, DelaysAreNumbers DEF LesserOf
    <3>4. TypeOK'
      BY <2>1, <3>1, <3>3 DEF TypeOK
    <3>5. RetryInv' /\ WithinBudget' /\ GivenUpMeansTried'
      BY <1>n, <2>1, <3>1, <3>2, <3>3 DEF RetryInv, WithinBudget, GivenUpMeansTried
    <3> QED BY <3>4, <3>5
  <2> QED BY <2>2, <2>3
<1>5. CASE Wake
  <2>1. /\ pc = "wait" /\ pc' = "call" /\ attempt' = attempt + 1
        /\ clock' \in Nat /\ clock' <= wake + Lateness
        /\ UNCHANGED <<turnVars, wake, error, passed, outcome>>
    BY <1>5, <1>n DEF Wake
  <2>2. TypeOK'
    BY <1>n, <2>1 DEF TypeOK
  <2>3. RetryInv' /\ WithinBudget' /\ GivenUpMeansTried'
    BY <1>n, <2>1 DEF RetryInv, WithinBudget, GivenUpMeansTried
  <2> QED BY <2>2, <2>3
<1>6. CASE Throw
  <2>1. /\ pc = "mapError" /\ pc' = "done" /\ error \in Errors
        /\ outcome' = mapError(error) /\ UNCHANGED <<turnVars, retryVars>>
    BY <1>6 DEF Throw, RetryInv
  <2>2. outcome' \in Exceptions /\ (isRetryableError(error) => outcome' \in Transient)
    BY <2>1, ErrorsAreMapped
  <2>3. TypeOK'
    BY <2>1, <2>2 DEF TypeOK, Exceptions, Transient
  <2>4. RetryInv' /\ WithinBudget' /\ GivenUpMeansTried'
    BY <2>1, <2>2 DEF RetryInv, WithinBudget, GivenUpMeansTried
  <2> QED BY <2>3, <2>4
<1>7. CASE UNCHANGED vars
  BY <1>7 DEF vars, TypeOK, RetryInv, WithinBudget, GivenUpMeansTried
<1> QED BY <1>1, <1>2, <1>3, <1>4, <1>5, <1>6, <1>7 DEF Next

------------------------------------------------------------------------------
(* The theorems. *)

\* The invariant holds of the specification.
THEOREM Invariance == Spec => []Inv
BY InvInit, InvNext, PTL DEF Spec

\* A turn keeps its shape, and has an outcome exactly when it is done.
THEOREM TypeCorrect == Spec => []TypeOK
<1>1. Inv => TypeOK
  BY DEF Inv
<1> QED BY Invariance, <1>1, PTL

\* No attempt is one too many, and none but the first starts after the total time, by
\* more than a timer is late.
THEOREM RetriesKeepTheBudget == Spec => []WithinBudget
<1>1. Inv => WithinBudget
  BY DEF Inv
<1> QED BY Invariance, <1>1, PTL

\* A turn that is skipped for an error that may pass has used up its retries, and none
\* was spent on an error that may not pass.
THEOREM RetriesAreUsedUp == Spec => []GivenUpMeansTried
<1>1. Inv => GivenUpMeansTried
  BY DEF Inv
<1> QED BY Invariance, <1>1, PTL
------------------------------------------------------------------------------
(***************************************************************************)
(* The sum of the tokens, which does not depend on the order in which a    *)
(* fold takes the memories.  What induction over the finite sets would be  *)
(* used for is proved by a smallest counterexample.                        *)
(***************************************************************************)

\* A set of numbers has a smallest one.
LEMMA SmallestNumber ==
  ASSUME NEW T \in SUBSET Nat, T # {}
  PROVE  \E n \in T : \A m \in T : n <= m
<1> DEFINE less == {p \in Nat \X Nat : p[1] < p[2]}
<1>1. IsWellFoundedOn(less, Nat)
  BY NatLessThanWellFounded DEF OpToRel
<1>2. PICK n \in T : \A m \in T : ~(<<m, n>> \in less)
  <2> HIDE DEF less
  <2> QED BY <1>1, WFMin
<1>3. ASSUME NEW m \in T PROVE n <= m
  <2>1. m \in Nat /\ n \in Nat
    OBVIOUS
  <2>2. m < n => <<m, n>> \in less
    BY <2>1
  <2>3. ~(m < n)
    <3> HIDE DEF less
    <3> QED BY <1>2, <2>2
  <2> QED BY <2>1, <2>3
<1> QED BY <1>3

\* Of some subsets of a finite set there is one that has no other of them in it.
LEMMA SmallestSubset ==
  ASSUME NEW M, IsFiniteSet(M), NEW T \in SUBSET SUBSET M, T # {}
  PROVE  \E s \in T : \A t \in T : t \subseteq s => t = s
<1>1. IsWellFoundedOn(StrictSubsetOrdering(M), SUBSET M)
  BY FS_StrictSubsetOrderingWellFounded, FS_FiniteSubsetsOfFinite
<1>2. PICK s \in T : \A t \in T : ~(<<t, s>> \in StrictSubsetOrdering(M))
  BY <1>1, WFMin
<1> QED BY <1>2 DEF StrictSubsetOrdering

\* The tokens of the memories of a stock w.
TokensOf(w, S) == MapThenSumSet(LAMBDA m : w[m].tokens, S)

\* The sum goes over tables of the sums of smaller sets.
First(s)       == CHOOSE x \in s : TRUE
Entry(w, f, s) == IF s = {} THEN 0 ELSE w[First(s)].tokens + f[s \ {First(s)}]
Table(w, f, D) == f = [s \in D |-> Entry(w, f, s)]
Tabled(w, S)   == CHOOSE f : Table(w, f, SUBSET S)

\* The model's sum is that of the current stock.
LEMMA TokensOfStock == \A S : Tokens(S) = TokensOf(stock, S)
BY DEF Tokens, TokensOf

\* A sum is read off such a table.
LEMMA TokensAreTabled == \A w, S : TokensOf(w, S) = Tabled(w, S)[S]
BY DEF TokensOf, MapThenSumSet, MapThenFoldSet, Tabled, Table, Entry, First

\* A set that is not empty has its first element.
LEMMA FirstIsElement == \A s : s # {} => First(s) \in s
BY DEF First

\* There is a table for every finite set.
LEMMA TableExists ==
  ASSUME NEW w, NEW S, IsFiniteSet(S)
  PROVE  Table(w, Tabled(w, S), SUBSET S)
<1> DEFINE Level(k) == {s \in SUBSET S : Cardinality(s) <= k}
           Bad == {k \in Nat : ~\E f : Table(w, f, Level(k))}
<1>c. \A s \in SUBSET S : IsFiniteSet(s) /\ Cardinality(s) \in Nat
  BY FS_Subset, FS_CardinalityType
<1>1. Bad = {}
  <2> SUFFICES ASSUME Bad # {} PROVE FALSE
    OBVIOUS
  <2>1. PICK k \in Bad : \A m \in Bad : k <= m
    BY SmallestNumber
  <2>2. CASE k = 0
    <3> DEFINE f == [s \in Level(0) |-> 0]
    <3>1. \A s \in Level(0) : s = {}
      BY <1>c, FS_EmptySet
    <3>2. Table(w, f, Level(0))
      BY <3>1 DEF Table, Entry
    <3> QED BY <2>1, <2>2, <3>2
  <2>3. CASE k # 0
    <3>0. k \in Nat /\ k - 1 \in Nat
      BY <2>1, <2>3
    <3>1. k - 1 \in Nat /\ k - 1 \notin Bad
      <4> HIDE DEF Bad
      <4> QED BY <2>1, <3>0
    <3>2. PICK g : Table(w, g, Level(k - 1))
      BY <3>1
    <3> DEFINE f == [s \in Level(k) |-> Entry(w, g, s)]
    <3>3. \A s \in Level(k) : s # {} => s \ {First(s)} \in Level(k - 1)
      BY <1>c, <3>1, FS_RemoveElement, FirstIsElement
    <3>4. \A s \in Level(k - 1) : s \in Level(k) /\ g[s] = Entry(w, g, s)
      BY <1>c, <3>1, <3>2 DEF Table
    <3> HIDE DEF Level
    <3>5. \A s \in Level(k) : Entry(w, f, s) = Entry(w, g, s)
      BY <3>3, <3>4 DEF Entry
    <3>6. Table(w, f, Level(k))
      BY <3>5 DEF Table
    <3> QED BY <2>1, <3>6
  <2> QED BY <2>2, <2>3
<1>2. Level(Cardinality(S)) = SUBSET S /\ Cardinality(S) \in Nat
  BY FS_Subset, FS_CardinalityType
<1>3. \E f : Table(w, f, SUBSET S)
  BY <1>1, <1>2
<1> QED BY <1>3 DEF Tabled

\* The tables of two sets agree on what they have in common.
LEMMA TablesAgree ==
  ASSUME NEW w, NEW S, IsFiniteSet(S), NEW T \in SUBSET S, NEW f, NEW g,
         Table(w, f, SUBSET S), Table(w, g, SUBSET T)
  PROVE  f[T] = g[T]
<1> DEFINE Bad == {s \in SUBSET T : f[s] # g[s]}
<1> SUFFICES ASSUME Bad # {} PROVE FALSE
  OBVIOUS
<1>1. PICK s \in Bad : \A t \in Bad : t \subseteq s => t = s
  <2>1. IsFiniteSet(T) /\ Bad \in SUBSET SUBSET T
    BY FS_Subset
  <2> HIDE DEF Bad
  <2> QED BY <2>1, SmallestSubset
<1>2. f[s] = Entry(w, f, s) /\ g[s] = Entry(w, g, s)
  BY DEF Table
<1>3. s # {}
  BY <1>1, <1>2 DEF Entry
<1>4. First(s) \in s
  BY <1>3, FirstIsElement
<1>5. s \ {First(s)} \notin Bad
  BY <1>1, <1>4
<1>6. f[s \ {First(s)}] = g[s \ {First(s)}]
  BY <1>1, <1>5
<1> QED BY <1>1, <1>2, <1>6 DEF Entry

\* The sum of a set is that of one element and of the rest.
LEMMA TokensOfFirst ==
  ASSUME NEW w, NEW S, IsFiniteSet(S)
  PROVE  TokensOf(w, S) =
           IF S = {} THEN 0 ELSE w[First(S)].tokens + TokensOf(w, S \ {First(S)})
<1> DEFINE T == S \ {First(S)}
<1>1. Table(w, Tabled(w, S), SUBSET S)
  BY TableExists
<1>2. Tabled(w, S)[S] = Entry(w, Tabled(w, S), S)
  BY <1>1 DEF Table
<1>3. Tabled(w, S)[T] = Tabled(w, T)[T]
  <2>1. T \in SUBSET S /\ IsFiniteSet(T)
    BY FS_Subset
  <2>2. Table(w, Tabled(w, T), SUBSET T)
    BY <2>1, TableExists
  <2> QED BY <1>1, <2>1, <2>2, TablesAgree
<1> QED BY <1>2, <1>3, TokensAreTabled DEF Entry

\* It is the sum of any element and of the rest.
LEMMA TokensOfAny ==
  ASSUME NEW M, IsFiniteSet(M), NEW w, \A m \in M : w[m].tokens \in Nat,
         NEW S \in SUBSET M
  PROVE  /\ TokensOf(w, S) \in Nat
         /\ \A x \in S : TokensOf(w, S) = w[x].tokens + TokensOf(w, S \ {x})
<1> DEFINE Good(s) == /\ TokensOf(w, s) \in Nat
                      /\ \A x \in s : TokensOf(w, s) = w[x].tokens + TokensOf(w, s \ {x})
           Bad == {s \in SUBSET M : ~Good(s)}
<1> SUFFICES ASSUME Bad # {} PROVE FALSE
  OBVIOUS
<1>1. PICK s \in Bad : \A t \in Bad : t \subseteq s => t = s
  <2>1. Bad \in SUBSET SUBSET M
    OBVIOUS
  <2> HIDE DEF Bad
  <2> QED BY <2>1, SmallestSubset
<1> DEFINE c == First(s)
<1>2. IsFiniteSet(s) /\ s \subseteq M
  BY FS_Subset
<1>3. s # {}
  <2> SUFFICES ASSUME s = {} PROVE Good(s)
    BY <1>1
  <2>1. TokensOf(w, s) = 0
    BY <1>2, TokensOfFirst
  <2> QED BY <2>1
<1>4. c \in s /\ TokensOf(w, s) = w[c].tokens + TokensOf(w, s \ {c})
  BY <1>2, <1>3, TokensOfFirst, FirstIsElement
<1>5. \A x \in s : Good(s \ {x})
  BY <1>1, <1>2
<1> HIDE DEF c
<1>6. \A x \in s : w[x].tokens \in Nat /\ TokensOf(w, s \ {x}) \in Nat
  BY <1>2, <1>5
<1>7. ASSUME NEW x \in s, x # c PROVE TokensOf(w, s) = w[x].tokens + TokensOf(w, s \ {x})
  <2> DEFINE rest == (s \ {c}) \ {x}
  <2>1. TokensOf(w, s \ {c}) = w[x].tokens + TokensOf(w, rest)
    BY <1>4, <1>5, <1>7
  <2>2. (s \ {x}) \ {c} = rest
    OBVIOUS
  <2>3. TokensOf(w, s \ {x}) = w[c].tokens + TokensOf(w, rest)
    BY <1>4, <1>5, <1>7, <2>2
  <2>4. TokensOf(w, rest) \in Nat
    <3>1. rest \subseteq s /\ rest # s
      BY <1>4
    <3> HIDE DEF rest
    <3> QED BY <1>1, <1>2, <3>1
  <2> HIDE DEF rest
  <2> QED BY <1>4, <1>6, <1>7, <2>1, <2>3, <2>4
<1>8. Good(s)
  <2>1. TokensOf(w, s) \in Nat
    <3>1. w[c].tokens \in Nat /\ TokensOf(w, s \ {c}) \in Nat
      BY <1>4, <1>6
    <3> QED BY <1>4, <3>1
  <2> QED BY <1>4, <1>7, <2>1
<1> QED BY <1>1, <1>8

------------------------------------------------------------------------------
(***************************************************************************)
(* The memories.                                                           *)
(***************************************************************************)

\* What the stock of an expert is.
Stock == [Memories -> [base : 0..10, weeks : Nat, jaccard : 0..10, tokens : Nat]]

\* A set of memories that BestMemories allows.
Best(S) ==
  LET n == LesserOf(Cardinality(Candidates), MaxInject) IN
  /\ S \in Top(Cardinality(S))
  /\ Cardinality(S) <= MaxInject /\ Tokens(S) <= TokenBudget
  /\ Cardinality(S) < n => \E T \in Top(n) : Tokens(T) > TokenBudget

\* The first i of a ranking.
Prefix(r, i) == {r[j] : j \in 1..i}

\* Scores are numbers, so that any two compare.
LEMMA ScoresAreNumbers ==
  ASSUME stock \in Stock, NEW m \in Memories
  PROVE  Score(m) \in Int
<1>1. stock[m] \in [base : 0..10, weeks : Nat, jaccard : 0..10, tokens : Nat]
  BY DEF Stock
<1>2. stock[m].base \in Int /\ stock[m].weeks \in Int /\ stock[m].jaccard \in Int
  BY <1>1
<1>3. Recency(stock[m].weeks) \in Int /\ Overlap(stock[m].jaccard) \in Int
  BY <1>2 DEF Recency, Overlap, GreaterOf
<1>4. \A a, b, c \in Int : a * b * c \in Int
  OBVIOUS
<1> QED BY <1>2, <1>3, <1>4 DEF Score

\* A ranking has every candidate once.
LEMMA RankingIsBijection ==
  ASSUME NEW r \in Ranked(Cardinality(Candidates))
  PROVE  /\ Cardinality(Candidates) \in Nat
         /\ r \in [1..Cardinality(Candidates) -> Candidates]
         /\ \A i, j \in 1..Cardinality(Candidates) : r[i] = r[j] => i = j
         /\ \A x \in Candidates : \E i \in 1..Cardinality(Candidates) : x = r[i]
<1> DEFINE n == Cardinality(Candidates)
<1>1. IsFiniteSet(Candidates) /\ n \in Nat
  <2>1. Candidates \subseteq Memories
    BY DEF Candidates, Fetched
  <2> QED BY <2>1, TurnAssumption, FS_Subset, FS_CardinalityType
<1>2. r \in [1..n -> Candidates] /\ \A i, j \in 1..n : i < j => r[i] # r[j]
  BY DEF Ranked
<1>3. \A i, j \in 1..n : r[i] = r[j] => i = j
  BY <1>1, <1>2
<1>4. Cardinality(1..n) = n
  BY <1>1, FS_Interval
<1> HIDE DEF n
<1>5. r \in Injection(1..n, Candidates)
  BY <1>2, <1>3 DEF Injection, IsInjective
<1>6. r \in Surjection(1..n, Candidates)
  BY <1>1, <1>4, <1>5, FS_Injection DEF n
<1>7. \A x \in Candidates : \E i \in 1..n : x = r[i]
  BY <1>6 DEF Surjection
<1> QED BY <1>1, <1>2, <1>3, <1>7 DEF n

\* The first i of a ranking are i memories, and their tokens are those of the i - 1
\* before, and of the last.
LEMMA PrefixTokens ==
  ASSUME stock \in Stock, NEW r \in Ranked(Cardinality(Candidates))
  PROVE  \A i \in 0..Cardinality(Candidates) :
           /\ Cardinality(Prefix(r, i)) = i /\ Tokens(Prefix(r, i)) \in Nat
           /\ i > 0 => /\ Prefix(r, i) = Prefix(r, i - 1) \cup {r[i]}
                       /\ Tokens(Prefix(r, i - 1)) <= Tokens(Prefix(r, i))
<1> DEFINE n == Cardinality(Candidates)
<1>1. /\ n \in Nat /\ r \in [1..n -> Candidates]
      /\ \A i, j \in 1..n : r[i] = r[j] => i = j
  BY RankingIsBijection
<1>2. Candidates \subseteq Memories
  BY DEF Candidates, Fetched
<1>3. \A m \in Memories : stock[m].tokens \in Nat
  BY DEF Stock
<1> HIDE DEF n
<1> SUFFICES ASSUME NEW i \in 0..n
             PROVE  /\ Cardinality(Prefix(r, i)) = i /\ Tokens(Prefix(r, i)) \in Nat
                    /\ i > 0 => /\ Prefix(r, i) = Prefix(r, i - 1) \cup {r[i]}
                                /\ Tokens(Prefix(r, i - 1)) <= Tokens(Prefix(r, i))
  BY DEF n
<1>4. \A j \in 1..i : j \in 1..n /\ r[j] \in Memories
  BY <1>1, <1>2
<1>5. Prefix(r, i) \in SUBSET Memories
  BY <1>4 DEF Prefix
<1>6. Cardinality(Prefix(r, i)) = i
  <2> DEFINE b == [j \in 1..i |-> r[j]]
  <2>1. b \in Bijection(1..i, Prefix(r, i))
    BY <1>1, <1>4 DEF Bijection, Injection, IsInjective, Surjection, Prefix
  <2>2. ExistsBijection(1..i, Prefix(r, i))
    BY <2>1 DEF ExistsBijection
  <2> QED BY <1>1, <2>2, FS_CountingElements
<1>7. /\ Tokens(Prefix(r, i)) \in Nat
      /\ \A x \in Prefix(r, i) :
           Tokens(Prefix(r, i)) = stock[x].tokens + Tokens(Prefix(r, i) \ {x})
  <2>1. /\ TokensOf(stock, Prefix(r, i)) \in Nat
        /\ \A x \in Prefix(r, i) : TokensOf(stock, Prefix(r, i)) =
             stock[x].tokens + TokensOf(stock, Prefix(r, i) \ {x})
    <3>1. IsFiniteSet(Memories)
      BY TurnAssumption
    <3> DEFINE S == Prefix(r, i)
    <3>2. S \in SUBSET Memories
      BY <1>5
    <3> HIDE DEF S
    <3>3. /\ TokensOf(stock, S) \in Nat
          /\ \A x \in S : TokensOf(stock, S) = stock[x].tokens + TokensOf(stock, S \ {x})
      BY ONLY <1>3, <3>1, <3>2, TokensOfAny
    <3> QED BY <3>3 DEF S
  <2> QED BY <2>1, TokensOfStock
<1>8. ASSUME i > 0
      PROVE  /\ Prefix(r, i) = Prefix(r, i - 1) \cup {r[i]}
             /\ Tokens(Prefix(r, i - 1)) <= Tokens(Prefix(r, i))
  <2>1. i \in 1..n /\ 1..i = (1..(i - 1)) \cup {i} /\ i - 1 \in Nat
    BY <1>1, <1>8
  <2>2. Prefix(r, i) = Prefix(r, i - 1) \cup {r[i]}
    BY <2>1 DEF Prefix
  <2>3. r[i] \notin Prefix(r, i - 1)
    BY <1>1, <2>1 DEF Prefix
  <2>4. Prefix(r, i) \ {r[i]} = Prefix(r, i - 1)
    BY <2>2, <2>3
  <2>5. Tokens(Prefix(r, i)) = stock[r[i]].tokens + Tokens(Prefix(r, i - 1))
    BY <1>7, <2>2, <2>4
  <2>6. Prefix(r, i - 1) \in SUBSET Memories
    BY <1>5, <2>2
  <2>7. Tokens(Prefix(r, i - 1)) \in Nat /\ stock[r[i]].tokens \in Nat
    BY <1>3, <1>4, <2>1, <2>6, TurnAssumption, TokensOfStock, TokensOfAny
  <2> QED BY <1>7, <2>2, <2>5, <2>7
<1> QED BY <1>6, <1>7, <1>8

\* What the loop takes are the first of the ranking: all it may, or fewer when all it
\* may do not fit.
LEMMA TakenIsPrefix ==
  ASSUME stock \in Stock, NEW r \in Ranked(Cardinality(Candidates)),
         NEW k \in 0..Cardinality(Candidates)
  PROVE  \E q \in 0..k :
           /\ Taken(r, k) = Prefix(r, q) /\ Tokens(Prefix(r, q)) <= TokenBudget
           /\ q < k => Tokens(Prefix(r, k)) > TokenBudget
<1> DEFINE n == Cardinality(Candidates)
           Fits(i) == Tokens(Prefix(r, i)) <= TokenBudget
           Out == {i \in 1..k : ~Fits(i)}
<1>n. n \in Nat
  BY RankingIsBijection
<1>p. \A i \in 0..n :
        /\ Tokens(Prefix(r, i)) \in Nat
        /\ i > 0 => Tokens(Prefix(r, i - 1)) <= Tokens(Prefix(r, i))
  BY PrefixTokens
<1>t. Taken(r, k) = {r[i] : i \in {j \in 1..k : Fits(j)}}
  BY DEF Taken, Prefix
<1>0. Fits(0)
  <2>1. Prefix(r, 0) = {}
    BY DEF Prefix
  <2>2. Tokens({}) = 0
    BY FS_EmptySet, TokensOfFirst, TokensOfStock
  <2> QED BY <2>1, <2>2, TurnAssumption
<1>d. \A i \in 1..k : Fits(i) => Fits(i - 1)
  <2> SUFFICES ASSUME NEW i \in 1..k, Fits(i) PROVE Fits(i - 1)
    OBVIOUS
  <2>1. i \in 0..n /\ i - 1 \in 0..n /\ i > 0
    BY <1>n
  <2> QED BY <1>p, <2>1, TurnAssumption
<1>g. \A i \in 0..k : ~Fits(i) => Tokens(Prefix(r, i)) > TokenBudget
  <2>1. \A i \in 0..k : i \in 0..n
    BY <1>n
  <2> QED BY <1>p, <2>1, TurnAssumption
<1> HIDE DEF Fits, n
<1>1. CASE Out = {}
  <2>1. {j \in 1..k : Fits(j)} = 1..k
    BY <1>1
  <2>2. Taken(r, k) = Prefix(r, k)
    BY <1>t, <2>1 DEF Prefix
  <2>3. k \in 0..k /\ Fits(k)
    BY <1>0, <1>1, <1>n DEF n
  <2> QED BY <2>2, <2>3 DEF Fits
<1>2. CASE Out # {}
  <2>1. PICK o \in Out : \A i \in Out : o <= i
    <3>1. Out \in SUBSET Nat
      OBVIOUS
    <3> HIDE DEF Out
    <3> QED BY <1>2, <3>1, SmallestNumber
  <2>2. o \in 1..k /\ ~Fits(o) /\ o - 1 \in 0..k
    BY <2>1
  <2>3. \A i \in 1..k : i < o => Fits(i)
    BY <2>1
  <2> DEFINE Back == {i \in 1..k : o < i /\ Fits(i)}
  <2>4. Back = {}
    <3> SUFFICES ASSUME Back # {} PROVE FALSE
      OBVIOUS
    <3>1. PICK b \in Back : \A i \in Back : b <= i
      <4>1. Back \in SUBSET Nat
        OBVIOUS
      <4> HIDE DEF Back
      <4> QED BY <4>1, SmallestNumber
    <3>2. b \in 1..k /\ o < b /\ Fits(b - 1) /\ b - 1 \notin Back
      BY <3>1, <1>d
    <3>3. b - 1 \in 1..k /\ ~(o < b - 1)
      BY <2>2, <3>2
    <3>4. b - 1 = o
      BY <2>2, <3>2, <3>3
    <3> QED BY <2>2, <3>2, <3>4
  <2>5. {j \in 1..k : Fits(j)} = 1..(o - 1)
    <3>1. \A j \in 1..k : Fits(j) <=> j < o
      BY <2>2, <2>3, <2>4
    <3> QED BY <2>2, <3>1
  <2>6. Taken(r, k) = Prefix(r, o - 1)
    BY <1>t, <2>5 DEF Prefix
  <2>7. Fits(o - 1)
    BY <1>0, <2>2, <2>3
  <2>8. Tokens(Prefix(r, k)) > TokenBudget
    <3>1. k \in 1..k /\ ~(k < o) /\ k \in 0..k
      BY <1>n, <2>2 DEF n
    <3>2. ~Fits(k)
      BY <2>5, <3>1, <2>2
    <3> QED BY <1>g, <3>1, <3>2
  <2> QED BY <2>2, <2>6, <2>7, <2>8 DEF Fits
<1> QED BY <1>1, <1>2

\* The first i of a ranking are the i best.
LEMMA PrefixIsTop ==
  ASSUME stock \in Stock, NEW r \in Ranked(Cardinality(Candidates)),
         NEW i \in 0..Cardinality(Candidates)
  PROVE  Prefix(r, i) \in Top(i)
<1> DEFINE n == Cardinality(Candidates)
           S == Prefix(r, i)
<1>1. /\ n \in Nat /\ r \in [1..n -> Candidates]
      /\ \A x \in Candidates : \E j \in 1..n : x = r[j]
  BY RankingIsBijection
<1>2. \A j, l \in 1..n : j < l => Score(r[j]) >= Score(r[l])
  BY DEF Ranked
<1>3. Cardinality(S) = i
  BY PrefixTokens
<1> HIDE DEF n
<1>4. i \in 0..n
  BY DEF n
<1>5. S \subseteq Candidates
  BY <1>1, <1>4 DEF Prefix
<1>6. \A m \in S, x \in Fetched \ S : x \notin Candidates => Score(m) >= Score(x)
  <2> SUFFICES ASSUME NEW m \in S, NEW x \in Fetched \ S, x \notin Candidates
               PROVE  Score(m) >= Score(x)
    OBVIOUS
  <2>1. Score(m) \in Int /\ Score(x) \in Int
    BY <1>5, ScoresAreNumbers DEF Candidates, Fetched
  <2>2. Score(m) > 100 /\ ~(Score(x) > 100)
    BY <1>5 DEF Candidates
  <2> QED BY <2>1, <2>2
<1>7. \A m \in S, x \in Candidates \ S : Score(m) >= Score(x)
  <2> SUFFICES ASSUME NEW m \in S, NEW x \in Candidates \ S PROVE Score(m) >= Score(x)
    OBVIOUS
  <2>1. PICK l \in 1..n : x = r[l]
    BY <1>1
  <2>2. PICK j \in 1..i : m = r[j]
    BY DEF Prefix
  <2>3. l \notin 1..i
    BY <2>1 DEF Prefix
  <2>4. j \in 1..n /\ j < l
    BY <1>1, <1>4, <2>1, <2>2, <2>3
  <2> QED BY <1>2, <2>1, <2>2, <2>4
<1>8. S \in SUBSET Fetched /\ Candidates \subseteq Fetched
  BY <1>5 DEF Candidates
<1> QED BY <1>3, <1>6, <1>7, <1>8 DEF Top

\* What is recalled is best: of a ranking by score, those at the front, as many as the
\* number allows, or fewer when that many exceed the tokens.
LEMMA RelevantIsBest ==
  ASSUME stock \in Stock, NEW S \in Relevant
  PROVE  Best(S)
<1> DEFINE n == Cardinality(Candidates)
           k == LesserOf(n, MaxInject)
<1>1. PICK r \in Ranked(n) : S = Taken(r, k)
  BY DEF Relevant
<1>2. n \in Nat
  BY RankingIsBijection
<1>3. k \in 0..n
  BY <1>2, TurnAssumption DEF LesserOf
<1>4. PICK q \in 0..k :
        /\ S = Prefix(r, q) /\ Tokens(S) <= TokenBudget
        /\ q < k => Tokens(Prefix(r, k)) > TokenBudget
  BY <1>1, <1>3, TakenIsPrefix
<1>5. q \in 0..n
  BY <1>2, <1>3
<1>6. S \in Top(q) /\ Prefix(r, k) \in Top(k)
  BY <1>3, <1>4, <1>5, PrefixIsTop
<1>7. Cardinality(S) = q
  BY <1>6 DEF Top
<1> HIDE DEF n
<1>8. Cardinality(S) <= MaxInject
  <2>1. k <= MaxInject
    BY <1>2, TurnAssumption DEF LesserOf
  <2> QED BY <1>2, <1>3, <1>4, <1>7, <2>1, TurnAssumption
<1> QED BY <1>4, <1>6, <1>7, <1>8 DEF Best, n

\* The stock of an expert is not changed by its turn, nor is what it was given.
MemoryInv == stock \in Stock /\ (injected = {} \/ Best(injected))

\* Whether memories are best depends on the stock alone.
LEMMA BestStays ==
  ASSUME stock' = stock, NEW B, Best(B)
  PROVE  Best(B)'
<1>1. \A T : Tokens(T)' = Tokens(T)
  <2>1. (\A S : Tokens(S) = TokensOf(stock, S))'
    BY TokensOfStock, PTL
  <2>2. \A T : Tokens(T)' = TokensOf(stock', T)
    BY <2>1
  <2> QED BY <2>2, TokensOfStock
<1>2. \A m : Score(m)' = Score(m)
  BY DEF Score
<1>3. Fetched' = Fetched
  BY DEF Fetched
<1>4. Candidates' = Candidates
  BY <1>2, <1>3 DEF Candidates
<1> QED BY <1>1, <1>2, <1>3, <1>4 DEF Best, Top

\* A turn injects what it recalls, once.
LEMMA MemoryNext == MemoryInv /\ [Next]_vars => MemoryInv'
<1> SUFFICES ASSUME MemoryInv, [Next]_vars PROVE MemoryInv'
  OBVIOUS
<1>1. stock' = stock /\ (injected' = injected \/ injected' \in Relevant)
  BY DEF Next, Recall, CreateDriver, Wake, Throw, CallReturns, CallFails, turnVars, vars
<1>2. ASSUME Best(injected') PROVE MemoryInv'
  <2>1. Best(injected)'
    BY <1>1, <1>2, BestStays DEF Best
  <2> QED BY <1>1, <2>1 DEF MemoryInv, Stock
<1>3. CASE injected' \in Relevant
  BY <1>2, <1>3, RelevantIsBest DEF MemoryInv
<1>4. CASE injected' = injected
  BY <1>1, <1>2, <1>4 DEF MemoryInv, Stock
<1> QED BY <1>1, <1>3, <1>4

\* The memories that getRelevantMemories injects are the best there are within the
\* number and the tokens, and fewer than the number only when that many exceed the
\* tokens, whatever their relevance, age and length are and however equal scores are
\* sorted.
THEOREM BestAreInjected == Spec => []BestMemories
<1>1. Init => MemoryInv
  BY TurnAssumption DEF Init, MemoryInv, Stock
<1>2. MemoryInv => BestMemories
  BY DEF MemoryInv, Best, BestMemories
<1> QED BY <1>1, <1>2, MemoryNext, PTL DEF Spec
------------------------------------------------------------------------------
(* How far a turn is from its end. *)

\* Steps that are left: an attempt may fail and be waited for as often as retries are left.
StepsLeft ==
  LET retries == 2 * (MaxRetries - attempt) IN
  CASE pc = "recall"   -> retries + 4
    [] pc = "create"   -> retries + 3
    [] pc = "call"     -> retries + 2
    [] pc = "wait"     -> retries + 1
    [] pc = "mapError" -> 1
    [] OTHER           -> 0

\* Every step of a turn leaves fewer, so that no error, header or late timer keeps it
\* going for more than 2 * MaxRetries + 4 steps.
THEOREM StepsRunOut == Spec => [][StepsLeft' \in Nat /\ StepsLeft' < StepsLeft]_vars
<1>1. Inv /\ [Next]_vars => [StepsLeft' \in Nat /\ StepsLeft' < StepsLeft]_vars
  <2> SUFFICES ASSUME Inv, Next PROVE StepsLeft' \in Nat /\ StepsLeft' < StepsLeft
    OBVIOUS
  <2> USE TurnAssumption DEF Inv, turnVars, retryVars
  <2>n. attempt \in Nat /\ attempt <= MaxRetries /\ MaxRetries \in Nat
    BY DEF TypeOK, RetryInv
  <2>1. CASE Recall
    BY <2>1, <2>n DEF Recall, StepsLeft
  <2>2. CASE CreateDriver
    BY <2>2, <2>n DEF CreateDriver, StepsLeft
  <2>3. ASSUME NEW r \in Replies, NEW d \in Durations, CallReturns(r, d)
        PROVE  StepsLeft' \in Nat /\ StepsLeft' < StepsLeft
    BY <2>3, <2>n DEF CallReturns, StepsLeft
  <2>4. ASSUME NEW e \in Errors, NEW header \in RetryAfters \cup {NoHeader},
               NEW d \in Durations, CallFails(e, header, d)
        PROVE  StepsLeft' \in Nat /\ StepsLeft' < StepsLeft
    <3>1. pc = "call" /\ pc' \in {"wait", "mapError"} /\ attempt' = attempt
      BY <2>4 DEF CallFails
    <3> QED BY <2>n, <3>1 DEF StepsLeft
  <2>5. CASE Wake
    <3>1. pc = "wait" /\ pc' = "call" /\ attempt' = attempt + 1 /\ attempt < MaxRetries
      BY <2>5 DEF Wake, RetryInv
    <3> QED BY <2>n, <3>1 DEF StepsLeft
  <2>6. CASE Throw
    BY <2>6, <2>n DEF Throw, StepsLeft
  <2> QED BY <2>1, <2>2, <2>3, <2>4, <2>5, <2>6 DEF Next
<1> QED BY Invariance, <1>1, PTL DEF Spec
==============================================================================

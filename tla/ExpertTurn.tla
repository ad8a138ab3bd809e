------------------------------ MODULE ExpertTurn ------------------------------
(***************************************************************************)
(* One expert's turn in a discussion, from the memories it is given to the *)
(* reply the loop makes a message of: the context that                     *)
(* CouncilService.runDiscussionLoop builds, the driver's call with its     *)
(* retries (src/llm/drivers, src/llm/utils/retry.util.ts) and what the     *)
(* loop makes of an exception.  Discussion has this turn in one step, with *)
(* the outcomes this module ends in.                                       *)
(*                                                                         *)
(* Time is counted in units of which the code's milliseconds are           *)
(* multiples; relevance, recency and topic overlap in tenths.              *)
(***************************************************************************)
EXTENDS Integers, FiniteSetsExt

CONSTANTS
  Drivers,      \* driver types that have an API key, a subset of AllDrivers
  Stocks,       \* what the memories of an expert may be: functions on Memories
  Memories,     \* their identifiers
  MaxInject,    \* expert.memoryMaxInject
  TokenBudget,  \* TOKEN_BUDGET of getRelevantMemories
  MaxRetries, BaseDelay, MaxDelay, MaxTotal,   \* options of retryWithBackoff
  Durations,    \* how long an attempt may take
  RetryAfters,  \* values of a Retry-After header
  Lateness      \* how late a timer may fire (bound)

AllDrivers == {"OPENAI", "ANTHROPIC", "GROK"}
NoHeader   == -1

ASSUME TurnAssumption ==
  /\ Drivers \subseteq AllDrivers /\ IsFiniteSet(Memories)
  /\ Stocks \subseteq
       [Memories -> [base : 0..10, weeks : Nat, jaccard : 0..10, tokens : Nat]]
  /\ MaxInject \in Nat /\ TokenBudget \in Nat
  /\ MaxRetries \in Nat /\ BaseDelay \in Nat /\ MaxDelay \in Nat /\ MaxTotal \in Nat
  /\ Durations \subseteq Nat /\ RetryAfters \subseteq Nat /\ Lateness \in Nat

VARIABLES
  driver,    \* expert.driverType
  stock,     \* the expert's memories: base relevance, weeks, overlap and tokens
  injected,  \* those the system message shows
  pc,        \* "recall", "call", "wait", "mapError" or "done"
  attempt,   \* attempt of retryWithBackoff's loop
  clock,     \* Date.now() - startTime
  wake,      \* when the timer is due
  error,     \* the error caught last
  passed,    \* errors after which it tried again (history)
  outcome    \* what the loop sees: a reply, or the kind of its exception

turnVars  == <<driver, stock, injected>>
retryVars == <<attempt, clock, wake, error, passed>>
vars == <<turnVars, pc, retryVars, outcome>>

LesserOf(a, b)  == IF a <= b THEN a ELSE b
GreaterOf(a, b) == IF a >= b THEN a ELSE b

------------------------------------------------------------------------------
(***************************************************************************)
(* Memories.                                                               *)
(***************************************************************************)
Recency(weeks)   == GreaterOf(10 - weeks, 3)
Overlap(jaccard) == GreaterOf(jaccard, 2)

\* In thousandths.
Score(m) == stock[m].base * Recency(stock[m].weeks) * Overlap(stock[m].jaccard)

\* Those of the query, and of them those that the filter keeps.
Fetched    == {m \in Memories : stock[m].base > 1}
Candidates == {m \in Fetched : Score(m) > 100}

Tokens(S) == MapThenSumSet(LAMBDA m : stock[m].tokens, S)

\* The orders the sort may return: equal scores stand in any order.
Ranked(n) ==
  {r \in [1..n -> Candidates] :
     \A i, j \in 1..n : i < j => r[i] # r[j] /\ Score(r[i]) >= Score(r[j])}

\* Mutant: a memory that does not fit is skipped, and the next one tried.
TakenSkipping(r, n) ==
  LET kept[i \in 0..n] ==
        IF i = 0 THEN {}
        ELSE IF Tokens(kept[i - 1]) + stock[r[i]].tokens <= TokenBudget
             THEN kept[i - 1] \cup {r[i]} ELSE kept[i - 1]
  IN  kept[n]

\* The loop over the ranking: it stops at the first that does not fit.
Taken(r, n) ==
  {r[i] : i \in {k \in 1..n : Tokens({r[j] : j \in 1..k}) <= TokenBudget}}

\* What getRelevantMemories may return.
Relevant ==
  LET n == Cardinality(Candidates) IN
  {Taken(r, LesserOf(n, MaxInject)) : r \in Ranked(n)}

(***************************************************************************)
(* Errors: those of the status codes and of the codes of the network, and  *)
(* "other" for any without either.                                         *)
(***************************************************************************)
Errors == {"401", "400", "404", "408", "429", "500",
           "ETIMEDOUT", "ENOTFOUND", "timeout", "other"}

\* "ETIMEDOUT" stands for ECONNRESET and ECONNREFUSED, "ENOTFOUND" for
\* ESOCKETTIMEDOUT and EAI_AGAIN; "timeout" has only its message.
isRetryableError(e) == e \in {"408", "429", "500", "ETIMEDOUT", "ENOTFOUND"}

\* mapError of the Claude driver.
ClaudeError(e) ==
  CASE e = "401"                     -> "LLMAuthenticationException"
    [] e = "429"                     -> "LLMRateLimitException"
    [] e = "400"                     -> "LLMInvalidRequestException"
    [] e = "500"                     -> "LLMServiceException"
    [] e \in {"ETIMEDOUT", "timeout"} -> "LLMTimeoutException"
    [] OTHER                         -> "LLMServiceException"

\* The same cases, in the drivers' own copies.
OpenAIError(e) == ClaudeError(e)
GrokError(e)   == ClaudeError(e)

mapError(e) ==
  CASE driver = "ANTHROPIC" -> ClaudeError(e)
    [] driver = "OPENAI"    -> OpenAIError(e)
    [] driver = "GROK"      -> GrokError(e)

\* The exceptions after which the loop goes on with the next expert.
Transient == {"LLMRateLimitException", "LLMTimeoutException", "LLMServiceException"}

(***************************************************************************)
(* Replies.  A reply without text is the empty string, whatever the        *)
(* driver; one without the fields a driver reads is an error of its own.   *)
(***************************************************************************)
Replies == {"text", "noText", "malformed"}

ClaudeReply(r) == CASE r = "text" -> "text" [] r = "noText" -> "empty" [] OTHER -> "other"
OpenAIReply(r) == ClaudeReply(r)
GrokReply(r)   == ClaudeReply(r)

ReplyOf(r) ==
  CASE driver = "ANTHROPIC" -> ClaudeReply(r)
    [] driver = "OPENAI"    -> OpenAIReply(r)
    [] driver = "GROK"      -> GrokReply(r)

------------------------------------------------------------------------------
Init ==
  /\ driver \in AllDrivers /\ stock \in Stocks /\ injected = {}
  /\ pc = "recall" /\ attempt = 0 /\ clock = 0 /\ wake = 0
  /\ error = "none" /\ passed = {} /\ outcome = "none"

\* getRelevantMemories, when the expert has its memory enabled, and the context.
Recall ==
  /\ pc = "recall"
  /\ \/ injected' \in Relevant
     \/ UNCHANGED injected
  /\ pc' = "create"
  /\ UNCHANGED <<driver, stock, retryVars, outcome>>

\* createDriver: without a key, an LLMAuthenticationException.
CreateDriver ==
  /\ pc = "create"
  /\ IF driver \in Drivers
       THEN pc' = "call" /\ UNCHANGED outcome
       ELSE pc' = "done" /\ outcome' = "LLMAuthenticationException"
  /\ UNCHANGED <<turnVars, retryVars>>

\* An attempt that the provider answers; reading the reply is outside the retries.
CallReturns(r, d) ==
  /\ pc = "call"
  /\ clock' = clock + d
  /\ IF ReplyOf(r) = "other"
       THEN pc' = "mapError" /\ error' = "other" /\ UNCHANGED outcome
       ELSE pc' = "done" /\ outcome' = ReplyOf(r) /\ UNCHANGED error
  /\ UNCHANGED <<turnVars, attempt, wake, passed>>

\* Full jitter: a random part of the exponential delay, rounded down.
Jitter == 0..(GreaterOf(1, LesserOf(BaseDelay * 2^attempt, MaxDelay)) - 1)

\* A header has precedence over the jitter.
Delays(header) == IF header # NoHeader THEN {LesserOf(header, MaxDelay)} ELSE Jitter

\* Mutant: one attempt too few.
GivesUpEarly(e, elapsed) ==
  ~isRetryableError(e) \/ attempt + 1 >= MaxRetries \/ elapsed >= MaxTotal

GivesUp(e, elapsed) ==
  ~isRetryableError(e) \/ attempt >= MaxRetries \/ elapsed >= MaxTotal

\* Mutant: the wait is not cut to what remains of the total time.
CallFailsUncut(e, header, d) ==
  /\ pc = "call"
  /\ clock' = clock + d
  /\ error' = e
  /\ IF GivesUp(e, clock')
       THEN pc' = "mapError" /\ UNCHANGED <<wake, passed>>
       ELSE /\ pc' = "wait"
            /\ \E delay \in Delays(header) : wake' = clock' + delay
            /\ passed' = passed \cup {e}
  /\ UNCHANGED <<turnVars, attempt, outcome>>

\* An attempt that fails after d: retried after a wait, or not.
CallFails(e, header, d) ==
  /\ pc = "call"
  /\ clock' = clock + d
  /\ error' = e
  /\ IF GivesUp(e, clock')
       THEN pc' = "mapError" /\ UNCHANGED <<wake, passed>>
       ELSE /\ pc' = "wait"
            /\ \E delay \in Delays(header) :
                 wake' = clock' + LesserOf(delay, MaxTotal - clock')
            /\ passed' = passed \cup {e}
  /\ UNCHANGED <<turnVars, attempt, outcome>>

\* Mutant: the attempts are not counted.
WakeUncounted ==
  /\ pc = "wait"
  /\ \E late \in 0..Lateness : clock' = wake + late
  /\ pc' = "call"
  /\ UNCHANGED <<turnVars, attempt, wake, error, passed, outcome>>

Wake ==
  /\ pc = "wait"
  /\ \E late \in 0..Lateness : clock' = wake + late
  /\ attempt' = attempt + 1
  /\ pc' = "call"
  /\ UNCHANGED <<turnVars, wake, error, passed, outcome>>

\* Mutant: the loop sees the provider's error itself.
ThrowUnmapped ==
  /\ pc = "mapError"
  /\ outcome' = error
  /\ pc' = "done"
  /\ UNCHANGED <<turnVars, retryVars>>

\* The driver's catch, then the loop's.
Throw ==
  /\ pc = "mapError"
  /\ outcome' = mapError(error)
  /\ pc' = "done"
  /\ UNCHANGED <<turnVars, retryVars>>

Next ==
  \/ Recall \/ CreateDriver \/ Wake \/ Throw
  \/ \E d \in Durations :
       \/ \E r \in Replies : CallReturns(r, d)
       \/ \E e \in Errors, header \in RetryAfters \cup {NoHeader} : CallFails(e, header, d)

Spec == Init /\ [][Next]_vars

\* The process runs, timers fire, and the provider's client bounds an attempt's time.
FairSpec == Spec /\ WF_vars(Next)

------------------------------------------------------------------------------
Exceptions == Transient \cup {"LLMAuthenticationException", "LLMInvalidRequestException"}

\* The shape of a turn; it has an outcome when it is done and not before.
TypeOK ==
  /\ driver \in AllDrivers /\ injected \subseteq Memories
  /\ pc \in {"recall", "create", "call", "wait", "mapError", "done"}
  /\ attempt \in Nat /\ clock \in Nat /\ wake \in Nat
  /\ error \in Errors \cup {"none"} /\ passed \subseteq Errors
  /\ outcome \in Exceptions \cup {"text", "empty", "none"}
  /\ pc = "done" <=> outcome # "none"

\* No attempt but those the retries allow is made, and none starts after the total
\* time, but for a late timer: Retry-After, the jitter and the duration of the
\* attempts before it all count (retryWithBackoff, 125-189).
WithinBudget ==
  /\ attempt <= MaxRetries
  /\ (pc = "call" /\ attempt > 0) => clock <= MaxTotal + Lateness
  /\ pc = "wait" => wake <= MaxTotal

\* An expert whose turn is skipped for an error that may pass was tried as often, or
\* as long, as the options say, and was never tried again after an error that may not
\* (isRetryableError and mapError classify errors apart from each other).
GivenUpMeansTried ==
  /\ \A e \in passed : isRetryableError(e)
  /\ pc = "done" /\ error # "none" /\ isRetryableError(error) /\ outcome \in Exceptions =>
       outcome \in Transient /\ (attempt = MaxRetries \/ clock >= MaxTotal)

\* The sets of the k best memories; equal scores make more than one.
Top(k) ==
  {S \in SUBSET Fetched :
     Cardinality(S) = k /\ \A m \in S, x \in Fetched \ S : Score(m) >= Score(x)}

\* The memories injected are the best there are: within their number and the tokens,
\* none is passed over for one with a lower score, and fewer of the relevant ones than
\* the number allows are injected only when that many exceed the tokens
\* (getRelevantMemories, 141-178).
BestMemories ==
  LET n == LesserOf(Cardinality(Candidates), MaxInject) IN
  pc # "recall" /\ injected # {} =>
    /\ injected \in Top(Cardinality(injected))
    /\ Cardinality(injected) <= MaxInject /\ Tokens(injected) <= TokenBudget
    /\ Cardinality(injected) < n => \E S \in Top(n) : Tokens(S) > TokenBudget

\* "Token budget check: estimate tokens (content.length / 4), cap total at 3000 tokens.
\* If exceeded, reduce to top 3"
\* (docs/specs/2026-04-11-persistent-expert-memory-design.md:162): where three fit.
ReducedToTopThree ==
  LET n == LesserOf(Cardinality(Candidates), MaxInject) IN
  /\ pc # "recall" /\ injected # {} /\ n > 3
  /\ \A S \in Top(n) : Tokens(S) > TokenBudget
  /\ \A S \in Top(3) : Tokens(S) <= TokenBudget
  => Cardinality(injected) = 3

\* A turn ends, however the provider fails.
TurnEnds == <>(pc = "done")
==============================================================================

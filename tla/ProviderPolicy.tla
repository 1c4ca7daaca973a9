---------------------------- MODULE ProviderPolicy -----------------------------
(***************************************************************************)
(* The calls of one phase to a remote model (shared/providerPolicy.ts): a  *)
(* runtime that all of them share counts what they cost, and says whether  *)
(* the next may be made, when it may start and whether it is tried again.  *)
(* A limit that is not configured is the empty set, one of n is {n}.       *)
(***************************************************************************)
LOCAL INSTANCE Integers
LOCAL INSTANCE Sequences

Least(a, b) == IF a < b THEN a ELSE b

createProviderCallStats ==
    [requests |-> 0, attempts |-> 0, retries |-> 0, finalFailures |-> 0, estimatedTokens |-> 0,
     failures |-> [rateLimited |-> 0, transientFailures |-> 0, permanentFailures |-> 0, budgetExhausted |-> 0]]

\* lastRequestAt = 0 says that nothing was asked yet: time starts after 0.
createProviderCallRuntime(policy, now) ==
    [policy |-> policy, startedAt |-> now, now |-> now, lastRequestAt |-> 0, stats |-> createProviderCallStats]

\* An error of the provider: its HTTP status (0: none) and whether its text
\* speaks of the network.
classifyProviderError(error) ==
    CASE error.status = 429 -> "rateLimited"
      [] error.status \in {408, 409} \/ error.status >= 500 -> "transientFailures"
      [] error.status \in {400, 401, 403, 404} -> "permanentFailures"
      [] error.network -> "transientFailures"
      [] OTHER -> "permanentFailures"

recordFailure(runtime, kind) == [runtime EXCEPT !.stats.failures[kind] = @ + 1]

\* The delays before the next attempt, the jitter in all its values.
retryDelay(attempt, policy) ==
    LET exponential == Least(policy.maxDelay, policy.initialDelay * 2 ^ (attempt - 1))
    IN exponential .. exponential + policy.jitter

estimatedTokens(texts) == IF Len(texts) = 0 THEN 1 ELSE Len(texts)

budgetExhausted(runtime, tokens) ==
    \/ \E most \in runtime.policy.maxElapsed : runtime.now - runtime.startedAt > most
    \/ \E most \in runtime.policy.maxRequests : runtime.stats.requests + 1 > most
    \/ \E most \in runtime.policy.maxEstimatedTokens : runtime.stats.estimatedTokens + tokens > most
    \/ \E most \in runtime.policy.maxFailures : runtime.stats.finalFailures >= most

reserveBudget(runtime, tokens) ==
    [runtime EXCEPT !.stats.requests = @ + 1, !.stats.estimatedTokens = @ + tokens]

\* What is left of the delay between two requests.
rateLimitDelay(runtime) ==
    IF runtime.lastRequestAt = 0 \/ runtime.now - runtime.lastRequestAt >= runtime.policy.minDelay
    THEN 0
    ELSE runtime.policy.minDelay - (runtime.now - runtime.lastRequestAt)

reserveAttempt(runtime) == [runtime EXCEPT !.stats.attempts = @ + 1, !.lastRequestAt = runtime.now]

retryable(kind, attempt, policy) ==
    kind \in {"rateLimited", "transientFailures"} /\ attempt <= policy.maxRetries
=============================================================================

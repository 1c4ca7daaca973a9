------------------------------ MODULE ProviderRun ------------------------------
(***************************************************************************)
(* A phase that asks a remote model about many texts, with several workers *)
(* that share one ProviderPolicy runtime: the embeddings of an index run   *)
(* (semanticIndex.ts, openaiEmbeddingProvider.ts), the summaries of its    *)
(* nodes (summaries.ts) and those of its repositories (summarizeGraph.ts). *)
(* They differ in what a failed call means: embeddings halve a batch the   *)
(* provider refuses and give up on any other error, node summaries count   *)
(* it, repository summaries fall back to a text of their own.              *)
(***************************************************************************)
EXTENDS FiniteSets
LOCAL INSTANCE Integers
LOCAL INSTANCE Sequences
Seqs == INSTANCE SequencesExt
Policy == INSTANCE ProviderPolicy

CONSTANTS Requests,   \* phases: [kind, policy, concurrency, refused, largest, errors] and what they are about
          MaxTime     \* bound on the clock

\* What a text has got: nothing, a summary made here, or the model's answer.
NOTHING == 0
LOCAL_TEXT == -1

VARIABLE work

Idle == [at |-> "idle"]
Workers == 1..work.job.workers

Free == [at |-> "free", batch |-> <<>>, todo |-> <<>>, answers |-> <<>>, attempt |-> 0, wake |-> 0]

Init == work = Idle

PolicyType ==
    [maxRetries : Nat, initialDelay : Nat, maxDelay : Nat, jitter : Nat, timeout : Nat, minDelay : Nat,
     maxRequests : SUBSET Nat, maxEstimatedTokens : SUBSET Nat, maxElapsed : SUBSET Nat, maxFailures : SUBSET Nat]
ErrorType == [status : Nat \ {400, 413}, network : BOOLEAN]
-----------------------------------------------------------------------------
(* What a phase asks about. *)

chunks(texts, size) ==
    [b \in 1..((Len(texts) + size - 1) \div size) |->
       SubSeq(texts, (b - 1) * size + 1, Policy!Least(b * size, Len(texts)))]

\* One task for a file, or one for each section and each symbol that has no
\* summary yet.  A file: [id, doc, nodes], a node: [id, summarized].
buildSummaryTasks(files, level) ==
    LET Open(file) == SelectSeq(file.nodes, LAMBDA node : file.doc \/ ~node.summarized)
        Tasks(file) == CASE level = "file" -> <<<<file.id>>>>
                         [] level = "node" -> [k \in DOMAIN Open(file) |-> <<Open(file)[k].id>>]
                         [] OTHER -> <<>>
    IN Seqs!FlattenSeq([f \in DOMAIN files |-> Tasks(files[f])])

\* The repositories one after the other, and then the system.
summarizeReposAndSystem(repos) == [k \in 1..(Len(repos) + 1) |-> <<IF k > Len(repos) THEN Len(repos) + 1 ELSE repos[k]>>]

BatchesOf(request) ==
    CASE request.kind = "embeddings" -> chunks(request.texts, request.size)
      [] request.kind = "summaries" -> buildSummaryTasks(request.files, request.level)
      [] request.kind = "graph" -> summarizeReposAndSystem(request.repos)
WorkersOf(request, batches) ==
    IF request.kind = "graph" THEN 1
    ELSE Policy!Least(IF request.concurrency < 1 THEN 1 ELSE request.concurrency, Len(batches))
TextsOf(batch) == {batch[k] : k \in DOMAIN batch}

\* Texts are positive numbers, errors are those which are no refusals, and a
\* file or a node is asked about once.
RequestsAssumption ==
    /\ MaxTime \in Nat
    /\ \A request \in Requests :
         /\ request.policy \in PolicyType
         /\ request.concurrency \in Int
         /\ request.refused \in SUBSET Nat
         /\ request.largest \in Nat \ {0}
         /\ request.errors \in SUBSET ErrorType
         /\ \/ /\ request.kind = "embeddings"
               /\ request.texts \in Seq(Nat \ {0}) /\ request.size \in Nat \ {0}
            \/ /\ request.kind = "summaries"
               /\ LET tasks == buildSummaryTasks(request.files, request.level) IN
                  /\ tasks \in Seq(Seq(Nat \ {0}))
                  /\ \A b, c \in DOMAIN tasks : Len(tasks[b]) = 1 /\ (tasks[b] = tasks[c] => b = c)
            \/ /\ request.kind = "graph"
               /\ request.repos \in Seq(Nat \ {0})

Begin ==
    /\ work = Idle
    /\ \E request \in Requests :
         LET batches == BatchesOf(request)
             job == [kind |-> request.kind, batches |-> batches, workers |-> WorkersOf(request, batches),
                     policy |-> request.policy, refused |-> request.refused, largest |-> request.largest,
                     errors |-> request.errors]
         IN work' = [at |-> "running", job |-> job, runtime |-> Policy!createProviderCallRuntime(job.policy, 1),
                     gate |-> <<>>, cursor |-> 1, worker |-> [w \in 1..job.workers |-> Free],
                     got |-> [t \in UNION {TextsOf(batches[b]) : b \in DOMAIN batches} |-> NOTHING], failed |-> {}, lost |-> 0,
                     closest |-> MaxTime]
-----------------------------------------------------------------------------
(* Workers and the gate they pass one at a time, in the order they came. *)

\* The worker is next to pass the gate.
First(w) == work.gate # <<>> /\ Head(work.gate) = w
TurnAtOnce(w) == work.worker[w].at \in {"attempt", "spacing"} \/ First(w)
Turn(w) == First(w)

Enter(w) == Append(work.gate, w)
Leave == Tail(work.gate)

\* runConcurrent: the next batch, or the end of this worker.  Nothing stops the
\* others when one has failed: they go on, and what they get is lost.
Take(w) ==
    LET me == work.worker[w] IN
    /\ me.at = "free"
    /\ IF work.cursor > Len(work.job.batches)
       THEN work' = [work EXCEPT !.worker[w].at = "ended"]
       ELSE LET batch == work.job.batches[work.cursor] IN
            work' = [work EXCEPT !.cursor = @ + 1, !.gate = Enter(w),
                                 !.worker[w] = [Free EXCEPT !.at = "budget", !.batch = batch, !.todo = <<batch>>,
                                                            !.attempt = 1]]

\* The answers, each given to the text of the batch at its place.
Given(batch, answers) ==
    [t \in DOMAIN work.got |->
       IF \E k \in DOMAIN answers : k \in DOMAIN batch /\ batch[k] = t
       THEN answers[CHOOSE k \in DOMAIN answers : k \in DOMAIN batch /\ batch[k] = t]
       ELSE work.got[t]]

\* The state of a worker that turns to the next part of its batch, or has done
\* the last.
NextPart(w, todo, answers) ==
    LET me == work.worker[w] IN
    IF todo = <<>>
    THEN [work EXCEPT !.worker[w] = Free, !.got = Given(me.batch, answers)]
    ELSE [work EXCEPT !.gate = Enter(w),
                      !.worker[w] = [me EXCEPT !.at = "budget", !.todo = todo, !.answers = answers, !.attempt = 1]]

\* embedTextsWithSplit: a refused text alone gets nothing, refused texts are
\* tried half by half.
ShouldSplit(error) == Policy!classifyProviderError(error) = "permanentFailures" /\ error.status \in {400, 413}
Split(texts) ==
    LET middle == (Len(texts) + 1) \div 2
    IN <<SubSeq(texts, 1, middle), SubSeq(texts, middle + 1, Len(texts))>>

SkipRefused(answers) == answers
RefusedAlone(answers) == Append(answers, NOTHING)

\* What the caller does with a call that has failed for good.
GiveUp(w, error) ==
    LET me == work.worker[w] IN
    CASE work.job.kind = "embeddings" /\ ShouldSplit(error) ->
           IF Len(Head(me.todo)) = 1
           THEN NextPart(w, Tail(me.todo), RefusedAlone(me.answers))
           ELSE NextPart(w, Split(Head(me.todo)) \o Tail(me.todo), me.answers)
      [] work.job.kind = "embeddings" /\ ~ShouldSplit(error) ->
           [work EXCEPT !.at = "rejected", !.worker[w] = [Free EXCEPT !.at = "ended"]]
      [] work.job.kind = "summaries" ->
           [work EXCEPT !.failed = @ \union TextsOf(me.batch), !.lost = @ + 1, !.worker[w] = Free]
      [] work.job.kind = "graph" -> NextPart(w, <<>>, <<LOCAL_TEXT>>)

\* The catch of runProviderCall: again after a while, or the end of the call.
Failed(w, kind, error, delay) ==
    LET me == work.worker[w]
        counted == Policy!recordFailure(work.runtime, kind)
    IN IF Policy!retryable(kind, me.attempt, work.job.policy)
       THEN work' = [work EXCEPT !.runtime = [counted EXCEPT !.stats.retries = @ + 1],
                                 !.worker[w] = [me EXCEPT !.at = "backoff", !.wake = work.runtime.now + delay,
                                                          !.attempt = @ + 1]]
       ELSE work' = [GiveUp(w, error) EXCEPT !.runtime = [counted EXCEPT !.stats.finalFailures = @ + 1]]

Exhausted == [status |-> 0, network |-> FALSE]

\* reserveProviderBudget: once for a call and all its attempts.
ReserveBudget(w) ==
    LET me == work.worker[w]
        tokens == Policy!estimatedTokens(Head(me.todo))
    IN /\ me.at = "budget" /\ Turn(w)
       /\ IF Policy!budgetExhausted(work.runtime, tokens)
          THEN LET counted == Policy!recordFailure(work.runtime, "budgetExhausted")
               IN work' = [GiveUp(w, Exhausted) EXCEPT !.runtime = [counted EXCEPT !.stats.finalFailures = @ + 1],
                                                       !.gate = Leave]
          ELSE work' = [work EXCEPT !.runtime = Policy!reserveBudget(@, tokens),
                                    !.gate = Leave, !.worker[w].at = "reserved"]

\* The call, or its next attempt after the delay, queues for its start.
QueueAttempt(w) ==
    /\ \/ work.worker[w].at = "reserved"
       \/ work.worker[w].at = "backoff" /\ work.runtime.now >= work.worker[w].wake
    /\ work' = [work EXCEPT !.gate = Enter(w), !.worker[w].at = "attempt"]

\* reserveProviderAttempt: the gate is held while the delay is slept.
StartCall(w) ==
    LET me == work.worker[w]
        wait == Policy!rateLimitDelay(work.runtime)
    IN /\ me.at \in {"attempt", "spacing"} /\ Turn(w)
       /\ me.at = "spacing" => work.runtime.now >= me.wake
       /\ IF me.at = "attempt" /\ wait > 0
          THEN work' = [work EXCEPT !.worker[w] = [me EXCEPT !.at = "spacing", !.wake = work.runtime.now + wait]]
          ELSE work' = [work EXCEPT !.runtime = Policy!reserveAttempt(work.runtime), !.gate = Leave,
                                    !.worker[w] = [me EXCEPT !.at = "calling",
                                                             !.wake = work.runtime.now + work.job.policy.timeout],
                                    !.closest = IF work.runtime.lastRequestAt = 0 THEN work.closest
                                                ELSE Policy!Least(work.closest,
                                                                  work.runtime.now - work.runtime.lastRequestAt)]
-----------------------------------------------------------------------------
(* The provider, and time. *)

Refused(texts) == Len(texts) > work.job.largest \/ \E k \in DOMAIN texts : texts[k] \in work.job.refused

Answered(w) ==
    LET me == work.worker[w] IN
    /\ me.at = "calling" /\ ~Refused(Head(me.todo))
    /\ work' = NextPart(w, Tail(me.todo), me.answers \o Head(me.todo))

Refuse(w) ==
    /\ work.worker[w].at = "calling" /\ Refused(Head(work.worker[w].todo))
    /\ \E status \in {400, 413} :
         Failed(w, "permanentFailures", [status |-> status, network |-> FALSE], 0)

CallFails(w) ==
    /\ work.worker[w].at = "calling"
    /\ \E error \in work.job.errors :
         \E delay \in Policy!retryDelay(work.worker[w].attempt, work.job.policy) :
            Failed(w, Policy!classifyProviderError(error), error, delay)

\* withTimeout: the call is aborted, whatever it answers later is not heard.
TimeOut(w) ==
    /\ work.worker[w].at = "calling" /\ work.runtime.now >= work.worker[w].wake
    /\ \E delay \in Policy!retryDelay(work.worker[w].attempt, work.job.policy) :
         Failed(w, "transientFailures", Exhausted, delay)

Tick == work.runtime.now < MaxTime /\ work' = [work EXCEPT !.runtime.now = @ + 1]

Ended == work # Idle /\ \A w \in Workers : work.worker[w].at = "ended"

\* The phase is over, or the clock has come to its bound.
Finish == (Ended \/ work.runtime.now = MaxTime) /\ work' = Idle

Step(w) ==
    \/ Take(w)
    \/ ReserveBudget(w)
    \/ QueueAttempt(w)
    \/ StartCall(w)
    \/ Answered(w)
    \/ Refuse(w)
    \/ CallFails(w)
    \/ TimeOut(w)

Next ==
    \/ Begin
    \/ work # Idle /\ \E w \in Workers : Step(w)
    \/ work # Idle /\ Tick
    \/ work # Idle /\ Finish

Spec == Init /\ [][Next]_work
-----------------------------------------------------------------------------
(* Properties. *)

Total(f) == f.rateLimited + f.transientFailures + f.permanentFailures + f.budgetExhausted

\* However the workers interleave, the phase stays within its policy: budget,
\* attempts of a call, delay between two requests; and its statistics, which the
\* user is shown, add up (providerPolicy.ts:182-283).
PolicyIsKept ==
    work # Idle =>
      LET stats == work.runtime.stats
          policy == work.job.policy
      IN /\ \A most \in policy.maxRequests : stats.requests <= most
         /\ \A most \in policy.maxEstimatedTokens : stats.estimatedTokens <= most
         /\ work.closest >= policy.minDelay \/ work.closest = MaxTime
         /\ \A w \in Workers : work.worker[w].attempt <= policy.maxRetries + 1
         /\ stats.attempts <= stats.requests + stats.retries
         /\ Total(stats.failures) = stats.retries + stats.finalFailures

\* A phase that ends without an error has served every text: each that the
\* provider accepts has its own answer, whatever was split, retried or refused
\* around it, and each failed summary is counted once.
EveryTextIsServed ==
    Ended /\ work.at = "running" =>
      /\ \A t \in DOMAIN work.got :
           work.got[t] \in CASE work.job.kind = "embeddings" -> {IF t \in work.job.refused THEN NOTHING ELSE t}
                             [] work.job.kind = "summaries" -> {IF t \in work.failed THEN NOTHING ELSE t}
                             [] work.job.kind = "graph" -> {LOCAL_TEXT, t}
      /\ work.lost = Cardinality(work.failed)
=============================================================================

------------------------- MODULE ProviderRunProofs ---------------------------
(***************************************************************************)
(* Proofs about the phases that ask a remote model (ProviderRun), for any  *)
(* requests, policies and numbers of workers.                              *)
(*                                                                         *)
(* What a phase spends is known from its workers: each attempt that was    *)
(* paid for is made or owed by a worker that waits to make it (CountsKept),*)
(* and who sleeps for the delay between two requests has the gate, so that *)
(* nobody asks meanwhile (SpacingKept).  That every text is served once is *)
(* known from the batches: the parts a worker has left to ask begin where  *)
(* its answers end and are the rest of its batch, one after the other      *)
(* (Tiles), a text that has not got what is right is of a batch to come or *)
(* of one that a worker holds (ServedKept), and nobody else asks for the   *)
(* summary that a worker does (OnceKept).  Batches that fail, are split or *)
(* are refused in part keep all three.                                     *)
(***************************************************************************)
EXTENDS ProviderRun, Integers, Sequences, FiniteSetTheorems, SequenceTheorems, TLAPS
-----------------------------------------------------------------------------
(* What is known of a phase at every step. *)

Stages == {"free", "budget", "reserved", "attempt", "spacing", "calling", "backoff", "ended"}
Holding == Stages \ {"free", "ended"}
Owes == {"reserved", "attempt", "spacing", "backoff"}

JobType ==
    [kind : {"embeddings", "summaries", "graph"}, batches : Seq(Seq(Nat \ {0})), workers : Nat, policy : PolicyType,
     refused : SUBSET Nat, largest : Nat \ {0}, errors : SUBSET ErrorType]
FailureType == [rateLimited : Nat, transientFailures : Nat, permanentFailures : Nat, budgetExhausted : Nat]
StatsType ==
    [requests : Nat, attempts : Nat, retries : Nat, finalFailures : Nat, estimatedTokens : Nat, failures : FailureType]
RuntimeType == [policy : PolicyType, startedAt : Nat, now : Nat, lastRequestAt : Nat, stats : StatsType]
WorkerType ==
    [at : Stages, batch : Seq(Nat \ {0}), todo : Seq(Seq(Nat \ {0})), answers : Seq(Int), attempt : Nat, wake : Int]
WorkersType == UNION {[1..n -> WorkerType] : n \in Nat}
GotType == UNION {[D -> Int] : D \in SUBSET Nat}
State ==
    [at : {"running", "rejected"}, job : JobType, runtime : RuntimeType, gate : Seq(Nat), cursor : Nat,
     worker : WorkersType, got : GotType, failed : SUBSET Nat, lost : Nat, closest : Nat]

Batches(s) == s.job.batches
Holds(s, w) == w \in DOMAIN s.worker /\ s.worker[w].at \in Holding

JobKept(s) ==
    /\ \A b \in DOMAIN Batches(s) :
          /\ Len(Batches(s)[b]) >= 1
          /\ s.job.kind # "embeddings" => Len(Batches(s)[b]) = 1
    /\ s.job.kind = "summaries" =>
          \A b, c \in DOMAIN Batches(s) : Batches(s)[b] = Batches(s)[c] => b = c
    /\ s.job.workers = 0 => Batches(s) = <<>>
    /\ s.runtime.policy = s.job.policy
    /\ DOMAIN s.worker = 1..s.job.workers
    /\ DOMAIN s.got = UNION {TextsOf(Batches(s)[b]) : b \in DOMAIN Batches(s)}
    /\ s.cursor \in 1..(Len(Batches(s)) + 1)

\* The budget, and the attempts of a call.
BudgetKept(s) ==
    /\ \A most \in s.job.policy.maxRequests : s.runtime.stats.requests <= most
    /\ \A most \in s.job.policy.maxEstimatedTokens : s.runtime.stats.estimatedTokens <= most
    /\ \A w \in DOMAIN s.worker : s.worker[w].attempt <= s.job.policy.maxRetries + 1

\* Who sleeps for the delay has the gate, and sleeps long enough.
SpacingKept(s) ==
    /\ s.runtime.now >= 1 /\ s.runtime.lastRequestAt <= s.runtime.now
    /\ s.closest >= s.job.policy.minDelay \/ s.closest = MaxTime
    /\ \A w \in DOMAIN s.worker : s.worker[w].at = "spacing" =>
          /\ s.gate # <<>> /\ Head(s.gate) = w
          /\ s.worker[w].wake >= s.runtime.lastRequestAt + s.job.policy.minDelay

\* Each attempt that was paid for is made or owed.
Owing(s) == {w \in DOMAIN s.worker : s.worker[w].at \in Owes}
CountsKept(s) ==
    /\ s.runtime.stats.attempts + Cardinality(Owing(s)) = s.runtime.stats.requests + s.runtime.stats.retries
    /\ Total(s.runtime.stats.failures) = s.runtime.stats.retries + s.runtime.stats.finalFailures

Answer(s, t) == IF t \in s.job.refused THEN NOTHING ELSE t

\* The parts that are left to ask begin where the answers end and are the rest
\* of the batch, one after the other.
Tiles(batch, todo, done) ==
    \E cuts \in [1..(Len(todo) + 1) -> 0..Len(batch)] :
        /\ cuts[1] = done
        /\ cuts[Len(todo) + 1] = Len(batch)
        /\ \A k \in 1..Len(todo) :
              /\ Len(todo[k]) >= 1
              /\ cuts[k + 1] = cuts[k] + Len(todo[k])
              /\ \A i \in 1..Len(todo[k]) : todo[k][i] = batch[cuts[k] + i]
Tiled(me) == Tiles(me.batch, me.todo, Len(me.answers))

HeldAt(s, w) ==
    Holds(s, w) =>
        /\ \E b \in DOMAIN Batches(s) : b < s.cursor /\ s.worker[w].batch = Batches(s)[b]
        /\ s.worker[w].todo # <<>>
        /\ s.job.kind # "embeddings" => s.worker[w].todo = <<s.worker[w].batch>> /\ s.worker[w].answers = <<>>
        /\ s.job.kind = "embeddings" =>
              /\ Tiled(s.worker[w])
              /\ \A k \in DOMAIN s.worker[w].answers : s.worker[w].answers[k] = Answer(s, s.worker[w].batch[k])

HeldKept(s) == \A w \in DOMAIN s.worker : HeldAt(s, w)

\* Nobody else summarizes what a worker does, nor has it been.
Untouched(s, batch) == s.got[batch[1]] = NOTHING /\ batch[1] \notin s.failed
OnceKept(s) ==
    /\ IsFiniteSet(s.failed) /\ s.lost = Cardinality(s.failed)
    /\ s.job.kind = "summaries" =>
          /\ \A w \in DOMAIN s.worker : Holds(s, w) =>
                /\ Untouched(s, s.worker[w].batch)
                /\ \A v \in DOMAIN s.worker : Holds(s, v) /\ s.worker[v].batch = s.worker[w].batch => v = w
          /\ \A b \in DOMAIN Batches(s) : b >= s.cursor => Untouched(s, Batches(s)[b])
          /\ \A t \in s.failed : t \in DOMAIN s.got /\ s.got[t] = NOTHING

Right(s, t) ==
    CASE s.job.kind = "embeddings" -> {Answer(s, t)}
      [] s.job.kind = "summaries" -> {IF t \in s.failed THEN NOTHING ELSE t}
      [] s.job.kind = "graph" -> {LOCAL_TEXT, t}
Pending(s, t) ==
    \/ \E b \in DOMAIN Batches(s) : b >= s.cursor /\ t \in TextsOf(Batches(s)[b])
    \/ \E w \in DOMAIN s.worker : Holds(s, w) /\ t \in TextsOf(s.worker[w].batch)
ServedKept(s) ==
    s.at = "running" =>
        /\ \A w \in DOMAIN s.worker : s.worker[w].at = "ended" => s.cursor = Len(Batches(s)) + 1
        /\ \A t \in DOMAIN s.got : s.got[t] \in Right(s, t) \/ Pending(s, t)

PolicyKept(s) == BudgetKept(s) /\ SpacingKept(s) /\ CountsKept(s)
ServiceKept(s) == HeldKept(s) /\ OnceKept(s) /\ ServedKept(s)
Kept(s) == JobKept(s) /\ PolicyKept(s) /\ ServiceKept(s)
IInv == work = Idle \/ (work \in State /\ Kept(work))
-----------------------------------------------------------------------------
(* States, field by field. *)

LEMMA Fields ==
    ASSUME NEW s, s \in State
    PROVE  /\ s = [at |-> s.at, job |-> s.job, runtime |-> s.runtime, gate |-> s.gate, cursor |-> s.cursor,
                   worker |-> s.worker, got |-> s.got, failed |-> s.failed, lost |-> s.lost, closest |-> s.closest]
           /\ s.at \in {"running", "rejected"} /\ s.job \in JobType /\ s.runtime \in RuntimeType
           /\ s.gate \in Seq(Nat) /\ s.cursor \in Nat /\ s.worker \in WorkersType /\ s.got \in GotType
           /\ s.failed \in SUBSET Nat /\ s.lost \in Nat /\ s.closest \in Nat
BY DEF State

LEMMA JobFields ==
    ASSUME NEW j, j \in JobType
    PROVE  /\ j.kind \in {"embeddings", "summaries", "graph"} /\ j.batches \in Seq(Seq(Nat \ {0})) /\ j.workers \in Nat
           /\ j.policy \in PolicyType /\ j.refused \in SUBSET Nat /\ j.largest \in Nat \ {0}
           /\ j.errors \in SUBSET ErrorType
BY DEF JobType

LEMMA PolicyFields ==
    ASSUME NEW p, p \in PolicyType
    PROVE  /\ p.maxRetries \in Nat /\ p.initialDelay \in Nat /\ p.maxDelay \in Nat /\ p.jitter \in Nat
           /\ p.timeout \in Nat /\ p.minDelay \in Nat
           /\ p.maxRequests \in SUBSET Nat /\ p.maxEstimatedTokens \in SUBSET Nat
BY DEF PolicyType

LEMMA RuntimeFields ==
    ASSUME NEW r, r \in RuntimeType
    PROVE  /\ r = [policy |-> r.policy, startedAt |-> r.startedAt, now |-> r.now, lastRequestAt |-> r.lastRequestAt,
                   stats |-> r.stats]
           /\ r.policy \in PolicyType /\ r.startedAt \in Nat /\ r.now \in Nat /\ r.lastRequestAt \in Nat
           /\ r.stats \in StatsType
BY DEF RuntimeType

LEMMA StatsFields ==
    ASSUME NEW f, f \in StatsType
    PROVE  /\ f = [requests |-> f.requests, attempts |-> f.attempts, retries |-> f.retries,
                   finalFailures |-> f.finalFailures, estimatedTokens |-> f.estimatedTokens, failures |-> f.failures]
           /\ f.requests \in Nat /\ f.attempts \in Nat /\ f.retries \in Nat /\ f.finalFailures \in Nat
           /\ f.estimatedTokens \in Nat /\ f.failures \in FailureType
BY DEF StatsType

LEMMA WorkerFields ==
    ASSUME NEW me, me \in WorkerType
    PROVE  /\ me = [at |-> me.at, batch |-> me.batch, todo |-> me.todo, answers |-> me.answers,
                    attempt |-> me.attempt, wake |-> me.wake]
           /\ me.at \in Stages /\ me.batch \in Seq(Nat \ {0}) /\ me.todo \in Seq(Seq(Nat \ {0}))
           /\ me.answers \in Seq(Int) /\ me.attempt \in Nat /\ me.wake \in Int
BY DEF WorkerType

\* Between s and t, of the workers only w moves.
OneMoves(s, t, w) ==
    /\ w \in DOMAIN s.worker /\ t.job = s.job /\ DOMAIN t.worker = DOMAIN s.worker
    /\ \A v \in DOMAIN s.worker \ {w} : t.worker[v] = s.worker[v]

LEMMA WorkerPut ==
    ASSUME NEW s, s \in State, NEW w \in DOMAIN s.worker
    PROVE  /\ s.worker[w] \in WorkerType
           /\ \A me \in WorkerType :
                 /\ [s.worker EXCEPT ![w] = me] \in WorkersType
                 /\ DOMAIN [s.worker EXCEPT ![w] = me] = DOMAIN s.worker
<1>1. PICK n \in Nat : s.worker \in [1..n -> WorkerType]
  BY Fields DEF WorkersType
<1> QED
  BY <1>1 DEF WorkersType

LEMMA Positions ==
    ASSUME NEW s, s \in State, JobKept(s)
    PROVE  /\ DOMAIN s.worker = 1..s.job.workers /\ s.job.workers \in Nat
           /\ DOMAIN Batches(s) = 1..Len(Batches(s)) /\ Len(Batches(s)) \in Nat
           /\ \A b \in DOMAIN Batches(s) : Batches(s)[b] \in Seq(Nat \ {0})
           /\ s.job \in JobType
           /\ s.got \in [DOMAIN s.got -> Int] /\ DOMAIN s.got \in SUBSET Nat
<1>1. s.job \in JobType /\ s.got \in GotType
  BY Fields
<1>2. Batches(s) \in Seq(Seq(Nat \ {0}))
  BY <1>1, JobFields DEF Batches
<1>3. PICK D \in SUBSET Nat : s.got \in [D -> Int]
  BY <1>1 DEF GotType
<1>4. s.got \in [DOMAIN s.got -> Int] /\ DOMAIN s.got \in SUBSET Nat
  BY <1>3
<1>5. DOMAIN Batches(s) = 1..Len(Batches(s)) /\ Len(Batches(s)) \in Nat
  BY <1>2
<1>6. \A b \in DOMAIN Batches(s) : Batches(s)[b] \in Seq(Nat \ {0})
  BY <1>2
<1>7. DOMAIN s.worker = 1..s.job.workers /\ s.job.workers \in Nat
  BY <1>1, JobFields DEF JobKept
<1> QED
  BY <1>1, <1>4, <1>5, <1>6, <1>7
-----------------------------------------------------------------------------
(* What a call costs. *)

LEMMA FiniteOwing ==
    ASSUME NEW s, s \in State, JobKept(s)
    PROVE  IsFiniteSet(Owing(s)) /\ Cardinality(Owing(s)) \in Nat
<1>1. DOMAIN s.worker = 1..s.job.workers /\ s.job.workers \in Nat
  BY Positions
<1>2. IsFiniteSet(1..s.job.workers)
  BY <1>1, FS_Interval
<1>3. Owing(s) \in SUBSET (1..s.job.workers)
  BY <1>1 DEF Owing
<1>4. IsFiniteSet(Owing(s))
  BY <1>2, <1>3, FS_Subset
<1> QED
  BY <1>4, FS_CardinalityType

LEMMA OwingMoves ==
    ASSUME NEW s, s \in State, JobKept(s), NEW t, NEW w, OneMoves(s, t, w)
    PROVE  Cardinality(Owing(t)) =
               Cardinality(Owing(s)) + (IF t.worker[w].at \in Owes THEN 1 ELSE 0)
                                     - (IF s.worker[w].at \in Owes THEN 1 ELSE 0)
<1> DEFINE rest == Owing(s) \ {w}
<1>1. IsFiniteSet(Owing(s)) /\ Cardinality(Owing(s)) \in Nat
  BY FiniteOwing
<1>2. IsFiniteSet(rest)
  BY <1>1, FS_Subset
<1>3. Cardinality(rest) \in Nat /\ Cardinality(rest \union {w}) = Cardinality(rest) + 1
  BY <1>2, FS_AddElement, FS_CardinalityType
<1>4. Owing(s) = IF s.worker[w].at \in Owes THEN rest \union {w} ELSE rest
  BY DEF Owing, OneMoves
<1>5. Owing(t) = IF t.worker[w].at \in Owes THEN rest \union {w} ELSE rest
  BY DEF Owing, OneMoves
<1> HIDE DEF rest
<1> QED
  BY <1>3, <1>4, <1>5

LEMMA CountsMove ==
    ASSUME NEW s, s \in State, JobKept(s), CountsKept(s), NEW t, t \in State, NEW w, OneMoves(s, t, w),
           t.runtime.stats.attempts - t.runtime.stats.requests - t.runtime.stats.retries
               + (IF t.worker[w].at \in Owes THEN 1 ELSE 0)
             = s.runtime.stats.attempts - s.runtime.stats.requests - s.runtime.stats.retries
               + (IF s.worker[w].at \in Owes THEN 1 ELSE 0),
           Total(t.runtime.stats.failures) - t.runtime.stats.retries - t.runtime.stats.finalFailures
             = Total(s.runtime.stats.failures) - s.runtime.stats.retries - s.runtime.stats.finalFailures
    PROVE  CountsKept(t)
<1> DEFINE before == Cardinality(Owing(s))
           after == Cardinality(Owing(t))
           old == IF s.worker[w].at \in Owes THEN 1 ELSE 0
           new == IF t.worker[w].at \in Owes THEN 1 ELSE 0
           f == s.runtime.stats
           g == t.runtime.stats
<1>1. f \in StatsType /\ g \in StatsType
  BY Fields, RuntimeFields
<1>2. Total(f.failures) \in Nat /\ Total(g.failures) \in Nat
  BY <1>1, StatsFields DEF Total, FailureType
<1>3. before \in Nat
  BY FiniteOwing
<1>4. after = before + new - old
  BY OwingMoves
<1>5. /\ f.requests \in Nat /\ f.attempts \in Nat /\ f.retries \in Nat /\ f.finalFailures \in Nat
      /\ g.requests \in Nat /\ g.attempts \in Nat /\ g.retries \in Nat /\ g.finalFailures \in Nat
  BY <1>1, StatsFields
<1>6. f.attempts + before = f.requests + f.retries /\ Total(f.failures) = f.retries + f.finalFailures
  BY DEF CountsKept
<1>7. old \in Int /\ new \in Int
  OBVIOUS
<1>8. /\ g.attempts - g.requests - g.retries + new = f.attempts - f.requests - f.retries + old
      /\ Total(g.failures) - g.retries - g.finalFailures = Total(f.failures) - f.retries - f.finalFailures
  OBVIOUS
<1> HIDE DEF before, after, old, new, f, g
<1>9. g.attempts + after = g.requests + g.retries /\ Total(g.failures) = g.retries + g.finalFailures
  BY <1>2, <1>3, <1>4, <1>5, <1>6, <1>7, <1>8
<1> QED
  BY <1>9 DEF CountsKept, after, g

FailureKinds == {"rateLimited", "transientFailures", "permanentFailures", "budgetExhausted"}

LEMMA Recorded ==
    ASSUME NEW r, r \in RuntimeType, NEW kind \in FailureKinds, NEW c, c = Policy!recordFailure(r, kind)
    PROVE  /\ c \in RuntimeType
           /\ c = [r EXCEPT !.stats = c.stats]
           /\ c.stats = [r.stats EXCEPT !.failures = c.stats.failures]
           /\ Total(c.stats.failures) = Total(r.stats.failures) + 1
<1> DEFINE f == r.stats.failures
           g == [f EXCEPT ![kind] = f[kind] + 1]
<1>1. f \in FailureType /\ r.stats \in StatsType
  BY RuntimeFields, StatsFields
<1>2. g \in FailureType /\ Total(g) = Total(f) + 1
  BY <1>1 DEF FailureType, FailureKinds, Total
<1>3. c = [r EXCEPT !.stats = [r.stats EXCEPT !.failures = g]]
  BY DEF Policy!recordFailure
<1> HIDE DEF g
<1>4. [r.stats EXCEPT !.failures = g] \in StatsType /\ [r.stats EXCEPT !.failures = g].failures = g
  BY <1>1, <1>2 DEF StatsType
<1>5. c \in RuntimeType /\ c.stats = [r.stats EXCEPT !.failures = g]
  BY <1>3, <1>4 DEF RuntimeType
<1> QED
  BY <1>2, <1>3, <1>4, <1>5

\* A call that is tried again, and one that is not.
Again(r, kind) == [Policy!recordFailure(r, kind) EXCEPT !.stats.retries = @ + 1]
ForGood(r, kind) == [Policy!recordFailure(r, kind) EXCEPT !.stats.finalFailures = @ + 1]

LEMMA Retried ==
    ASSUME NEW r, r \in RuntimeType, NEW kind \in FailureKinds, NEW q, q = Again(r, kind)
    PROVE  /\ q \in RuntimeType /\ q.policy = r.policy /\ q.now = r.now /\ q.lastRequestAt = r.lastRequestAt
           /\ q.stats.requests = r.stats.requests /\ q.stats.attempts = r.stats.attempts
           /\ q.stats.estimatedTokens = r.stats.estimatedTokens
           /\ q.stats.retries = r.stats.retries + 1 /\ q.stats.finalFailures = r.stats.finalFailures
           /\ Total(q.stats.failures) = Total(r.stats.failures) + 1
<1> DEFINE c == Policy!recordFailure(r, kind)
<1>1. /\ c \in RuntimeType /\ c = [r EXCEPT !.stats = c.stats]
      /\ c.stats = [r.stats EXCEPT !.failures = c.stats.failures]
      /\ Total(c.stats.failures) = Total(r.stats.failures) + 1
  BY Recorded
<1>2. q = [c EXCEPT !.stats = [c.stats EXCEPT !.retries = c.stats.retries + 1]]
  BY DEF Again
<1> HIDE DEF c
<1>3. c.stats \in StatsType /\ r.stats \in StatsType
  BY <1>1, RuntimeFields
<1>4. [c.stats EXCEPT !.retries = c.stats.retries + 1] \in StatsType
  BY <1>3 DEF StatsType
<1>5. q \in RuntimeType /\ q.stats = [c.stats EXCEPT !.retries = c.stats.retries + 1]
      /\ q.policy = c.policy /\ q.now = c.now /\ q.lastRequestAt = c.lastRequestAt
  BY <1>1, <1>2, <1>4 DEF RuntimeType
<1>6. /\ q.stats.requests = c.stats.requests /\ q.stats.attempts = c.stats.attempts
      /\ q.stats.estimatedTokens = c.stats.estimatedTokens /\ q.stats.failures = c.stats.failures
      /\ q.stats.retries = c.stats.retries + 1 /\ q.stats.finalFailures = c.stats.finalFailures
  BY <1>3, <1>5 DEF StatsType
<1>7. c.policy = r.policy /\ c.now = r.now /\ c.lastRequestAt = r.lastRequestAt
  BY <1>1 DEF RuntimeType
<1>8. /\ c.stats.requests = r.stats.requests /\ c.stats.attempts = r.stats.attempts
      /\ c.stats.estimatedTokens = r.stats.estimatedTokens /\ c.stats.retries = r.stats.retries
      /\ c.stats.finalFailures = r.stats.finalFailures
  BY <1>1, <1>3 DEF StatsType
<1> QED
  BY <1>1, <1>5, <1>6, <1>7, <1>8

LEMMA FinallyFailed ==
    ASSUME NEW r, r \in RuntimeType, NEW kind \in FailureKinds, NEW q, q = ForGood(r, kind)
    PROVE  /\ q \in RuntimeType /\ q.policy = r.policy /\ q.now = r.now /\ q.lastRequestAt = r.lastRequestAt
           /\ q.stats.requests = r.stats.requests /\ q.stats.attempts = r.stats.attempts
           /\ q.stats.estimatedTokens = r.stats.estimatedTokens
           /\ q.stats.retries = r.stats.retries /\ q.stats.finalFailures = r.stats.finalFailures + 1
           /\ Total(q.stats.failures) = Total(r.stats.failures) + 1
<1> DEFINE c == Policy!recordFailure(r, kind)
<1>1. /\ c \in RuntimeType /\ c = [r EXCEPT !.stats = c.stats]
      /\ c.stats = [r.stats EXCEPT !.failures = c.stats.failures]
      /\ Total(c.stats.failures) = Total(r.stats.failures) + 1
  BY Recorded
<1>2. q = [c EXCEPT !.stats = [c.stats EXCEPT !.finalFailures = c.stats.finalFailures + 1]]
  BY DEF ForGood
<1> HIDE DEF c
<1>3. c.stats \in StatsType /\ r.stats \in StatsType
  BY <1>1, RuntimeFields
<1>4. [c.stats EXCEPT !.finalFailures = c.stats.finalFailures + 1] \in StatsType
  BY <1>3 DEF StatsType
<1>5. q \in RuntimeType /\ q.stats = [c.stats EXCEPT !.finalFailures = c.stats.finalFailures + 1]
      /\ q.policy = c.policy /\ q.now = c.now /\ q.lastRequestAt = c.lastRequestAt
  BY <1>1, <1>2, <1>4 DEF RuntimeType
<1>6. /\ q.stats.requests = c.stats.requests /\ q.stats.attempts = c.stats.attempts
      /\ q.stats.estimatedTokens = c.stats.estimatedTokens /\ q.stats.failures = c.stats.failures
      /\ q.stats.retries = c.stats.retries /\ q.stats.finalFailures = c.stats.finalFailures + 1
  BY <1>3, <1>5 DEF StatsType
<1>7. c.policy = r.policy /\ c.now = r.now /\ c.lastRequestAt = r.lastRequestAt
  BY <1>1 DEF RuntimeType
<1>8. /\ c.stats.requests = r.stats.requests /\ c.stats.attempts = r.stats.attempts
      /\ c.stats.estimatedTokens = r.stats.estimatedTokens /\ c.stats.retries = r.stats.retries
      /\ c.stats.finalFailures = r.stats.finalFailures
  BY <1>1, <1>3 DEF StatsType
<1> QED
  BY <1>1, <1>5, <1>6, <1>7, <1>8

\* A step that makes no request.
LEMMA SpacingMoves ==
    ASSUME NEW s, s \in State, SpacingKept(s), NEW t, NEW w, OneMoves(s, t, w),
           t.worker[w].at # "spacing", t.closest = s.closest,
           t.runtime.now = s.runtime.now, t.runtime.lastRequestAt = s.runtime.lastRequestAt,
           \/ t.gate = s.gate \/ t.gate = Append(s.gate, w)
           \/ s.gate # <<>> /\ Head(s.gate) = w
    PROVE  SpacingKept(t)
<1>1. ASSUME NEW v \in DOMAIN t.worker, t.worker[v].at = "spacing"
      PROVE  /\ t.gate # <<>> /\ Head(t.gate) = v
             /\ t.worker[v].wake >= t.runtime.lastRequestAt + t.job.policy.minDelay
  <2>1. v \in DOMAIN s.worker \ {w} /\ t.worker[v] = s.worker[v]
    BY <1>1 DEF OneMoves
  <2>2. /\ s.gate # <<>> /\ Head(s.gate) = v
        /\ s.worker[v].wake >= s.runtime.lastRequestAt + s.job.policy.minDelay
    BY <1>1, <2>1 DEF SpacingKept
  <2>3. s.gate \in Seq(Nat)
    BY Fields
  <2>4. t.gate = s.gate \/ t.gate = Append(s.gate, w)
    BY <2>1, <2>2
  <2>5. t.gate # <<>> /\ Head(t.gate) = v
    <3>1. CASE t.gate = s.gate
      BY <2>2, <3>1
    <3>2. CASE t.gate = Append(s.gate, w)
      BY <2>2, <2>3, <3>2
    <3> QED
      BY <2>4, <3>1, <3>2
  <2> QED
    BY <2>1, <2>2, <2>5 DEF OneMoves
<1> QED
  BY <1>1 DEF SpacingKept, OneMoves

LEMMA BudgetMoves ==
    ASSUME NEW s, BudgetKept(s), NEW t, NEW w, OneMoves(s, t, w),
           t.worker[w].attempt <= s.job.policy.maxRetries + 1,
           t.runtime.stats.requests = s.runtime.stats.requests,
           t.runtime.stats.estimatedTokens = s.runtime.stats.estimatedTokens
    PROVE  BudgetKept(t)
BY DEF BudgetKept, OneMoves

\* The same for all of the policy, when a step asks nothing of the provider.
LEMMA PolicyMoves ==
    ASSUME NEW s, s \in State, JobKept(s), PolicyKept(s), NEW t, t \in State, NEW w, OneMoves(s, t, w),
           t.worker[w].at # "spacing", t.worker[w].attempt <= s.job.policy.maxRetries + 1, t.closest = s.closest,
           t.runtime.now = s.runtime.now, t.runtime.lastRequestAt = s.runtime.lastRequestAt,
           t.runtime.stats.requests = s.runtime.stats.requests,
           t.runtime.stats.estimatedTokens = s.runtime.stats.estimatedTokens,
           \/ t.gate = s.gate \/ t.gate = Append(s.gate, w)
           \/ s.gate # <<>> /\ Head(s.gate) = w,
           t.runtime.stats.attempts - t.runtime.stats.requests - t.runtime.stats.retries
               + (IF t.worker[w].at \in Owes THEN 1 ELSE 0)
             = s.runtime.stats.attempts - s.runtime.stats.requests - s.runtime.stats.retries
               + (IF s.worker[w].at \in Owes THEN 1 ELSE 0),
           Total(t.runtime.stats.failures) - t.runtime.stats.retries - t.runtime.stats.finalFailures
             = Total(s.runtime.stats.failures) - s.runtime.stats.retries - s.runtime.stats.finalFailures
    PROVE  PolicyKept(t)
<1>1. BudgetKept(s) /\ SpacingKept(s) /\ CountsKept(s)
  BY DEF PolicyKept
<1>2. BudgetKept(t)
  BY <1>1, BudgetMoves
<1>3. SpacingKept(t)
  BY <1>1, SpacingMoves
<1>4. CountsKept(t)
  BY <1>1, CountsMove
<1> QED
  BY <1>2, <1>3, <1>4 DEF PolicyKept

LEMMA JobMoves ==
    ASSUME NEW s, JobKept(s), NEW t, NEW w, OneMoves(s, t, w), t.runtime.policy = s.runtime.policy,
           DOMAIN t.got = DOMAIN s.got, t.cursor \in 1..(Len(Batches(s)) + 1)
    PROVE  JobKept(t)
BY DEF JobKept, OneMoves, Batches
-----------------------------------------------------------------------------
(* What a batch gets. *)

LEMMA HeldMoves ==
    ASSUME NEW s, s \in State, HeldKept(s), NEW t, t \in State, NEW w, OneMoves(s, t, w),
           t.cursor >= s.cursor,
           JobKept(s), HeldAt(t, w)
    PROVE  HeldKept(t)
<1>1. ASSUME NEW v \in DOMAIN t.worker, v # w
      PROVE  HeldAt(t, v)
  <2>1. v \in DOMAIN s.worker /\ t.worker[v] = s.worker[v] /\ HeldAt(s, v) /\ t.job = s.job
    BY <1>1 DEF OneMoves, HeldKept
  <2>2. s.cursor \in Nat /\ t.cursor \in Nat
    BY Fields
  <2>3. DOMAIN Batches(s) = 1..Len(Batches(s)) /\ Len(Batches(s)) \in Nat
    BY Positions
  <2> QED
    BY <2>1, <2>2, <2>3 DEF HeldAt, Holds, Answer, Batches
<1> QED
  BY <1>1 DEF HeldKept

\* Who has what: the text of a task names its batch.
LEMMA TaskTexts ==
    ASSUME NEW s, s \in State, JobKept(s), s.job.kind # "embeddings", NEW b \in DOMAIN Batches(s)
    PROVE  /\ TextsOf(Batches(s)[b]) = {Batches(s)[b][1]}
           /\ Batches(s)[b] = <<Batches(s)[b][1]>>
           /\ Batches(s)[b][1] \in DOMAIN s.got
<1>1. Batches(s)[b] \in Seq(Nat \ {0}) /\ Len(Batches(s)[b]) = 1
  BY Positions DEF JobKept
<1>2. DOMAIN Batches(s)[b] = {1}
  BY <1>1
<1>3. TextsOf(Batches(s)[b]) = {Batches(s)[b][1]}
  BY <1>2 DEF TextsOf
<1>4. Batches(s)[b] = <<Batches(s)[b][1]>>
  BY <1>1
<1>5. Batches(s)[b][1] \in DOMAIN s.got
  BY <1>3 DEF JobKept
<1> QED
  BY <1>3, <1>4, <1>5

\* A worker keeps its batch.
LEMMA Stays ==
    ASSUME NEW s, s \in State, JobKept(s), ServiceKept(s), NEW t, t \in State, NEW w, OneMoves(s, t, w),
           Holds(s, w), Holds(t, w), t.worker[w].batch = s.worker[w].batch, HeldAt(t, w),
           t.cursor = s.cursor, t.got = s.got, t.failed = s.failed, t.lost = s.lost, t.at = s.at
    PROVE  ServiceKept(t)
<1>1. HeldKept(s) /\ OnceKept(s) /\ ServedKept(s)
  BY DEF ServiceKept
<1>2. s.cursor \in Nat
  BY Fields
<1>3. HeldKept(t)
  BY <1>1, <1>2, HeldMoves
<1>4. Batches(t) = Batches(s) /\ t.job = s.job /\ DOMAIN t.worker = DOMAIN s.worker
  BY DEF Batches, OneMoves
<1>5. \A v \in DOMAIN s.worker : (Holds(t, v) <=> Holds(s, v)) /\ t.worker[v].batch = s.worker[v].batch
  BY <1>4 DEF Holds, OneMoves
<1>6. OnceKept(t)
  BY <1>1, <1>4, <1>5 DEF OnceKept, Untouched
<1>7. \A x : Pending(s, x) => Pending(t, x)
  BY <1>4, <1>5 DEF Pending
<1>8. \A x : Right(t, x) = Right(s, x)
  BY <1>4 DEF Right, Answer
<1>9. \A v \in DOMAIN s.worker : t.worker[v].at = "ended" => s.worker[v].at = "ended"
  BY DEF OneMoves, Holds, Holding, Stages
<1>10. ServedKept(t)
  BY <1>1, <1>4, <1>7, <1>8, <1>9 DEF ServedKept
<1> QED
  BY <1>3, <1>6, <1>10 DEF ServiceKept

LEMMA StaysSame ==
    ASSUME NEW s, s \in State, JobKept(s), ServiceKept(s), NEW t, t \in State, NEW w, OneMoves(s, t, w),
           Holds(s, w), t.worker[w].at \in Holding, t.worker[w].batch = s.worker[w].batch,
           t.worker[w].todo = s.worker[w].todo, t.worker[w].answers = s.worker[w].answers,
           t.cursor = s.cursor, t.got = s.got, t.failed = s.failed, t.lost = s.lost, t.at = s.at
    PROVE  ServiceKept(t)
<1>1. Holds(t, w) /\ HeldAt(s, w)
  BY DEF Holds, OneMoves, ServiceKept, HeldKept
<1>2. HeldAt(t, w)
  BY <1>1 DEF HeldAt, Tiled, Answer, Batches, OneMoves
<1> QED
  BY <1>1, <1>2, Stays

\* A worker takes the next batch.
LEMMA Takes ==
    ASSUME NEW s, s \in State, JobKept(s), ServiceKept(s), NEW t, t \in State, NEW w, OneMoves(s, t, w),
           ~Holds(s, w), Holds(t, w), t.worker[w].batch = Batches(s)[s.cursor], HeldAt(t, w),
           s.cursor <= Len(Batches(s)), s.worker[w].at # "ended",
           t.cursor = s.cursor + 1, t.got = s.got, t.failed = s.failed, t.lost = s.lost, t.at = s.at
    PROVE  ServiceKept(t)
<1>1. HeldKept(s) /\ OnceKept(s) /\ ServedKept(s)
  BY DEF ServiceKept
<1>2. s.cursor \in Nat /\ s.cursor \in DOMAIN Batches(s) /\ DOMAIN Batches(s) = 1..Len(Batches(s))
      /\ Len(Batches(s)) \in Nat
  BY Fields, Positions DEF JobKept
<1>3. HeldKept(t)
  BY <1>1, <1>2, HeldMoves
<1>4. Batches(t) = Batches(s) /\ t.job = s.job /\ DOMAIN t.worker = DOMAIN s.worker
  BY DEF Batches, OneMoves
<1>5. \A v \in DOMAIN s.worker \ {w} : (Holds(t, v) <=> Holds(s, v)) /\ t.worker[v] = s.worker[v]
  BY <1>4 DEF Holds, OneMoves
<1>6. ASSUME s.job.kind = "summaries"
      PROVE  /\ \A v \in DOMAIN t.worker : Holds(t, v) =>
                   /\ Untouched(t, t.worker[v].batch)
                   /\ \A u \in DOMAIN t.worker : Holds(t, u) /\ t.worker[u].batch = t.worker[v].batch => u = v
             /\ \A b \in DOMAIN Batches(t) : b >= t.cursor => Untouched(t, Batches(t)[b])
             /\ \A x \in t.failed : x \in DOMAIN t.got /\ t.got[x] = NOTHING
  <2>1. \A batch : Untouched(t, batch) <=> Untouched(s, batch)
    BY DEF Untouched
  <2>2. \A b \in DOMAIN Batches(t) : b >= t.cursor => Untouched(t, Batches(t)[b])
    BY <1>1, <1>2, <1>4, <1>6, <2>1 DEF OnceKept
  <2>3. \A x \in t.failed : x \in DOMAIN t.got /\ t.got[x] = NOTHING
    BY <1>1, <1>6 DEF OnceKept
  <2>4. Untouched(t, t.worker[w].batch)
    BY <1>1, <1>2, <1>6, <2>1 DEF OnceKept
  <2>5. \A v \in DOMAIN s.worker \ {w} : Holds(s, v) => s.worker[v].batch # Batches(s)[s.cursor]
    BY <1>1, <1>2, <1>6 DEF HeldKept, HeldAt, JobKept
  <2>6. \A v \in DOMAIN s.worker \ {w} : Holds(s, v) =>
            /\ Untouched(s, s.worker[v].batch)
            /\ \A u \in DOMAIN s.worker : Holds(s, u) /\ s.worker[u].batch = s.worker[v].batch => u = v
    BY <1>1, <1>6 DEF OnceKept
  <2>7. \A v \in DOMAIN t.worker : Holds(t, v) => Untouched(t, t.worker[v].batch)
    BY <1>4, <1>5, <2>1, <2>4, <2>6
  <2>8. \A v, u \in DOMAIN t.worker :
            Holds(t, v) /\ Holds(t, u) /\ t.worker[u].batch = t.worker[v].batch => u = v
    BY <1>4, <1>5, <2>5, <2>6
  <2> QED
    BY <2>2, <2>3, <2>7, <2>8
<1>7. OnceKept(t)
  BY <1>1, <1>4, <1>6 DEF OnceKept
<1>8. ASSUME NEW x, Pending(s, x)
      PROVE  Pending(t, x)
  <2>1. CASE \E b \in DOMAIN Batches(s) : b >= s.cursor /\ x \in TextsOf(Batches(s)[b])
    <3>1. PICK b \in DOMAIN Batches(s) : b >= s.cursor /\ x \in TextsOf(Batches(s)[b])
      BY <2>1
    <3>2. CASE b = s.cursor
      BY <1>4, <3>1, <3>2 DEF Pending, OneMoves
    <3>3. CASE b # s.cursor
      BY <1>2, <1>4, <3>1, <3>3 DEF Pending
    <3> QED
      BY <3>2, <3>3
  <2>2. CASE \E v \in DOMAIN s.worker : Holds(s, v) /\ x \in TextsOf(s.worker[v].batch)
    BY <1>4, <1>5, <2>2 DEF Pending
  <2> QED
    BY <1>8, <2>1, <2>2 DEF Pending
<1>9. \A x : Right(t, x) = Right(s, x)
  BY <1>4 DEF Right, Answer
<1>10. \A v \in DOMAIN t.worker : t.worker[v].at # "ended" \/ s.at # "running"
  <2>1. t.worker[w].at # "ended"
    BY DEF Holds, Holding
  <2>2. \A v \in DOMAIN s.worker : s.at = "running" /\ s.worker[v].at = "ended" => s.cursor = Len(Batches(s)) + 1
    BY <1>1 DEF ServedKept
  <2> QED
    BY <1>2, <1>4, <1>5, <2>1, <2>2
<1>11. ServedKept(t)
  BY <1>1, <1>4, <1>8, <1>9, <1>10 DEF ServedKept
<1> QED
  BY <1>3, <1>7, <1>11 DEF ServiceKept

\* There is no batch left for a worker.
LEMMA TakesNone ==
    ASSUME NEW s, s \in State, JobKept(s), ServiceKept(s), NEW t, t \in State, NEW w, OneMoves(s, t, w),
           ~Holds(s, w), t.worker[w].at = "ended", s.cursor > Len(Batches(s)),
           t.cursor = s.cursor, t.got = s.got, t.failed = s.failed, t.lost = s.lost, t.at = s.at
    PROVE  ServiceKept(t)
<1>1. HeldKept(s) /\ OnceKept(s) /\ ServedKept(s)
  BY DEF ServiceKept
<1>2. s.cursor \in Nat /\ Len(Batches(s)) \in Nat /\ s.cursor = Len(Batches(s)) + 1
  BY Fields, Positions DEF JobKept
<1>3. ~Holds(t, w)
  BY DEF Holds, Holding
<1>4. Batches(t) = Batches(s) /\ t.job = s.job /\ DOMAIN t.worker = DOMAIN s.worker
  BY DEF Batches, OneMoves
<1>5. \A v \in DOMAIN s.worker : (Holds(t, v) <=> Holds(s, v)) /\ (Holds(s, v) => t.worker[v] = s.worker[v])
  BY <1>3, <1>4 DEF Holds, OneMoves
<1>6. HeldAt(t, w)
  BY <1>3 DEF HeldAt
<1>7. HeldKept(t)
  BY <1>1, <1>2, <1>6, HeldMoves
<1>8. OnceKept(t)
  BY <1>1, <1>4, <1>5 DEF OnceKept, Untouched
<1>9. \A x : Pending(s, x) => Pending(t, x)
  BY <1>4, <1>5 DEF Pending
<1>10. \A x : Right(t, x) = Right(s, x)
  BY <1>4 DEF Right, Answer
<1>11. ServedKept(t)
  BY <1>1, <1>2, <1>4, <1>9, <1>10 DEF ServedKept
<1> QED
  BY <1>7, <1>8, <1>11 DEF ServiceKept

\* A worker lets its batch go.
LEMMA Lets ==
    ASSUME NEW s, s \in State, JobKept(s), ServiceKept(s), NEW t, t \in State, NEW w, OneMoves(s, t, w),
           Holds(s, w), ~Holds(t, w), t.cursor = s.cursor
    PROVE  /\ HeldKept(t) /\ Batches(t) = Batches(s) /\ t.job = s.job /\ DOMAIN t.worker = DOMAIN s.worker
           /\ \A v \in DOMAIN s.worker \ {w} : (Holds(t, v) <=> Holds(s, v)) /\ t.worker[v] = s.worker[v]
           /\ \A x : Right(t, x) = Right(s, x) \/ t.failed # s.failed
           /\ \A x : Pending(s, x) => Pending(t, x) \/ x \in TextsOf(s.worker[w].batch)
<1>1. Batches(t) = Batches(s) /\ t.job = s.job /\ DOMAIN t.worker = DOMAIN s.worker
  BY DEF Batches, OneMoves
<1>2. \A v \in DOMAIN s.worker \ {w} : (Holds(t, v) <=> Holds(s, v)) /\ t.worker[v] = s.worker[v]
  BY <1>1 DEF Holds, OneMoves
<1>3. HeldAt(t, w)
  BY DEF HeldAt
<1>4. HeldKept(t)
  BY <1>3, Fields, HeldMoves DEF ServiceKept
<1>5. \A x : Right(t, x) = Right(s, x) \/ t.failed # s.failed
  BY <1>1 DEF Right, Answer
<1>6. \A x : Pending(s, x) => Pending(t, x) \/ x \in TextsOf(s.worker[w].batch)
  BY <1>1, <1>2 DEF Pending
<1> QED
  BY <1>1, <1>2, <1>4, <1>5, <1>6

\* Of the others' batches and of those to come, none has the text of this task.
LEMMA OthersTexts ==
    ASSUME NEW s, s \in State, JobKept(s), ServiceKept(s), NEW w \in DOMAIN s.worker, Holds(s, w),
           s.job.kind = "summaries"
    PROVE  /\ TextsOf(s.worker[w].batch) = {s.worker[w].batch[1]}
           /\ s.worker[w].batch[1] \in DOMAIN s.got
           /\ Untouched(s, s.worker[w].batch)
           /\ \A v \in DOMAIN s.worker \ {w} : Holds(s, v) => s.worker[v].batch[1] # s.worker[w].batch[1]
           /\ \A b \in DOMAIN Batches(s) : b >= s.cursor => Batches(s)[b][1] # s.worker[w].batch[1]
<1>1. HeldKept(s) /\ OnceKept(s)
  BY DEF ServiceKept
<1>2. \A v \in DOMAIN s.worker : Holds(s, v) =>
          \E b \in DOMAIN Batches(s) : b < s.cursor /\ s.worker[v].batch = Batches(s)[b]
  BY <1>1 DEF HeldKept, HeldAt
<1>3. PICK c \in DOMAIN Batches(s) : c < s.cursor /\ s.worker[w].batch = Batches(s)[c]
  BY <1>2
<1>4. s.job.kind # "embeddings"
  OBVIOUS
<1>5. \A b \in DOMAIN Batches(s) : Batches(s)[b] = <<Batches(s)[b][1]>>
  BY <1>4, TaskTexts
<1>6. TextsOf(s.worker[w].batch) = {s.worker[w].batch[1]} /\ s.worker[w].batch[1] \in DOMAIN s.got
  BY <1>3, <1>4, TaskTexts
<1>7. Untouched(s, s.worker[w].batch)
  BY <1>1 DEF OnceKept
<1>8. ASSUME NEW v \in DOMAIN s.worker \ {w}, Holds(s, v)
      PROVE  s.worker[v].batch[1] # s.worker[w].batch[1]
  <2>1. s.worker[v].batch # s.worker[w].batch
    BY <1>1, <1>8 DEF OnceKept
  <2>2. PICK b \in DOMAIN Batches(s) : s.worker[v].batch = Batches(s)[b]
    BY <1>2, <1>8
  <2> QED
    BY <1>3, <1>5, <2>1, <2>2
<1>9. ASSUME NEW b \in DOMAIN Batches(s), b >= s.cursor
      PROVE  Batches(s)[b][1] # s.worker[w].batch[1]
  <2>1. b # c
    BY <1>3, <1>9, Fields, Positions
  <2>2. Batches(s)[b] # Batches(s)[c]
    BY <2>1 DEF JobKept
  <2> QED
    BY <1>3, <1>5, <2>2
<1> QED
  BY <1>6, <1>7, <1>8, <1>9

\* The batch is answered.
LEMMA Serves ==
    ASSUME NEW s, s \in State, JobKept(s), ServiceKept(s), NEW t, t \in State, NEW w, OneMoves(s, t, w),
           Holds(s, w), t.worker[w].at = "free", t.cursor = s.cursor, t.failed = s.failed, t.lost = s.lost,
           t.at = s.at, DOMAIN t.got = DOMAIN s.got,
           \A x \in DOMAIN s.got : x \in TextsOf(s.worker[w].batch) => t.got[x] \in Right(s, x),
           \A x \in DOMAIN s.got : x \notin TextsOf(s.worker[w].batch) => t.got[x] = s.got[x]
    PROVE  ServiceKept(t)
<1>1. HeldKept(s) /\ OnceKept(s) /\ ServedKept(s)
  BY DEF ServiceKept
<1>2. ~Holds(t, w)
  BY DEF Holds, Holding
<1>3. /\ HeldKept(t) /\ Batches(t) = Batches(s) /\ t.job = s.job /\ DOMAIN t.worker = DOMAIN s.worker
      /\ \A v \in DOMAIN s.worker \ {w} : (Holds(t, v) <=> Holds(s, v)) /\ t.worker[v] = s.worker[v]
      /\ \A x : Right(t, x) = Right(s, x)
      /\ \A x : Pending(s, x) => Pending(t, x) \/ x \in TextsOf(s.worker[w].batch)
  BY <1>2, Lets
<1>4. ASSUME s.job.kind = "summaries"
      PROVE  /\ \A v \in DOMAIN t.worker : Holds(t, v) =>
                   /\ Untouched(t, t.worker[v].batch)
                   /\ \A u \in DOMAIN t.worker : Holds(t, u) /\ t.worker[u].batch = t.worker[v].batch => u = v
             /\ \A b \in DOMAIN Batches(t) : b >= t.cursor => Untouched(t, Batches(t)[b])
             /\ \A x \in t.failed : x \in DOMAIN t.got /\ t.got[x] = NOTHING
  <2> DEFINE mine == s.worker[w].batch[1]
  <2>1. /\ TextsOf(s.worker[w].batch) = {mine} /\ mine \in DOMAIN s.got
        /\ Untouched(s, s.worker[w].batch)
        /\ \A v \in DOMAIN s.worker \ {w} : Holds(s, v) => s.worker[v].batch[1] # mine
        /\ \A b \in DOMAIN Batches(s) : b >= s.cursor => Batches(s)[b][1] # mine
    BY <1>4, OthersTexts DEF OneMoves
  <2>2. \A x \in DOMAIN s.got : x # mine => t.got[x] = s.got[x]
    BY <2>1
  <2>3. \A b \in DOMAIN Batches(s) : Batches(s)[b][1] \in DOMAIN s.got
    BY <1>4, TaskTexts
  <2>4. \A v \in DOMAIN s.worker : Holds(s, v) => s.worker[v].batch[1] \in DOMAIN s.got
    BY <1>1, <2>3 DEF HeldKept, HeldAt
  <2>5. \A v \in DOMAIN s.worker \ {w} : Holds(s, v) => Untouched(t, s.worker[v].batch)
    BY <1>1, <1>4, <2>1, <2>2, <2>4 DEF OnceKept, Untouched
  <2>6. \A b \in DOMAIN Batches(s) : b >= s.cursor => Untouched(t, Batches(s)[b])
    BY <1>1, <1>4, <2>1, <2>2, <2>3 DEF OnceKept, Untouched
  <2>7. mine \notin s.failed
    BY <2>1 DEF Untouched
  <2>8. \A x \in s.failed : x \in DOMAIN s.got /\ s.got[x] = NOTHING /\ x # mine
    BY <1>1, <1>4, <2>7 DEF OnceKept
  <2>9. \A x \in t.failed : x \in DOMAIN t.got /\ t.got[x] = NOTHING
    BY <1>1, <1>4, <2>2, <2>8
  <2>10. \A v, u \in DOMAIN s.worker :
             Holds(s, v) /\ Holds(s, u) /\ s.worker[u].batch = s.worker[v].batch => u = v
    BY <1>1, <1>4 DEF OnceKept
  <2>11. \A v \in DOMAIN t.worker : Holds(t, v) => Untouched(t, t.worker[v].batch)
    BY <1>2, <1>3, <2>5
  <2>12. \A v, u \in DOMAIN t.worker :
             Holds(t, v) /\ Holds(t, u) /\ t.worker[u].batch = t.worker[v].batch => u = v
    BY <1>2, <1>3, <2>10
  <2> QED
    BY <1>3, <2>6, <2>9, <2>11, <2>12
<1>5. OnceKept(t)
  BY <1>1, <1>3, <1>4 DEF OnceKept
<1>6. \A v \in DOMAIN t.worker : t.worker[v].at = "ended" => s.worker[v].at = "ended"
  BY <1>3
<1>7. ASSUME s.at = "running", NEW x \in DOMAIN t.got
      PROVE  t.got[x] \in Right(t, x) \/ Pending(t, x)
  <2>1. CASE x \in TextsOf(s.worker[w].batch)
    BY <1>3, <2>1
  <2>2. CASE x \notin TextsOf(s.worker[w].batch)
    BY <1>1, <1>3, <1>7, <2>2 DEF ServedKept
  <2> QED
    BY <2>1, <2>2
<1>8. ServedKept(t)
  BY <1>1, <1>3, <1>6, <1>7 DEF ServedKept
<1> QED
  BY <1>3, <1>5, <1>8 DEF ServiceKept

\* The summaries of the batch have failed.
LEMMA Loses ==
    ASSUME NEW s, s \in State, JobKept(s), ServiceKept(s), NEW t, t \in State, NEW w, OneMoves(s, t, w),
           s.job.kind = "summaries", Holds(s, w), t.worker[w].at = "free", t.cursor = s.cursor, t.at = s.at,
           t.failed = s.failed \union TextsOf(s.worker[w].batch), t.lost = s.lost + 1, t.got = s.got
    PROVE  ServiceKept(t)
<1> DEFINE mine == s.worker[w].batch[1]
<1>1. HeldKept(s) /\ OnceKept(s) /\ ServedKept(s)
  BY DEF ServiceKept
<1>2. ~Holds(t, w)
  BY DEF Holds, Holding
<1>3. /\ HeldKept(t) /\ Batches(t) = Batches(s) /\ t.job = s.job /\ DOMAIN t.worker = DOMAIN s.worker
      /\ \A v \in DOMAIN s.worker \ {w} : (Holds(t, v) <=> Holds(s, v)) /\ t.worker[v] = s.worker[v]
      /\ \A x : Pending(s, x) => Pending(t, x) \/ x \in TextsOf(s.worker[w].batch)
  BY <1>2, Lets
<1>4. /\ TextsOf(s.worker[w].batch) = {mine} /\ mine \in DOMAIN s.got
      /\ Untouched(s, s.worker[w].batch)
      /\ \A v \in DOMAIN s.worker \ {w} : Holds(s, v) => s.worker[v].batch[1] # mine
      /\ \A b \in DOMAIN Batches(s) : b >= s.cursor => Batches(s)[b][1] # mine
  BY OthersTexts DEF OneMoves
<1>5. s.got[mine] = NOTHING /\ mine \notin s.failed
  BY <1>4 DEF Untouched
<1>6. t.failed = s.failed \union {mine}
  BY <1>4
<1>7. IsFiniteSet(t.failed) /\ t.lost = Cardinality(t.failed)
  <2>1. IsFiniteSet(s.failed) /\ s.lost = Cardinality(s.failed)
    BY <1>1 DEF OnceKept
  <2> DEFINE before == s.failed
             more == before \union {mine}
  <2>2. IsFiniteSet(before) /\ mine \notin before /\ t.failed = more /\ t.lost = Cardinality(before) + 1
    BY <1>5, <1>6, <2>1
  <2> HIDE DEF before, mine
  <2>3. IsFiniteSet(more) /\ Cardinality(more) = IF mine \in before THEN Cardinality(before) ELSE Cardinality(before) + 1
    BY <2>2, FS_AddElement
  <2> HIDE DEF more
  <2> QED
    BY <2>2, <2>3
<1>8. \A x \in t.failed : x \in DOMAIN t.got /\ t.got[x] = NOTHING
  BY <1>1, <1>4, <1>5, <1>6 DEF OnceKept
<1>9. \A v \in DOMAIN s.worker \ {w} : Holds(s, v) => Untouched(t, s.worker[v].batch)
  BY <1>1, <1>4, <1>6 DEF OnceKept, Untouched
<1>10. \A b \in DOMAIN Batches(s) : b >= s.cursor => Untouched(t, Batches(s)[b])
  BY <1>1, <1>4, <1>6 DEF OnceKept, Untouched
<1>11. \A v, u \in DOMAIN s.worker :
           Holds(s, v) /\ Holds(s, u) /\ s.worker[u].batch = s.worker[v].batch => u = v
  BY <1>1 DEF OnceKept
<1>12. \A v \in DOMAIN t.worker : Holds(t, v) => Untouched(t, t.worker[v].batch)
  BY <1>2, <1>3, <1>9
<1>13. \A v, u \in DOMAIN t.worker :
           Holds(t, v) /\ Holds(t, u) /\ t.worker[u].batch = t.worker[v].batch => u = v
  BY <1>2, <1>3, <1>11
<1>14. OnceKept(t)
  BY <1>3, <1>7, <1>8, <1>10, <1>12, <1>13 DEF OnceKept
<1>15. \A v \in DOMAIN t.worker : t.worker[v].at = "ended" => s.worker[v].at = "ended"
  BY <1>3
<1>16. ASSUME s.at = "running", NEW x \in DOMAIN t.got
       PROVE  t.got[x] \in Right(t, x) \/ Pending(t, x)
  <2>1. CASE x = mine
    BY <1>3, <1>5, <1>6, <2>1 DEF Right
  <2>2. CASE x # mine
    <3>1. Right(t, x) = Right(s, x)
      BY <1>3, <1>6, <2>2 DEF Right, Answer
    <3>2. s.got[x] \in Right(s, x) \/ Pending(s, x)
      BY <1>1, <1>16 DEF ServedKept
    <3> QED
      BY <1>3, <1>4, <2>2, <3>1, <3>2
  <2> QED
    BY <2>1, <2>2
<1>17. ServedKept(t)
  BY <1>1, <1>3, <1>15, <1>16 DEF ServedKept
<1> QED
  BY <1>3, <1>14, <1>17 DEF ServiceKept

\* The phase is rejected, whatever its other workers still do.
LEMMA Rejects ==
    ASSUME NEW s, s \in State, JobKept(s), ServiceKept(s), NEW t, t \in State, NEW w, OneMoves(s, t, w),
           s.job.kind = "embeddings", Holds(s, w), t.worker[w].at = "ended", t.cursor = s.cursor,
           t.at = "rejected", t.failed = s.failed, t.lost = s.lost
    PROVE  ServiceKept(t)
<1>1. HeldKept(s) /\ OnceKept(s)
  BY DEF ServiceKept
<1>2. ~Holds(t, w)
  BY DEF Holds, Holding
<1>3. HeldKept(t) /\ t.job = s.job
  BY <1>2, Lets
<1>4. OnceKept(t)
  BY <1>1, <1>3 DEF OnceKept
<1>5. ServedKept(t)
  BY DEF ServedKept
<1> QED
  BY <1>3, <1>4, <1>5 DEF ServiceKept

\* Neither what was spent nor the gate has a part in it.
LEMMA ServiceReads ==
    ASSUME NEW s, ServiceKept(s), NEW t, t.at = s.at, t.job = s.job, t.cursor = s.cursor,
           t.worker = s.worker,
           t.got = s.got, t.failed = s.failed, t.lost = s.lost
    PROVE  ServiceKept(t)
<1>1. Batches(t) = Batches(s) /\ \A v : Holds(t, v) <=> Holds(s, v)
  BY DEF Batches, Holds
<1>2. \A x : Answer(t, x) = Answer(s, x)
  BY DEF Answer
<1>3. HeldKept(t)
  BY <1>1, <1>2 DEF ServiceKept, HeldKept, HeldAt
<1>4. \A batch : Untouched(t, batch) <=> Untouched(s, batch)
  BY DEF Untouched
<1>5. OnceKept(t)
  BY <1>1, <1>4 DEF ServiceKept, OnceKept
<1>6. \A x : Right(t, x) = Right(s, x) /\ (Pending(t, x) <=> Pending(s, x))
  BY <1>1, <1>2 DEF Right, Pending
<1>7. ServedKept(t)
  BY <1>1, <1>6 DEF ServiceKept, ServedKept
<1> QED
  BY <1>3, <1>5, <1>7 DEF ServiceKept
-----------------------------------------------------------------------------
(* The parts of a batch. *)

LEMMA WholeTiles ==
    ASSUME NEW batch \in Seq(Nat \ {0}), Len(batch) >= 1
    PROVE  Tiles(batch, <<batch>>, 0)
<1> DEFINE cuts == [k \in 1..(Len(<<batch>>) + 1) |-> IF k = 1 THEN 0 ELSE Len(batch)]
<1>1. cuts \in [1..(Len(<<batch>>) + 1) -> 0..Len(batch)]
  OBVIOUS
<1>2. Len(<<batch>>) = 1 /\ <<batch>>[1] = batch
  OBVIOUS
<1>3. cuts[1] = 0 /\ cuts[2] = Len(batch)
  BY <1>2
<1> HIDE DEF cuts
<1> QED
  BY <1>1, <1>2, <1>3 DEF Tiles

LEMMA NoTiles ==
    ASSUME NEW batch, NEW done, Tiles(batch, <<>>, done)
    PROVE  done = Len(batch)
BY DEF Tiles

LEMMA TailTiles ==
    ASSUME NEW batch \in Seq(Nat \ {0}), NEW todo \in Seq(Seq(Nat \ {0})), NEW done \in Nat,
           todo # <<>>, Tiles(batch, todo, done)
    PROVE  /\ Head(todo) \in Seq(Nat \ {0}) /\ Len(Head(todo)) >= 1
           /\ done + Len(Head(todo)) <= Len(batch)
           /\ \A i \in 1..Len(Head(todo)) : Head(todo)[i] = batch[done + i]
           /\ Tail(todo) \in Seq(Seq(Nat \ {0}))
           /\ Tiles(batch, Tail(todo), done + Len(Head(todo)))
<1>1. PICK cuts \in [1..(Len(todo) + 1) -> 0..Len(batch)] :
          /\ cuts[1] = done
          /\ cuts[Len(todo) + 1] = Len(batch)
          /\ \A k \in 1..Len(todo) :
                /\ Len(todo[k]) >= 1
                /\ cuts[k + 1] = cuts[k] + Len(todo[k])
                /\ \A i \in 1..Len(todo[k]) : todo[k][i] = batch[cuts[k] + i]
  BY DEF Tiles
<1> DEFINE rest == Tail(todo)
           later == [k \in 1..(Len(rest) + 1) |-> cuts[k + 1]]
<1>2. Head(todo) = todo[1] /\ Len(todo) \in Nat /\ Len(todo) >= 1 /\ todo[1] \in Seq(Nat \ {0}) /\ Len(batch) \in Nat
  OBVIOUS
<1>3. rest \in Seq(Seq(Nat \ {0})) /\ Len(rest) = Len(todo) - 1 /\ \A k \in 1..Len(rest) : rest[k] = todo[k + 1]
  BY HeadTailProperties
<1>4. \A k \in 1..(Len(todo) + 1) : cuts[k] \in 0..Len(batch)
  BY <1>1
<1>5. cuts[2] = done + Len(todo[1]) /\ cuts[2] <= Len(batch) /\ Len(todo[1]) >= 1
      /\ \A i \in 1..Len(todo[1]) : todo[1][i] = batch[done + i]
  <2>1. 1 \in 1..Len(todo) /\ 1 + 1 = 2 /\ 2 \in 1..(Len(todo) + 1)
    BY <1>2
  <2>2. /\ Len(todo[1]) >= 1 /\ cuts[2] = cuts[1] + Len(todo[1])
        /\ \A i \in 1..Len(todo[1]) : todo[1][i] = batch[cuts[1] + i]
    BY <1>1, <2>1
  <2>3. cuts[2] \in 0..Len(batch)
    BY <1>4, <2>1
  <2> QED
    BY <1>1, <1>2, <2>2, <2>3
<1> HIDE DEF rest
<1>6. later \in [1..(Len(rest) + 1) -> 0..Len(batch)]
  BY <1>2, <1>3, <1>4
<1>7. later[1] = done + Len(todo[1]) /\ later[Len(rest) + 1] = Len(batch)
  BY <1>1, <1>2, <1>3, <1>5
<1>8. ASSUME NEW k \in 1..Len(rest)
      PROVE  /\ Len(rest[k]) >= 1
             /\ later[k + 1] = later[k] + Len(rest[k])
             /\ \A i \in 1..Len(rest[k]) : rest[k][i] = batch[later[k] + i]
  <2>1. k + 1 \in 1..Len(todo) /\ k \in 1..(Len(rest) + 1) /\ k + 1 \in 1..(Len(rest) + 1) /\ rest[k] = todo[k + 1]
    BY <1>2, <1>3
  <2>2. later[k] = cuts[k + 1] /\ later[k + 1] = cuts[(k + 1) + 1]
    BY <2>1
  <2> QED
    BY <1>1, <2>1, <2>2
<1> HIDE DEF later
<1>9. Tiles(batch, rest, done + Len(todo[1]))
  BY <1>6, <1>7, <1>8 DEF Tiles
<1> QED
  BY <1>2, <1>3, <1>5, <1>9 DEF rest

LEMMA Halves ==
    ASSUME NEW head \in Seq(Nat \ {0}), Len(head) >= 1, Len(head) # 1
    PROVE  \E left, right \in Seq(Nat \ {0}) :
              /\ Split(head) = <<left, right>> /\ Len(left) >= 1 /\ Len(right) >= 1
              /\ Len(head) = Len(left) + Len(right)
              /\ \A i \in 1..Len(left) : left[i] = head[i]
              /\ \A i \in 1..Len(right) : right[i] = head[Len(left) + i]
<1> DEFINE n == Len(head)
           middle == (n + 1) \div 2
           left == SubSeq(head, 1, middle)
           right == SubSeq(head, middle + 1, n)
<1>0. n \in Nat
  OBVIOUS
<1>2. Split(head) = <<left, right>>
  BY DEF Split
<1>a. n >= 1 /\ n # 1
  OBVIOUS
<1> HIDE DEF n
<1>1. n \in Nat /\ n >= 2
  BY <1>0, <1>a
<1>3. middle \in Nat /\ middle >= 1 /\ middle < n
  BY <1>1
<1> HIDE DEF middle
<1>4. left \in Seq(Nat \ {0}) /\ Len(left) = middle /\ \A i \in 1..middle : left[i] = head[i]
  BY <1>3 DEF n
<1>5. right \in Seq(Nat \ {0}) /\ Len(right) = n - middle /\ \A i \in 1..(n - middle) : right[i] = head[middle + i]
  <2>1. middle + 1 \in 1..(n + 1) /\ n \in (middle + 1)..n /\ n - (middle + 1) + 1 = n - middle
    BY <1>1, <1>3
  <2>2. n = Len(head)
    BY DEF n
  <2>3. /\ right \in Seq(Nat \ {0}) /\ Len(right) = IF middle + 1 <= n THEN n - (middle + 1) + 1 ELSE 0
        /\ \A i \in 1..(n - (middle + 1) + 1) : right[i] = head[(middle + 1) + i - 1]
    <3>1. \A i \in (middle + 1)..n : head[i] \in Nat \ {0}
      BY <1>1, <1>3, <2>2
    <3>2. /\ right \in Seq(Nat \ {0}) /\ Len(right) = IF middle + 1 <= n THEN n - (middle + 1) + 1 ELSE 0
          /\ \A i \in 1..(n - (middle + 1) + 1) : SubSeq(head, middle + 1, n)[i] = head[(middle + 1) + i - 1]
      BY <1>1, <1>3, <3>1, SubSeqProperties DEF right
    <3> QED
      BY <3>2 DEF right
  <2>4. \A i \in 1..(n - middle) : (middle + 1) + i - 1 = middle + i
    BY <1>1, <1>3
  <2>5. Len(right) = n - middle
    BY <1>1, <1>3, <2>1, <2>3
  <2>6. ASSUME NEW i \in 1..(n - middle)
        PROVE  right[i] = head[middle + i]
    <3>1. right[i] = head[(middle + 1) + i - 1]
      BY <2>1, <2>3
    <3> QED
      BY <2>4, <3>1
  <2> HIDE DEF right
  <2> QED
    BY <2>3, <2>5, <2>6
<1> HIDE DEF left, right
<1>6. Len(left) >= 1 /\ Len(right) >= 1 /\ n = Len(left) + Len(right)
  BY <1>1, <1>3, <1>4, <1>5
<1>7. \A i \in 1..Len(right) : right[i] = head[Len(left) + i]
  BY <1>4, <1>5
<1>8. /\ Split(head) = <<left, right>> /\ Len(left) >= 1 /\ Len(right) >= 1
      /\ Len(head) = Len(left) + Len(right)
      /\ \A i \in 1..Len(left) : left[i] = head[i]
      /\ \A i \in 1..Len(right) : right[i] = head[Len(left) + i]
  BY <1>2, <1>4, <1>6, <1>7 DEF n
<1> QED
  BY <1>4, <1>5, <1>8

LEMMA PairAndRest ==
    ASSUME NEW S, NEW todo \in Seq(S), todo # <<>>, NEW left \in S, NEW right \in S,
           NEW parts, parts = <<left, right>> \o Tail(todo)
    PROVE  /\ parts \in Seq(S) /\ Len(parts) = Len(todo) + 1 /\ parts[1] = left /\ parts[2] = right
           /\ \A k \in 3..(Len(todo) + 1) : parts[k] = todo[k - 1]
<1> DEFINE pair == <<left, right>>
           rest == Tail(todo)
<1>1. pair \in Seq(S) /\ Len(pair) = 2 /\ pair[1] = left /\ pair[2] = right
  OBVIOUS
<1>2. rest \in Seq(S) /\ Len(rest) = Len(todo) - 1 /\ Len(todo) \in Nat /\ Len(todo) >= 1
      /\ \A k \in 1..(Len(todo) - 1) : rest[k] = todo[k + 1]
  OBVIOUS
<1>3. parts = pair \o rest
  OBVIOUS
<1> HIDE DEF pair, rest
<1>4. parts \in Seq(S) /\ Len(parts) = Len(pair) + Len(rest)
      /\ \A k \in 1..(Len(pair) + Len(rest)) : parts[k] = IF k <= Len(pair) THEN pair[k] ELSE rest[k - Len(pair)]
  BY <1>1, <1>2, <1>3, ConcatProperties
<1>5. parts[1] = left /\ parts[2] = right /\ Len(parts) = Len(todo) + 1
  BY <1>1, <1>2, <1>4
<1>6. ASSUME NEW k \in 3..(Len(todo) + 1)
      PROVE  parts[k] = todo[k - 1]
  <2>1. k \in 1..(Len(pair) + Len(rest)) /\ k - 2 \in 1..(Len(todo) - 1) /\ (k - 2) + 1 = k - 1 /\ ~(k <= 2)
    BY <1>1, <1>2
  <2>2. parts[k] = rest[k - 2]
    BY <1>1, <1>4, <2>1
  <2>3. rest[k - 2] = todo[(k - 2) + 1]
    BY <1>2, <2>1
  <2> QED
    BY <2>1, <2>2, <2>3
<1> QED
  BY <1>4, <1>5, <1>6

\* The first part of todo is left and right, and so they stand in parts.
Parted(todo, left, right, parts) ==
    /\ Len(left) >= 1 /\ Len(right) >= 1 /\ Len(todo[1]) = Len(left) + Len(right)
    /\ \A i \in 1..Len(left) : left[i] = todo[1][i]
    /\ \A i \in 1..Len(right) : right[i] = todo[1][Len(left) + i]
    /\ Len(parts) = Len(todo) + 1 /\ parts[1] = left /\ parts[2] = right
    /\ \A k \in 3..(Len(todo) + 1) : parts[k] = todo[k - 1]

LEMMA CutInTwo ==
    ASSUME NEW batch \in Seq(Nat \ {0}), NEW todo \in Seq(Seq(Nat \ {0})), NEW done \in Nat,
           todo # <<>>, Tiles(batch, todo, done),
           NEW left \in Seq(Nat \ {0}), NEW right \in Seq(Nat \ {0}), NEW parts, Parted(todo, left, right, parts)
    PROVE  Tiles(batch, parts, done)
<1> DEFINE n == Len(todo)
           a == Len(left)
           b == Len(right)
           c == Len(batch)
<1>1. PICK cuts \in [1..(n + 1) -> 0..c] :
          /\ cuts[1] = done
          /\ cuts[n + 1] = c
          /\ \A k \in 1..n :
                /\ Len(todo[k]) >= 1
                /\ cuts[k + 1] = cuts[k] + Len(todo[k])
                /\ \A i \in 1..Len(todo[k]) : todo[k][i] = batch[cuts[k] + i]
  BY DEF Tiles
<1>2. n \in Nat /\ a \in Nat /\ b \in Nat /\ c \in Nat
  BY LenProperties
<1>3. n >= 1 /\ a >= 1 /\ b >= 1
  <2>1. n # 0
    BY EmptySeq
  <2> QED
    BY <1>2, <2>1 DEF Parted
<1>4. /\ Len(todo[1]) = a + b
      /\ \A i \in 1..a : left[i] = todo[1][i]
      /\ \A i \in 1..b : right[i] = todo[1][a + i]
      /\ Len(parts) = n + 1 /\ Len(parts[1]) = a /\ Len(parts[2]) = b /\ parts[1] = left /\ parts[2] = right
      /\ \A k \in 3..(n + 1) : parts[k] = todo[k - 1]
  BY DEF Parted
<1> HIDE DEF n, a, b, c
<1>5. cuts[2] = done + (a + b) /\ \A i \in 1..(a + b) : todo[1][i] = batch[done + i]
  <2>1. 1 \in 1..n /\ 1 + 1 = 2
    BY <1>2, <1>3
  <2> QED
    BY <1>1, <1>4, <2>1
<1> DEFINE more == [k \in 1..(n + 2) |-> IF k = 1 THEN done ELSE IF k = 2 THEN done + a ELSE cuts[k - 1]]
<1> HIDE DEF more
<1>6.         /\ more \in [1..(n + 2) -> 0..c]
              /\ more[1] = done /\ more[2] = done + a /\ more[3] = done + (a + b) /\ more[n + 2] = c
              /\ \A k \in 2..n : more[k + 1] = cuts[k] /\ more[k + 2] = cuts[k + 1]
  <2>1. cuts \in [1..(n + 1) -> 0..c] /\ cuts[1] = done /\ cuts[n + 1] = c /\ cuts[2] = done + (a + b)
    BY <1>1, <1>5
  <2>2. more = [k \in 1..(n + 2) |-> IF k = 1 THEN done ELSE IF k = 2 THEN done + a ELSE cuts[k - 1]]
    BY DEF more
  <2>3. \A k \in 1..(n + 1) : cuts[k] \in 0..c
    BY <2>1
  <2>4. done \in 0..c /\ done + a \in 0..c
    <3>1. cuts[2] \in 0..c
      BY <1>2, <1>3, <2>3
    <3> QED
      BY <1>2, <1>3, <2>1, <3>1
  <2>5. \A k \in 1..(n + 2) : k # 1 /\ k # 2 => k - 1 \in 1..(n + 1)
    BY <1>2, <1>3
  <2>6. \A k \in 1..(n + 2) : (IF k = 1 THEN done ELSE IF k = 2 THEN done + a ELSE cuts[k - 1]) \in 0..c
    BY <1>2, <1>3, <2>3, <2>4, <2>5
  <2>7. more \in [1..(n + 2) -> 0..c]
    BY <1>2, <2>2, <2>6
  <2>8. more[1] = done /\ more[2] = done + a
    BY <1>2, <1>3, <2>2
  <2>9. \A k \in 3..(n + 2) : more[k] = cuts[k - 1]
    BY <1>2, <1>3, <2>2
  <2>10. more[3] = cuts[2]
    <3>1. 3 \in 3..(n + 2) /\ 3 - 1 = 2
      BY <1>2, <1>3
    <3> QED
      BY <2>9, <3>1
  <2>11. more[n + 2] = cuts[n + 1]
    <3>1. n + 2 \in 3..(n + 2) /\ (n + 2) - 1 = n + 1
      BY <1>2, <1>3
    <3> QED
      BY <2>9, <3>1
  <2>12. ASSUME NEW k \in 2..n
         PROVE  more[k + 1] = cuts[k] /\ more[k + 2] = cuts[k + 1]
    <3>1. k + 1 \in 3..(n + 2) /\ k + 2 \in 3..(n + 2) /\ (k + 1) - 1 = k /\ (k + 2) - 1 = k + 1
      BY <1>2, <1>3
    <3> QED
      BY <2>9, <3>1
  <2> QED
    BY <2>1, <2>7, <2>8, <2>10, <2>11, <2>12
<1>7. ASSUME NEW k \in 1..(n + 1)
      PROVE  /\ Len(parts[k]) >= 1
             /\ more[k + 1] = more[k] + Len(parts[k])
             /\ \A i \in 1..Len(parts[k]) : parts[k][i] = batch[more[k] + i]
  <2>1. CASE k = 1
    <3>1. \A i \in 1..a : i \in 1..(a + b)
      BY <1>2
    <3>2. \A i \in 1..a : left[i] = batch[done + i]
      BY <1>4, <1>5, <3>1
    <3>3. more[1 + 1] = more[1] + a
      BY <1>6
    <3> QED
      BY <1>3, <1>4, <1>6, <2>1, <3>2, <3>3
  <2>2. CASE k = 2
    <3>1. \A i \in 1..b : a + i \in 1..(a + b) /\ done + (a + i) = (done + a) + i
      BY <1>2
    <3>2. ASSUME NEW i \in 1..b
          PROVE  right[i] = batch[(done + a) + i]
      <4>1. right[i] = todo[1][a + i] /\ a + i \in 1..(a + b) /\ done + (a + i) = (done + a) + i
        BY <1>4, <3>1
      <4>2. todo[1][a + i] = batch[done + (a + i)]
        BY <1>5, <4>1
      <4> QED
        BY <4>1, <4>2
    <3>3. done + (a + b) = (done + a) + b
      BY <1>2
    <3>4. more[2 + 1] = more[2] + b
      BY <1>6, <3>3
    <3> QED
      BY <1>3, <1>4, <1>6, <2>2, <3>2, <3>4
  <2>3. CASE k \in 3..(n + 1)
    <3>1. PICK j \in 2..n : k = j + 1 /\ k - 1 = j /\ k + 1 = j + 2 /\ j \in 1..n
      <4>1. k - 1 \in 2..n /\ k = (k - 1) + 1 /\ k + 1 = (k - 1) + 2 /\ k - 1 \in 1..n
        BY <1>2, <2>3
      <4> QED
        BY <4>1
    <3>2. more[k] = cuts[j] /\ more[k + 1] = cuts[j + 1] /\ parts[k] = todo[j]
      BY <1>4, <1>6, <2>3, <3>1
    <3>3. Len(todo[j]) >= 1 /\ cuts[j + 1] = cuts[j] + Len(todo[j])
          /\ \A i \in 1..Len(todo[j]) : todo[j][i] = batch[cuts[j] + i]
      BY <1>1, <3>1
    <3> QED
      BY <3>2, <3>3
  <2>4. k = 1 \/ k = 2 \/ k \in 3..(n + 1)
    BY <1>2
  <2> QED
    BY <2>1, <2>2, <2>3, <2>4
<1>8. (n + 1) + 1 = n + 2
  BY <1>2
<1>9. more \in [1..((n + 1) + 1) -> 0..c] /\ more[1] = done /\ more[(n + 1) + 1] = c
  BY <1>6, <1>8
<1>10. more \in [1..(Len(parts) + 1) -> 0..Len(batch)] /\ more[1] = done /\ more[Len(parts) + 1] = Len(batch)
  BY <1>4, <1>9 DEF c
<1>11. \A k \in 1..Len(parts) :
          /\ Len(parts[k]) >= 1
          /\ more[k + 1] = more[k] + Len(parts[k])
          /\ \A i \in 1..Len(parts[k]) : parts[k][i] = batch[more[k] + i]
  BY <1>4, <1>7
<1> QED
  BY <1>10, <1>11 DEF Tiles

LEMMA SplitTiles ==
    ASSUME NEW batch \in Seq(Nat \ {0}), NEW todo \in Seq(Seq(Nat \ {0})), NEW done \in Nat,
           todo # <<>>, Len(Head(todo)) # 1, Tiles(batch, todo, done)
    PROVE  /\ Split(Head(todo)) \o Tail(todo) \in Seq(Seq(Nat \ {0}))
           /\ Split(Head(todo)) \o Tail(todo) # <<>>
           /\ Tiles(batch, Split(Head(todo)) \o Tail(todo), done)
<1> DEFINE parts == Split(Head(todo)) \o Tail(todo)
<1>1. Head(todo) \in Seq(Nat \ {0}) /\ Len(Head(todo)) >= 1 /\ Head(todo) = todo[1]
  <2>1. Head(todo) = todo[1]
    OBVIOUS
  <2> QED
    BY <2>1, TailTiles
<1>2. Len(todo[1]) >= 1 /\ Len(todo[1]) # 1 /\ todo[1] \in Seq(Nat \ {0})
  BY <1>1
<1>3. PICK left, right \in Seq(Nat \ {0}) :
              /\ Split(todo[1]) = <<left, right>> /\ Len(left) >= 1 /\ Len(right) >= 1
              /\ Len(todo[1]) = Len(left) + Len(right)
              /\ \A i \in 1..Len(left) : left[i] = todo[1][i]
              /\ \A i \in 1..Len(right) : right[i] = todo[1][Len(left) + i]
  BY <1>2, Halves
<1>4. parts = <<left, right>> \o Tail(todo)
  BY <1>1, <1>3
<1> HIDE DEF parts
<1>5. /\ parts \in Seq(Seq(Nat \ {0})) /\ Len(parts) = Len(todo) + 1 /\ parts[1] = left /\ parts[2] = right
      /\ \A k \in 3..(Len(todo) + 1) : parts[k] = todo[k - 1]
  BY <1>4, PairAndRest
<1>6. Tiles(batch, parts, done)
  <2>1. Parted(todo, left, right, parts)
    BY <1>3, <1>5 DEF Parted
  <2> QED
    BY <2>1, CutInTwo
<1>7. parts # <<>>
  BY <1>5
<1> QED
  BY <1>5, <1>6, <1>7 DEF parts
-----------------------------------------------------------------------------
(* What a worker does next. *)

\* Of a step of worker w that leaves the runtime and lets it do something else.
Outcome(u, w) ==
    /\ u \in State /\ JobKept(u) /\ ServiceKept(u) /\ OneMoves(work, u, w)
    /\ u.runtime = work.runtime /\ u.closest = work.closest
    /\ u.worker[w].at \in {"free", "budget", "ended"} /\ u.worker[w].attempt \in 0..1
    /\ u.gate = work.gate \/ u.gate = Append(work.gate, w)

LEMMA FreeType == Free \in WorkerType /\ [Free EXCEPT !.at = "ended"] \in WorkerType
<1>1. <<>> \in Seq(Nat \ {0}) /\ <<>> \in Seq(Seq(Nat \ {0})) /\ <<>> \in Seq(Int)
  OBVIOUS
<1>2. [Free EXCEPT !.at = "ended"] =
          [at |-> "ended", batch |-> <<>>, todo |-> <<>>, answers |-> <<>>, attempt |-> 0, wake |-> 0]
  BY DEF Free
<1>3. "free" \in Stages /\ "ended" \in Stages /\ 0 \in Nat /\ 0 \in Int
  BY DEF Stages
<1>4. Free \in WorkerType
  BY <1>1, <1>3 DEF Free, WorkerType
<1>5. [Free EXCEPT !.at = "ended"] \in WorkerType
  BY <1>1, <1>2, <1>3 DEF WorkerType
<1> QED
  BY <1>4, <1>5

LEMMA Moved ==
    ASSUME NEW s, s \in State, NEW w \in DOMAIN s.worker, NEW me \in WorkerType, NEW workers,
           workers = [s.worker EXCEPT ![w] = me]
    PROVE  /\ workers \in WorkersType /\ DOMAIN workers = DOMAIN s.worker /\ workers[w] = me
           /\ \A v \in DOMAIN s.worker \ {w} : workers[v] = s.worker[v]
BY WorkerPut

LEMMA GivenRight ==
    ASSUME work \in State, JobKept(work), NEW batch \in Seq(Nat \ {0}), NEW answers \in Seq(Int),
           Len(answers) = Len(batch)
    PROVE  /\ Given(batch, answers) \in GotType /\ DOMAIN Given(batch, answers) = DOMAIN work.got
           /\ \A x \in DOMAIN work.got :
                 IF x \in TextsOf(batch)
                 THEN \E k \in DOMAIN batch : batch[k] = x /\ Given(batch, answers)[x] = answers[k]
                 ELSE Given(batch, answers)[x] = work.got[x]
<1>1. DOMAIN answers = DOMAIN batch /\ \A k \in DOMAIN answers : answers[k] \in Int
  OBVIOUS
<1>2. work.got \in [DOMAIN work.got -> Int] /\ DOMAIN work.got \in SUBSET Nat
  BY Positions
<1>3. ASSUME NEW x \in DOMAIN work.got, x \in TextsOf(batch)
      PROVE  \E k \in DOMAIN batch : batch[k] = x /\ Given(batch, answers)[x] = answers[k]
  <2> DEFINE k == CHOOSE k \in DOMAIN answers : k \in DOMAIN batch /\ batch[k] = x
  <2>1. \E i \in DOMAIN answers : i \in DOMAIN batch /\ batch[i] = x
    BY <1>1, <1>3 DEF TextsOf
  <2>2. k \in DOMAIN answers /\ k \in DOMAIN batch /\ batch[k] = x
    BY <2>1
  <2>3. Given(batch, answers)[x] = answers[k]
    BY <2>1 DEF Given
  <2> HIDE DEF k
  <2> QED
    BY <2>2, <2>3
<1>4. ASSUME NEW x \in DOMAIN work.got, x \notin TextsOf(batch)
      PROVE  Given(batch, answers)[x] = work.got[x]
  <2>1. ~\E i \in DOMAIN answers : i \in DOMAIN batch /\ batch[i] = x
    BY <1>1, <1>4 DEF TextsOf
  <2> QED
    BY <2>1 DEF Given
<1>5. DOMAIN Given(batch, answers) = DOMAIN work.got
  BY DEF Given
<1>6. \A x \in DOMAIN work.got : Given(batch, answers)[x] \in Int
  BY <1>1, <1>2, <1>3, <1>4
<1>7. Given(batch, answers) = [x \in DOMAIN work.got |-> Given(batch, answers)[x]]
  BY DEF Given
<1>8. Given(batch, answers) \in [DOMAIN work.got -> Int]
  BY <1>6, <1>7
<1>9. Given(batch, answers) \in GotType
  BY <1>2, <1>8 DEF GotType
<1> QED
  BY <1>3, <1>4, <1>5, <1>9

\* The batch ends with these answers.
LEMMA LastPart ==
    ASSUME work \in State, JobKept(work), ServiceKept(work), NEW w, Holds(work, w),
           NEW answers \in Seq(Int),
           Len(answers) = Len(work.worker[w].batch),
           \A k \in DOMAIN work.worker[w].batch : answers[k] \in Right(work, work.worker[w].batch[k])
    PROVE  Outcome(NextPart(w, <<>>, answers), w)
<1> DEFINE me == work.worker[w]
           u == NextPart(w, <<>>, answers)
           given == Given(me.batch, answers)
<1>1. w \in DOMAIN work.worker /\ me.at \in Holding /\ me \in WorkerType
  BY WorkerPut DEF Holds
<1>2. me.batch \in Seq(Nat \ {0})
  BY <1>1, WorkerFields
<1>3. /\ given \in GotType /\ DOMAIN given = DOMAIN work.got
      /\ \A x \in DOMAIN work.got :
            IF x \in TextsOf(me.batch)
            THEN \E k \in DOMAIN me.batch : me.batch[k] = x /\ given[x] = answers[k]
            ELSE given[x] = work.got[x]
  BY <1>2, GivenRight
<1> DEFINE workers == [work.worker EXCEPT ![w] = Free]
<1>4. workers \in WorkersType /\ DOMAIN workers = DOMAIN work.worker /\ workers[w] = Free
      /\ \A v \in DOMAIN work.worker \ {w} : workers[v] = work.worker[v]
  BY <1>1, FreeType, Moved
<1>5. u = [work EXCEPT !.worker = workers, !.got = given]
  BY DEF NextPart
<1> HIDE DEF u, given, workers
<1>6. /\ u \in State
      /\ u.at = work.at /\ u.job = work.job /\ u.runtime = work.runtime /\ u.gate = work.gate
      /\ u.cursor = work.cursor /\ u.worker = workers /\ u.got = given /\ u.failed = work.failed
      /\ u.lost = work.lost /\ u.closest = work.closest
  BY <1>3, <1>4, <1>5 DEF State
<1>7. OneMoves(work, u, w) /\ u.worker[w].at = "free" /\ u.worker[w].attempt = 0
  BY <1>1, <1>4, <1>6 DEF OneMoves, Free
<1>8. JobKept(u)
  BY <1>3, <1>6, <1>7, JobMoves DEF JobKept
<1>9. \A x \in DOMAIN work.got : x \in TextsOf(me.batch) => given[x] \in Right(work, x)
  BY <1>3
<1>10. \A x \in DOMAIN work.got : x \notin TextsOf(me.batch) => given[x] = work.got[x]
  BY <1>3
<1>11. ServiceKept(u)
  BY <1>3, <1>6, <1>7, <1>9, <1>10, Serves
<1>12. Outcome(u, w)
  BY <1>6, <1>7, <1>8, <1>11 DEF Outcome
<1> QED
  BY <1>12 DEF u

\* Another part of the batch is left to embed.
LEMMA OtherPart ==
    ASSUME work \in State, JobKept(work), ServiceKept(work), NEW w, Holds(work, w),
           work.job.kind = "embeddings",
           NEW todo \in Seq(Seq(Nat \ {0})), todo # <<>>, NEW answers \in Seq(Int),
           Tiles(work.worker[w].batch, todo, Len(answers)),
           \A k \in DOMAIN answers : answers[k] = Answer(work, work.worker[w].batch[k])
    PROVE  Outcome(NextPart(w, todo, answers), w)
<1> DEFINE me == work.worker[w]
           u == NextPart(w, todo, answers)
           next == [me EXCEPT !.at = "budget", !.todo = todo, !.answers = answers, !.attempt = 1]
<1>1. w \in DOMAIN work.worker /\ me.at \in Holding /\ me \in WorkerType
  BY WorkerPut DEF Holds
<1>2. 1 \in Nat /\ "budget" \in Stages
  BY DEF Stages
<1>3. /\ next \in WorkerType /\ next.at = "budget" /\ next.batch = me.batch /\ next.todo = todo
      /\ next.answers = answers /\ next.attempt = 1
  <2> HIDE DEF me
  <2> QED
    BY <1>1, <1>2 DEF WorkerType
<1> HIDE DEF next
<1> DEFINE workers == [work.worker EXCEPT ![w] = next]
<1>4. workers \in WorkersType /\ DOMAIN workers = DOMAIN work.worker /\ workers[w] = next
      /\ \A v \in DOMAIN work.worker \ {w} : workers[v] = work.worker[v]
  BY <1>1, <1>3, Moved
<1>5. Append(work.gate, w) \in Seq(Nat)
  <2>1. w \in 1..work.job.workers /\ work.job.workers \in Nat
    BY <1>1, Positions
  <2>2. w \in Nat /\ work.gate \in Seq(Nat)
    BY <2>1, Fields
  <2> QED
    BY <2>2
<1>6. u = [work EXCEPT !.gate = Append(work.gate, w), !.worker = workers]
  BY DEF NextPart, Enter, next
<1> DEFINE gate == Append(work.gate, w)
<1>7. gate = Append(work.gate, w) /\ gate \in Seq(Nat) /\ u = [work EXCEPT !.gate = gate, !.worker = workers]
  BY <1>5, <1>6
<1> HIDE DEF u, workers, gate
<1>8. /\ u \in State
      /\ u.at = work.at /\ u.job = work.job /\ u.runtime = work.runtime /\ u.gate = gate
      /\ u.cursor = work.cursor /\ u.worker = workers /\ u.got = work.got /\ u.failed = work.failed
      /\ u.lost = work.lost /\ u.closest = work.closest
  BY <1>4, <1>7 DEF State
<1>9. OneMoves(work, u, w) /\ u.worker[w].at = "budget" /\ u.worker[w].attempt = 1
  BY <1>1, <1>4, <1>3, <1>8 DEF OneMoves
<1>10. JobKept(u)
  BY <1>8, <1>9, JobMoves DEF JobKept
<1>11. Holds(u, w)
  BY <1>1, <1>9 DEF Holds, OneMoves, Holding, Stages
<1>12. HeldAt(u, w)
  <2>1. \E b \in DOMAIN Batches(work) : b < work.cursor /\ me.batch = Batches(work)[b]
    BY <1>1 DEF ServiceKept, HeldKept, HeldAt
  <2>2. Tiled(u.worker[w])
    BY <1>3, <1>4, <1>8 DEF Tiled
  <2> QED
    BY <1>3, <1>4, <1>8, <2>1, <2>2 DEF HeldAt, Batches, Answer
<1>13. ServiceKept(u)
  <2>1. u.worker[w].batch = me.batch
    BY <1>3, <1>4, <1>8
  <2> QED
    BY <1>8, <1>9, <1>11, <1>12, <2>1, Stays
<1>14. Outcome(u, w)
  BY <1>7, <1>8, <1>9, <1>10, <1>13 DEF Outcome
<1> QED
  BY <1>14 DEF u

\* Embeddings: what is left of a batch, if anything is.
LEMMA NextPartOfMany ==
    ASSUME work \in State, JobKept(work), ServiceKept(work), NEW w, Holds(work, w),
           work.job.kind = "embeddings",
           NEW todo \in Seq(Seq(Nat \ {0})), NEW answers \in Seq(Int),
           Tiles(work.worker[w].batch, todo, Len(answers)),
           \A k \in DOMAIN answers : answers[k] = Answer(work, work.worker[w].batch[k])
    PROVE  Outcome(NextPart(w, todo, answers), w)
<1>1. CASE todo # <<>>
  BY <1>1, OtherPart
<1>2. CASE todo = <<>>
  <2>1. work.worker[w].batch \in Seq(Nat \ {0})
    BY WorkerPut, WorkerFields DEF Holds
  <2>2. Len(answers) = Len(work.worker[w].batch)
    BY <1>2, NoTiles
  <2>3. DOMAIN answers = DOMAIN work.worker[w].batch
    BY <2>1, <2>2
  <2>4. \A k \in DOMAIN work.worker[w].batch : answers[k] \in Right(work, work.worker[w].batch[k])
    BY <2>3 DEF Right
  <2> QED
    BY <1>2, <2>2, <2>4, LastPart
<1> QED
  BY <1>1, <1>2

LEMMA Held ==
    ASSUME work \in State, JobKept(work), ServiceKept(work), NEW w, Holds(work, w)
    PROVE  /\ w \in DOMAIN work.worker /\ work.worker[w] \in WorkerType
           /\ work.worker[w].batch \in Seq(Nat \ {0}) /\ work.worker[w].todo \in Seq(Seq(Nat \ {0}))
           /\ work.worker[w].answers \in Seq(Int) /\ work.worker[w].todo # <<>>
           /\ HeldAt(work, w)
           /\ work.job.kind # "embeddings" =>
                 /\ work.worker[w].todo = <<work.worker[w].batch>> /\ work.worker[w].answers = <<>>
                 /\ Len(work.worker[w].batch) = 1 /\ DOMAIN work.worker[w].batch = {1}
           /\ work.job.kind = "embeddings" =>
                 /\ Tiles(work.worker[w].batch, work.worker[w].todo, Len(work.worker[w].answers))
                 /\ \A k \in DOMAIN work.worker[w].answers :
                       work.worker[w].answers[k] = Answer(work, work.worker[w].batch[k])
<1>1. w \in DOMAIN work.worker /\ work.worker[w] \in WorkerType /\ HeldAt(work, w)
  BY WorkerPut DEF Holds, ServiceKept, HeldKept
<1>2. /\ work.worker[w].batch \in Seq(Nat \ {0}) /\ work.worker[w].todo \in Seq(Seq(Nat \ {0}))
      /\ work.worker[w].answers \in Seq(Int)
  BY <1>1, WorkerFields
<1>3. work.job.kind # "embeddings" => Len(work.worker[w].batch) = 1
  BY <1>1 DEF HeldAt, JobKept
<1>4. work.job.kind # "embeddings" => DOMAIN work.worker[w].batch = {1}
  BY <1>2, <1>3
<1> QED
  BY <1>1, <1>2, <1>3, <1>4 DEF HeldAt, Tiled

LEMMA Extended ==
    ASSUME NEW answers \in Seq(Int), NEW head \in Seq(Int)
    PROVE  /\ answers \o head \in Seq(Int) /\ Len(answers \o head) = Len(answers) + Len(head)
           /\ \A k \in DOMAIN (answers \o head) :
                 \/ k \in DOMAIN answers /\ (answers \o head)[k] = answers[k]
                 \/ \E i \in 1..Len(head) : k = Len(answers) + i /\ (answers \o head)[k] = head[i]
<1> DEFINE n == Len(answers)
           m == Len(head)
           more == answers \o head
<1>1. /\ more \in Seq(Int) /\ Len(more) = n + m
      /\ \A k \in 1..(n + m) : more[k] = IF k <= n THEN answers[k] ELSE head[k - n]
  BY ConcatProperties
<1>2. n \in Nat /\ m \in Nat /\ DOMAIN answers = 1..n
  BY LenProperties
<1> HIDE DEF more
<1>3. DOMAIN more = 1..(n + m)
  BY <1>1, LenProperties
<1> HIDE DEF n, m
<1>4. ASSUME NEW k \in DOMAIN more
      PROVE  \/ k \in DOMAIN answers /\ more[k] = answers[k]
             \/ \E i \in 1..m : k = n + i /\ more[k] = head[i]
  <2>1. CASE k <= n
    BY <1>1, <1>2, <1>3, <2>1
  <2>2. CASE ~(k <= n)
    <3>1. k - n \in 1..m /\ k = n + (k - n)
      BY <1>2, <1>3, <2>2
    <3>2. more[k] = head[k - n]
      BY <1>1, <1>3, <2>2
    <3> QED
      BY <3>1, <3>2
  <2> QED
    BY <2>1, <2>2
<1> QED
  BY <1>1, <1>4 DEF more, n, m

LEMMA AnswerOutcome ==
    ASSUME work \in State, JobKept(work), ServiceKept(work), NEW w, Holds(work, w),
           ~Refused(Head(work.worker[w].todo))
    PROVE  Outcome(NextPart(w, Tail(work.worker[w].todo), work.worker[w].answers \o Head(work.worker[w].todo)), w)
<1> DEFINE batch == work.worker[w].batch
           todo == work.worker[w].todo
           answers == work.worker[w].answers
           more == answers \o Head(todo)
<1>1. /\ w \in DOMAIN work.worker /\ batch \in Seq(Nat \ {0}) /\ todo \in Seq(Seq(Nat \ {0}))
      /\ answers \in Seq(Int) /\ todo # <<>>
  BY Held
<1>2. \A k \in DOMAIN Head(todo) : Head(todo)[k] \notin work.job.refused
  BY DEF Refused
<1>3. CASE work.job.kind # "embeddings"
  <2>1. todo = <<batch>> /\ answers = <<>> /\ Len(batch) = 1 /\ DOMAIN batch = {1}
    BY <1>3, Held
  <2>2. more = batch /\ Tail(todo) = <<>>
    BY <1>1, <2>1
  <2>3. batch \in Seq(Int)
    BY <1>1
  <2>4. batch[1] \in Right(work, batch[1])
    <3>1. CASE work.job.kind = "summaries"
      <4>1. batch[1] \notin work.failed
        BY <1>1, <3>1, OthersTexts DEF Untouched
      <4> QED
        BY <3>1, <4>1 DEF Right
    <3>2. CASE work.job.kind = "graph"
      BY <3>2 DEF Right
    <3>3. work.job.kind \in {"embeddings", "summaries", "graph"}
      BY Fields, JobFields
    <3> QED
      BY <1>3, <3>1, <3>2, <3>3
  <2>5. \A k \in DOMAIN batch : batch[k] \in Right(work, batch[k])
    BY <2>1, <2>4
  <2>6. Outcome(NextPart(w, <<>>, batch), w)
    BY <2>3, <2>5, LastPart
  <2> QED
    BY <2>2, <2>6
<1>4. CASE work.job.kind = "embeddings"
  <2>1. Tiles(batch, todo, Len(answers)) /\ \A k \in DOMAIN answers : answers[k] = Answer(work, batch[k])
    BY <1>4, Held
  <2>2. Len(answers) \in Nat
    BY <1>1
  <2>3. /\ Head(todo) \in Seq(Nat \ {0}) /\ \A i \in 1..Len(Head(todo)) : Head(todo)[i] = batch[Len(answers) + i]
        /\ Tail(todo) \in Seq(Seq(Nat \ {0})) /\ Tiles(batch, Tail(todo), Len(answers) + Len(Head(todo)))
    BY <1>1, <2>1, <2>2, TailTiles
  <2>4. Head(todo) \in Seq(Int) /\ Len(Head(todo)) \in Nat /\ DOMAIN Head(todo) = 1..Len(Head(todo))
    BY <2>3
  <2>5. /\ more \in Seq(Int) /\ Len(more) = Len(answers) + Len(Head(todo))
        /\ \A k \in DOMAIN more :
              \/ k \in DOMAIN answers /\ more[k] = answers[k]
              \/ \E i \in 1..Len(Head(todo)) : k = Len(answers) + i /\ more[k] = Head(todo)[i]
    BY <1>1, <2>4, Extended
  <2>6. ASSUME NEW i \in 1..Len(Head(todo))
        PROVE  Head(todo)[i] = Answer(work, batch[Len(answers) + i])
    <3>1. Head(todo)[i] \notin work.job.refused /\ Head(todo)[i] = batch[Len(answers) + i]
      BY <1>2, <2>3, <2>4
    <3>2. Answer(work, Head(todo)[i]) = Head(todo)[i]
      BY <3>1 DEF Answer
    <3> QED
      BY <3>1, <3>2
  <2> HIDE DEF more, batch, answers, todo
  <2>8. \A k \in DOMAIN more : more[k] = Answer(work, batch[k])
    BY <2>1, <2>5, <2>6
  <2>9. Tiles(batch, Tail(todo), Len(more))
    BY <2>3, <2>5
  <2>10. \A k \in DOMAIN more : more[k] = Answer(work, work.worker[w].batch[k])
    BY <2>8 DEF batch
  <2>11. Tiles(work.worker[w].batch, Tail(todo), Len(more))
    BY <2>9 DEF batch
  <2>12. Outcome(NextPart(w, Tail(todo), more), w)
    BY <1>4, <2>3, <2>5, <2>10, <2>11, NextPartOfMany
  <2> QED
    BY <2>12 DEF more, answers, todo
<1> QED
  BY <1>3, <1>4

LEMMA AloneOutcome ==
    ASSUME work \in State, JobKept(work), ServiceKept(work), NEW w, Holds(work, w),
           work.job.kind = "embeddings", Refused(Head(work.worker[w].todo)), Len(Head(work.worker[w].todo)) = 1
    PROVE  Outcome(NextPart(w, Tail(work.worker[w].todo), RefusedAlone(work.worker[w].answers)), w)
<1> DEFINE batch == work.worker[w].batch
           todo == work.worker[w].todo
           answers == work.worker[w].answers
           more == Append(answers, NOTHING)
<1>1. /\ batch \in Seq(Nat \ {0}) /\ todo \in Seq(Seq(Nat \ {0})) /\ answers \in Seq(Int) /\ todo # <<>>
      /\ Tiles(batch, todo, Len(answers)) /\ \A k \in DOMAIN answers : answers[k] = Answer(work, batch[k])
  BY Held
<1>2. Len(answers) \in Nat
  BY <1>1
<1>3. /\ Head(todo) \in Seq(Nat \ {0}) /\ \A i \in 1..Len(Head(todo)) : Head(todo)[i] = batch[Len(answers) + i]
      /\ Tail(todo) \in Seq(Seq(Nat \ {0})) /\ Tiles(batch, Tail(todo), Len(answers) + Len(Head(todo)))
  BY <1>1, <1>2, TailTiles
<1>4. DOMAIN Head(todo) = {1} /\ Head(todo)[1] = batch[Len(answers) + 1]
  BY <1>3
<1>5. Head(todo)[1] \in work.job.refused
  <2>1. work.job.largest \in Nat \ {0}
    BY Fields, JobFields
  <2>2. ~(1 > work.job.largest) /\ Len(Head(todo)) = 1
    BY <2>1
  <2> QED
    BY <1>4, <2>2 DEF Refused
<1>6. Answer(work, batch[Len(answers) + 1]) = NOTHING
  BY <1>4, <1>5 DEF Answer
<1>7. /\ more \in Seq(Int) /\ Len(more) = Len(answers) + 1 /\ more[Len(answers) + 1] = NOTHING
      /\ \A k \in 1..Len(answers) : more[k] = answers[k]
  <2>1. answers \in Seq(Int) /\ NOTHING \in Int
    BY <1>1 DEF NOTHING
  <2> HIDE DEF answers
  <2> QED
    BY <2>1, AppendProperties
<1>8. DOMAIN more = 1..(Len(answers) + 1) /\ DOMAIN answers = 1..Len(answers)
  BY <1>1, <1>7
<1> HIDE DEF more
<1>9. ASSUME NEW k \in DOMAIN more
      PROVE  more[k] = Answer(work, batch[k])
  <2>1. k \in 1..Len(answers) \/ k = Len(answers) + 1
    BY <1>2, <1>8
  <2> QED
    BY <1>1, <1>6, <1>7, <1>8, <2>1
<1>10. Tiles(batch, Tail(todo), Len(more))
  BY <1>3, <1>7
<1>11. Outcome(NextPart(w, Tail(todo), more), w)
  BY <1>3, <1>7, <1>9, <1>10, NextPartOfMany
<1> QED
  BY <1>11 DEF more, RefusedAlone

LEMMA SplitOutcome ==
    ASSUME work \in State, JobKept(work), ServiceKept(work), NEW w, Holds(work, w),
           work.job.kind = "embeddings", Len(Head(work.worker[w].todo)) # 1
    PROVE  Outcome(NextPart(w, Split(Head(work.worker[w].todo)) \o Tail(work.worker[w].todo),
                            work.worker[w].answers), w)
<1> DEFINE batch == work.worker[w].batch
           todo == work.worker[w].todo
           answers == work.worker[w].answers
           parts == Split(Head(todo)) \o Tail(todo)
<1>1. /\ batch \in Seq(Nat \ {0}) /\ todo \in Seq(Seq(Nat \ {0})) /\ answers \in Seq(Int) /\ todo # <<>>
      /\ Tiles(batch, todo, Len(answers)) /\ \A k \in DOMAIN answers : answers[k] = Answer(work, batch[k])
  BY Held
<1>2. Len(answers) \in Nat
  BY <1>1
<1>3. parts \in Seq(Seq(Nat \ {0})) /\ Tiles(batch, parts, Len(answers))
  BY <1>1, <1>2, SplitTiles
<1> HIDE DEF parts
<1>4. Outcome(NextPart(w, parts, answers), w)
  BY <1>1, <1>3, NextPartOfMany
<1> QED
  BY <1>4 DEF parts

LEMMA LoseOutcome ==
    ASSUME work \in State, JobKept(work), ServiceKept(work), NEW w, Holds(work, w),
           work.job.kind = "summaries"
    PROVE  Outcome([work EXCEPT !.failed = @ \union TextsOf(work.worker[w].batch), !.lost = @ + 1,
                                !.worker[w] = Free], w)
<1> DEFINE failed == work.failed \union TextsOf(work.worker[w].batch)
           lost == work.lost + 1
           workers == [work.worker EXCEPT ![w] = Free]
           u == [work EXCEPT !.failed = failed, !.lost = lost, !.worker = workers]
<1>1. w \in DOMAIN work.worker /\ work.worker[w].batch \in Seq(Nat \ {0})
  BY Held
<1>2. workers \in WorkersType /\ DOMAIN workers = DOMAIN work.worker /\ workers[w] = Free
      /\ \A v \in DOMAIN work.worker \ {w} : workers[v] = work.worker[v]
  BY <1>1, FreeType, Moved
<1>3. failed \in SUBSET Nat /\ lost \in Nat
  <2>1. TextsOf(work.worker[w].batch) \in SUBSET Nat
    BY <1>1 DEF TextsOf
  <2> QED
    BY <2>1, Fields
<1>4. u = [work EXCEPT !.failed = @ \union TextsOf(work.worker[w].batch), !.lost = @ + 1, !.worker[w] = Free]
  OBVIOUS
<1>5. u = [work EXCEPT !.failed = failed, !.lost = lost, !.worker = workers]
  OBVIOUS
<1>6. failed = work.failed \union TextsOf(work.worker[w].batch) /\ lost = work.lost + 1
  OBVIOUS
<1> HIDE DEF u, failed, lost, workers
<1>7. /\ u \in State
      /\ u.at = work.at /\ u.job = work.job /\ u.runtime = work.runtime /\ u.gate = work.gate
      /\ u.cursor = work.cursor /\ u.worker = workers /\ u.got = work.got /\ u.failed = failed
      /\ u.lost = lost /\ u.closest = work.closest
  BY <1>2, <1>3, <1>5 DEF State
<1>8. OneMoves(work, u, w) /\ u.worker[w].at = "free" /\ u.worker[w].attempt = 0
  BY <1>1, <1>2, <1>7 DEF OneMoves, Free
<1>9. JobKept(u)
  BY <1>7, <1>8, JobMoves DEF JobKept
<1>10. ServiceKept(u)
  BY <1>6, <1>7, <1>8, Loses
<1>11. Outcome(u, w)
  BY <1>7, <1>8, <1>9, <1>10 DEF Outcome
<1> QED
  BY <1>4, <1>11

LEMMA RejectOutcome ==
    ASSUME work \in State, JobKept(work), ServiceKept(work), NEW w, Holds(work, w),
           work.job.kind = "embeddings"
    PROVE  Outcome([work EXCEPT !.at = "rejected", !.worker[w] = [Free EXCEPT !.at = "ended"]], w)
<1> DEFINE ended == [Free EXCEPT !.at = "ended"]
           workers == [work.worker EXCEPT ![w] = ended]
           u == [work EXCEPT !.at = "rejected", !.worker = workers]
<1>1. w \in DOMAIN work.worker
  BY Held
<1>2. ended \in WorkerType /\ ended.at = "ended" /\ ended.attempt = 0
  BY FreeType DEF Free
<1> HIDE DEF ended
<1>3. workers \in WorkersType /\ DOMAIN workers = DOMAIN work.worker /\ workers[w] = ended
      /\ \A v \in DOMAIN work.worker \ {w} : workers[v] = work.worker[v]
  BY <1>1, <1>2, Moved
<1>4. u = [work EXCEPT !.at = "rejected", !.worker[w] = ended]
  OBVIOUS
<1>5. u = [work EXCEPT !.at = "rejected", !.worker = workers]
  OBVIOUS
<1> HIDE DEF u, workers
<1>6. /\ u \in State
      /\ u.at = "rejected" /\ u.job = work.job /\ u.runtime = work.runtime /\ u.gate = work.gate
      /\ u.cursor = work.cursor /\ u.worker = workers /\ u.got = work.got /\ u.failed = work.failed
      /\ u.lost = work.lost /\ u.closest = work.closest
  BY <1>3, <1>5 DEF State
<1>7. OneMoves(work, u, w) /\ u.worker[w].at = "ended" /\ u.worker[w].attempt = 0
  BY <1>1, <1>2, <1>3, <1>6 DEF OneMoves
<1>8. JobKept(u)
  BY <1>6, <1>7, JobMoves DEF JobKept
<1>9. ServiceKept(u)
  BY <1>6, <1>7, Rejects
<1>10. Outcome(u, w)
  BY <1>6, <1>7, <1>8, <1>9 DEF Outcome
<1> QED
  BY <1>4, <1>10 DEF ended

\* A call that has failed for good, of a part that was refused or not.
LEMMA GiveUpOutcome ==
    ASSUME work \in State, JobKept(work), ServiceKept(work), NEW w, Holds(work, w), NEW error,
           ShouldSplit(error) => Refused(Head(work.worker[w].todo))
    PROVE  Outcome(GiveUp(w, error), w)
<1>1. work.job.kind \in {"embeddings", "summaries", "graph"}
  BY Fields, JobFields
<1>2. CASE work.job.kind = "embeddings" /\ ShouldSplit(error)
  <2>1. GiveUp(w, error) = IF Len(Head(work.worker[w].todo)) = 1
                           THEN NextPart(w, Tail(work.worker[w].todo), RefusedAlone(work.worker[w].answers))
                           ELSE NextPart(w, Split(Head(work.worker[w].todo)) \o Tail(work.worker[w].todo),
                                         work.worker[w].answers)
    BY <1>2 DEF GiveUp
  <2> QED
    BY <1>2, <2>1, AloneOutcome, SplitOutcome
<1>3. CASE work.job.kind = "embeddings" /\ ~ShouldSplit(error)
  <2>1. GiveUp(w, error) = [work EXCEPT !.at = "rejected", !.worker[w] = [Free EXCEPT !.at = "ended"]]
    BY <1>3 DEF GiveUp
  <2> QED
    BY <1>3, <2>1, RejectOutcome
<1>4. CASE work.job.kind = "summaries"
  <2>1. GiveUp(w, error) = [work EXCEPT !.failed = @ \union TextsOf(work.worker[w].batch), !.lost = @ + 1,
                                        !.worker[w] = Free]
    BY <1>4 DEF GiveUp
  <2> QED
    BY <1>4, <2>1, LoseOutcome
<1>5. CASE work.job.kind = "graph"
  <2>1. GiveUp(w, error) = NextPart(w, <<>>, <<LOCAL_TEXT>>)
    BY <1>5 DEF GiveUp
  <2>2. Len(work.worker[w].batch) = 1 /\ DOMAIN work.worker[w].batch = {1}
    BY <1>5, Held
  <2>3. <<LOCAL_TEXT>> \in Seq(Int) /\ Len(<<LOCAL_TEXT>>) = 1 /\ <<LOCAL_TEXT>>[1] = LOCAL_TEXT
    BY DEF LOCAL_TEXT
  <2>4. \A k \in DOMAIN work.worker[w].batch : <<LOCAL_TEXT>>[k] \in Right(work, work.worker[w].batch[k])
    BY <1>5, <2>2, <2>3 DEF Right
  <2> QED
    BY <2>1, <2>2, <2>3, <2>4, LastPart
<1> QED
  BY <1>1, <1>2, <1>3, <1>4, <1>5
-----------------------------------------------------------------------------
(* The steps. *)

Good == work \in State /\ Kept(work)

LEMMA Goods ==
    ASSUME Good
    PROVE  work \in State /\ JobKept(work) /\ PolicyKept(work) /\ ServiceKept(work)
BY DEF Good, Kept

\* State t is the outcome u, with what the call has cost.
Costs(t, u, w) ==
    /\ t \in State
    /\ t.at = u.at /\ t.job = u.job /\ t.cursor = u.cursor /\ t.worker = u.worker /\ t.got = u.got
    /\ t.failed = u.failed /\ t.lost = u.lost /\ t.closest = u.closest
    /\ t.gate = u.gate \/ (work.gate # <<>> /\ Head(work.gate) = w)
    /\ t.runtime.policy = work.runtime.policy
    /\ t.runtime.now = work.runtime.now /\ t.runtime.lastRequestAt = work.runtime.lastRequestAt
    /\ t.runtime.stats.requests = work.runtime.stats.requests
    /\ t.runtime.stats.attempts = work.runtime.stats.attempts
    /\ t.runtime.stats.retries = work.runtime.stats.retries
    /\ t.runtime.stats.estimatedTokens = work.runtime.stats.estimatedTokens
    /\ Total(t.runtime.stats.failures) - t.runtime.stats.retries - t.runtime.stats.finalFailures
         = Total(work.runtime.stats.failures) - work.runtime.stats.retries - work.runtime.stats.finalFailures

LEMMA OutcomeKept ==
    ASSUME Good, NEW w, NEW u, Outcome(u, w), work.worker[w].at \notin Owes, NEW t, Costs(t, u, w)
    PROVE  Kept(t)
<1>1. work \in State /\ JobKept(work) /\ PolicyKept(work) /\ ServiceKept(work)
  BY Goods
<1>2. /\ u \in State /\ JobKept(u) /\ ServiceKept(u) /\ OneMoves(work, u, w)
      /\ u.runtime = work.runtime /\ u.closest = work.closest
      /\ u.worker[w].at \in {"free", "budget", "ended"} /\ u.worker[w].attempt \in 0..1
      /\ u.gate = work.gate \/ u.gate = Append(work.gate, w)
  BY DEF Outcome
<1>3. ServiceKept(t)
  BY <1>2, ServiceReads DEF Costs
<1>4. JobKept(t)
  BY <1>2 DEF Costs, JobKept, Batches
<1>5. OneMoves(work, t, w)
  BY <1>2 DEF Costs, OneMoves
<1>6. t.worker[w].at \notin Owes /\ t.worker[w].at # "spacing"
  BY <1>2 DEF Costs, Owes
<1>7. t.worker[w].attempt <= work.job.policy.maxRetries + 1
  <2>1. work.job.policy.maxRetries \in Nat
    BY <1>1, Fields, JobFields, PolicyFields
  <2> QED
    BY <1>2, <2>1 DEF Costs
<1>8. t.runtime.stats.attempts - t.runtime.stats.requests - t.runtime.stats.retries
               + (IF t.worker[w].at \in Owes THEN 1 ELSE 0)
             = work.runtime.stats.attempts - work.runtime.stats.requests - work.runtime.stats.retries
               + (IF work.worker[w].at \in Owes THEN 1 ELSE 0)
  BY <1>6 DEF Costs
<1>9. t.closest = work.closest /\ (t.gate = work.gate \/ t.gate = Append(work.gate, w)
                                   \/ (work.gate # <<>> /\ Head(work.gate) = w))
  BY <1>2 DEF Costs
<1>10. PolicyKept(t)
  BY <1>1, <1>5, <1>6, <1>7, <1>8, <1>9, PolicyMoves DEF Costs
<1> QED
  BY <1>3, <1>4, <1>10 DEF Kept

LEMMA FailedKept ==
    ASSUME Good, NEW w \in DOMAIN work.worker, work.worker[w].at = "calling", NEW kind \in FailureKinds,
           NEW error, ShouldSplit(error) => Refused(Head(work.worker[w].todo)), NEW delay \in Int,
           Failed(w, kind, error, delay)
    PROVE  work' \in State /\ Kept(work')
<1>1. work \in State /\ JobKept(work) /\ PolicyKept(work) /\ ServiceKept(work)
  BY Goods
<1>2. work.runtime \in RuntimeType /\ work.job.policy \in PolicyType /\ work.worker[w] \in WorkerType
  BY <1>1, Fields, JobFields, WorkerPut
<1>3. Holds(work, w) /\ work.worker[w].at \notin Owes
  BY DEF Holds, Holding, Stages, Owes
<1>4. /\ work.runtime.now \in Nat /\ work.runtime.stats.attempts \in Nat /\ work.runtime.stats.requests \in Nat
      /\ work.runtime.stats.retries \in Nat /\ work.runtime.stats.finalFailures \in Nat
      /\ Total(work.runtime.stats.failures) \in Nat
  BY <1>2, RuntimeFields, StatsFields DEF Total, FailureType
<1>5. CASE Policy!retryable(kind, work.worker[w].attempt, work.job.policy)
  <2> DEFINE q == Again(work.runtime, kind)
             me == work.worker[w]
             attempt == me.attempt + 1
             wake == work.runtime.now + delay
             next == [me EXCEPT !.at = "backoff", !.wake = wake, !.attempt = attempt]
             workers == [work.worker EXCEPT ![w] = next]
  <2>1. work' = [work EXCEPT !.runtime = q, !.worker = workers]
    BY <1>5 DEF Failed, Again
  <2>2. /\ q \in RuntimeType /\ q.policy = work.runtime.policy /\ q.now = work.runtime.now
        /\ q.lastRequestAt = work.runtime.lastRequestAt
        /\ q.stats.requests = work.runtime.stats.requests /\ q.stats.attempts = work.runtime.stats.attempts
        /\ q.stats.estimatedTokens = work.runtime.stats.estimatedTokens
        /\ q.stats.retries = work.runtime.stats.retries + 1
        /\ q.stats.finalFailures = work.runtime.stats.finalFailures
        /\ Total(q.stats.failures) = Total(work.runtime.stats.failures) + 1
    BY <1>2, Retried
  <2>3. attempt \in Nat /\ attempt <= work.job.policy.maxRetries + 1 /\ wake \in Int
    <3>1. me.attempt \in Nat /\ work.job.policy.maxRetries \in Nat
      BY <1>2, WorkerFields, PolicyFields
    <3>2. me.attempt <= work.job.policy.maxRetries
      BY <1>5 DEF Policy!retryable
    <3> QED
      BY <1>4, <3>1, <3>2
  <2> HIDE DEF q, attempt, wake
  <2>4. /\ next \in WorkerType /\ next.at = "backoff" /\ next.attempt = attempt /\ next.batch = me.batch
        /\ next.todo = me.todo /\ next.answers = me.answers
    <3>1. "backoff" \in Stages
      BY DEF Stages
    <3> HIDE DEF me
    <3> QED
      BY <1>2, <2>3, <3>1 DEF WorkerType, me
  <2> HIDE DEF next
  <2>5. workers \in WorkersType /\ DOMAIN workers = DOMAIN work.worker /\ workers[w] = next
        /\ \A v \in DOMAIN work.worker \ {w} : workers[v] = work.worker[v]
    BY <1>1, <2>4, Moved
  <2> HIDE DEF workers
  <2>6. /\ work' \in State
        /\ work'.at = work.at /\ work'.job = work.job /\ work'.runtime = q /\ work'.gate = work.gate
        /\ work'.cursor = work.cursor /\ work'.worker = workers /\ work'.got = work.got
        /\ work'.failed = work.failed /\ work'.lost = work.lost /\ work'.closest = work.closest
    BY <1>1, <2>1, <2>2, <2>5 DEF State
  <2>7. OneMoves(work, work', w)
    BY <2>5, <2>6 DEF OneMoves
  <2>8. JobKept(work')
    BY <1>1, <2>2, <2>6, <2>7, JobMoves DEF JobKept
  <2>9. work'.worker[w].at \in Holding /\ work'.worker[w].at \in Owes /\ work'.worker[w].at # "spacing"
    BY <2>4, <2>5, <2>6 DEF Holding, Stages, Owes
  <2>10. ServiceKept(work')
    BY <1>1, <1>3, <2>4, <2>5, <2>6, <2>7, <2>9, StaysSame
  <2>11. work'.worker[w].attempt <= work.job.policy.maxRetries + 1
    BY <2>3, <2>4, <2>5, <2>6
  <2>12. work'.runtime.stats.attempts - work'.runtime.stats.requests - work'.runtime.stats.retries
               + (IF work'.worker[w].at \in Owes THEN 1 ELSE 0)
             = work.runtime.stats.attempts - work.runtime.stats.requests - work.runtime.stats.retries
               + (IF work.worker[w].at \in Owes THEN 1 ELSE 0)
    BY <1>3, <1>4, <2>2, <2>6, <2>9
  <2>13. Total(work'.runtime.stats.failures) - work'.runtime.stats.retries - work'.runtime.stats.finalFailures
             = Total(work.runtime.stats.failures) - work.runtime.stats.retries - work.runtime.stats.finalFailures
    BY <1>4, <2>2, <2>6
  <2>14. PolicyKept(work')
    BY <1>1, <2>2, <2>6, <2>7, <2>9, <2>11, <2>12, <2>13, PolicyMoves
  <2> QED
    BY <2>6, <2>8, <2>10, <2>14 DEF Kept
<1>6. CASE ~Policy!retryable(kind, work.worker[w].attempt, work.job.policy)
  <2> DEFINE q == ForGood(work.runtime, kind)
             u == GiveUp(w, error)
  <2>1. work' = [u EXCEPT !.runtime = q]
    BY <1>6 DEF Failed, ForGood
  <2>2. /\ q \in RuntimeType /\ q.policy = work.runtime.policy /\ q.now = work.runtime.now
        /\ q.lastRequestAt = work.runtime.lastRequestAt
        /\ q.stats.requests = work.runtime.stats.requests /\ q.stats.attempts = work.runtime.stats.attempts
        /\ q.stats.estimatedTokens = work.runtime.stats.estimatedTokens
        /\ q.stats.retries = work.runtime.stats.retries
        /\ q.stats.finalFailures = work.runtime.stats.finalFailures + 1
        /\ Total(q.stats.failures) = Total(work.runtime.stats.failures) + 1
    BY <1>2, FinallyFailed
  <2>3. Outcome(u, w)
    BY <1>1, <1>3, GiveUpOutcome
  <2> HIDE DEF q, u
  <2>4. u \in State
    BY <2>3 DEF Outcome
  <2>5. /\ work' \in State
        /\ work'.at = u.at /\ work'.job = u.job /\ work'.runtime = q /\ work'.gate = u.gate
        /\ work'.cursor = u.cursor /\ work'.worker = u.worker /\ work'.got = u.got
        /\ work'.failed = u.failed /\ work'.lost = u.lost /\ work'.closest = u.closest
    BY <2>1, <2>2, <2>4 DEF State
  <2>6. Total(work'.runtime.stats.failures) - work'.runtime.stats.retries - work'.runtime.stats.finalFailures
             = Total(work.runtime.stats.failures) - work.runtime.stats.retries - work.runtime.stats.finalFailures
    BY <1>4, <2>2, <2>5
  <2>7. Costs(work', u, w)
    BY <2>2, <2>5, <2>6 DEF Costs
  <2>8. Kept(work')
    BY <1>3, <2>3, <2>7, OutcomeKept
  <2> QED
    BY <2>5, <2>8
<1> QED
  BY <1>5, <1>6

LEMMA AnsweredKept ==
    ASSUME Good, NEW w \in DOMAIN work.worker, Answered(w)
    PROVE  work' \in State /\ Kept(work')
<1>1. work \in State /\ JobKept(work) /\ PolicyKept(work) /\ ServiceKept(work)
  BY Goods
<1>2. Holds(work, w) /\ work.worker[w].at \notin Owes
  BY DEF Answered, Holds, Holding, Stages, Owes
<1>3. Outcome(work', w)
  BY <1>1, <1>2, AnswerOutcome DEF Answered
<1>4. work' \in State /\ work'.runtime = work.runtime
  BY <1>3 DEF Outcome
<1>5. Costs(work', work', w)
  BY <1>4 DEF Costs
<1>6. Kept(work')
  BY <1>2, <1>3, <1>5, OutcomeKept
<1> QED
  BY <1>4, <1>6

LEMMA NoRefusal == ~ShouldSplit(Exhausted)
BY DEF ShouldSplit, Exhausted

LEMMA Classified ==
    ASSUME NEW error
    PROVE  Policy!classifyProviderError(error) \in FailureKinds
BY DEF Policy!classifyProviderError, FailureKinds

LEMMA RefuseKept ==
    ASSUME Good, NEW w \in DOMAIN work.worker, Refuse(w)
    PROVE  work' \in State /\ Kept(work')
<1>1. work.worker[w].at = "calling" /\ Refused(Head(work.worker[w].todo))
  BY DEF Refuse
<1>2. PICK status \in {400, 413} : Failed(w, "permanentFailures", [status |-> status, network |-> FALSE], 0)
  BY DEF Refuse
<1> DEFINE error == [status |-> status, network |-> FALSE]
           kind == "permanentFailures"
           delay == 0
<1>3. Failed(w, kind, error, delay) /\ kind \in FailureKinds /\ delay \in Int
  BY <1>2 DEF FailureKinds
<1>4. ShouldSplit(error) => Refused(Head(work.worker[w].todo))
  BY <1>1
<1> HIDE DEF error, kind, delay
<1> QED
  BY <1>1, <1>3, <1>4, FailedKept

LEMMA DelayType ==
    ASSUME NEW attempt, NEW policy, NEW delay \in Policy!retryDelay(attempt, policy)
    PROVE  delay \in Int
BY DEF Policy!retryDelay

LEMMA CallFailsKept ==
    ASSUME Good, NEW w \in DOMAIN work.worker, CallFails(w)
    PROVE  work' \in State /\ Kept(work')
<1>1. PICK error \in work.job.errors : \E delay \in Policy!retryDelay(work.worker[w].attempt, work.job.policy) :
          Failed(w, Policy!classifyProviderError(error), error, delay)
  BY DEF CallFails
<1>2. PICK delay \in Policy!retryDelay(work.worker[w].attempt, work.job.policy) :
          Failed(w, Policy!classifyProviderError(error), error, delay)
  BY <1>1
<1>3. error \in ErrorType
  BY Goods, Fields, JobFields
<1>4. ~ShouldSplit(error)
  BY <1>3 DEF ShouldSplit, ErrorType
<1>5. work.worker[w].at = "calling"
  BY DEF CallFails
<1>6. delay \in Int
  BY DelayType
<1> QED
  BY <1>2, <1>4, <1>5, <1>6, Classified, FailedKept

LEMMA TimeOutKept ==
    ASSUME Good, NEW w \in DOMAIN work.worker, TimeOut(w)
    PROVE  work' \in State /\ Kept(work')
<1>1. PICK delay \in Policy!retryDelay(work.worker[w].attempt, work.job.policy) :
          Failed(w, "transientFailures", Exhausted, delay)
  BY DEF TimeOut
<1>2. work.worker[w].at = "calling"
  BY DEF TimeOut
<1>3. "transientFailures" \in FailureKinds
  BY DEF FailureKinds
<1>4. delay \in Int
  BY DelayType
<1> QED
  BY <1>1, <1>2, <1>3, <1>4, NoRefusal, FailedKept

LEMMA TakeKept ==
    ASSUME Good, NEW w \in DOMAIN work.worker, Take(w)
    PROVE  work' \in State /\ Kept(work')
<1>1. work \in State /\ JobKept(work) /\ PolicyKept(work) /\ ServiceKept(work)
  BY Goods
<1>2. work.worker[w].at = "free" /\ work.worker[w].at \notin Owes /\ ~Holds(work, w)
  BY DEF Take, Holds, Holding, Owes
<1>3. /\ DOMAIN Batches(work) = 1..Len(Batches(work)) /\ Len(Batches(work)) \in Nat
      /\ \A b \in DOMAIN Batches(work) : Batches(work)[b] \in Seq(Nat \ {0})
      /\ w \in Nat /\ work.cursor \in 1..(Len(Batches(work)) + 1)
  <2>1. w \in 1..work.job.workers /\ work.job.workers \in Nat
    BY <1>1, Positions
  <2>2. w \in Nat
    BY <2>1
  <2> QED
    BY <1>1, <2>2, Positions DEF JobKept
<1>4. work.job.policy.maxRetries \in Nat
  BY <1>1, Fields, JobFields, PolicyFields
<1>5. CASE work.cursor > Len(Batches(work))
  <2> DEFINE next == [work.worker[w] EXCEPT !.at = "ended"]
             workers == [work.worker EXCEPT ![w] = next]
  <2>1. work' = [work EXCEPT !.worker = workers]
    BY <1>5 DEF Take, Batches
  <2>2. next \in WorkerType /\ next.at = "ended" /\ next.attempt = work.worker[w].attempt
    <3>1. work.worker[w] \in WorkerType /\ "ended" \in Stages
      BY <1>1, WorkerPut DEF Stages
    <3> DEFINE me == work.worker[w]
    <3> HIDE DEF me
    <3> QED
      BY <3>1 DEF WorkerType, me
  <2> HIDE DEF next
  <2>3. workers \in WorkersType /\ DOMAIN workers = DOMAIN work.worker /\ workers[w] = next
        /\ \A v \in DOMAIN work.worker \ {w} : workers[v] = work.worker[v]
    BY <1>1, <2>2, Moved
  <2> HIDE DEF workers
  <2>4. /\ work' \in State
        /\ work'.at = work.at /\ work'.job = work.job /\ work'.runtime = work.runtime /\ work'.gate = work.gate
        /\ work'.cursor = work.cursor /\ work'.worker = workers /\ work'.got = work.got
        /\ work'.failed = work.failed /\ work'.lost = work.lost /\ work'.closest = work.closest
    BY <1>1, <2>1, <2>3 DEF State
  <2>5. OneMoves(work, work', w) /\ work'.worker[w].at = "ended"
        /\ work'.worker[w].attempt = work.worker[w].attempt
    BY <2>2, <2>3, <2>4 DEF OneMoves
  <2>6. JobKept(work')
    BY <1>1, <2>4, <2>5, JobMoves DEF JobKept
  <2>7. ServiceKept(work')
    BY <1>1, <1>2, <1>5, <2>4, <2>5, TakesNone
  <2>8. work'.worker[w].attempt <= work.job.policy.maxRetries + 1 /\ work'.worker[w].at \notin Owes
        /\ work'.worker[w].at # "spacing"
    BY <1>1, <2>5 DEF PolicyKept, BudgetKept, Owes
  <2>9. work'.runtime.stats.attempts - work'.runtime.stats.requests - work'.runtime.stats.retries
               + (IF work'.worker[w].at \in Owes THEN 1 ELSE 0)
             = work.runtime.stats.attempts - work.runtime.stats.requests - work.runtime.stats.retries
               + (IF work.worker[w].at \in Owes THEN 1 ELSE 0)
    BY <1>2, <2>4, <2>8
  <2>10. PolicyKept(work')
    BY <1>1, <2>4, <2>5, <2>8, <2>9, PolicyMoves
  <2> QED
    BY <2>4, <2>6, <2>7, <2>10 DEF Kept
<1>6. CASE ~(work.cursor > Len(Batches(work)))
  <2> DEFINE batch == Batches(work)[work.cursor]
             todo == <<batch>>
             next == [Free EXCEPT !.at = "budget", !.batch = batch, !.todo = todo, !.attempt = 1]
             workers == [work.worker EXCEPT ![w] = next]
             gate == Append(work.gate, w)
             cursor == work.cursor + 1
  <2>1. work' = [work EXCEPT !.cursor = cursor, !.gate = gate, !.worker = workers]
    BY <1>6 DEF Take, Batches, Enter
  <2>2. work.cursor \in DOMAIN Batches(work) /\ batch \in Seq(Nat \ {0}) /\ cursor \in Nat
        /\ cursor \in 1..(Len(Batches(work)) + 1) /\ cursor >= work.cursor /\ work.cursor < cursor
        /\ work.cursor <= Len(Batches(work))
    BY <1>3, <1>6
  <2>3. Len(batch) >= 1
    BY <1>1, <2>2 DEF JobKept
  <2>4. gate \in Seq(Nat)
    BY <1>1, <1>3, Fields
  <2>5. todo = <<batch>> /\ todo # <<>> /\ todo \in Seq(Seq(Nat \ {0}))
    <3>1. batch \in Seq(Nat \ {0})
      BY <2>2
    <3> HIDE DEF batch
    <3> QED
      BY <3>1
  <2>6. Free.answers = <<>> /\ Free \in WorkerType /\ "budget" \in Stages /\ 1 \in Nat
    BY FreeType DEF Free, Stages
  <2>7. /\ next \in WorkerType
        /\ next.at = "budget" /\ next.batch = batch /\ next.todo = todo /\ next.answers = <<>>
        /\ next.attempt = 1
    <3> HIDE DEF batch, todo
    <3> QED
      BY <2>2, <2>5, <2>6 DEF WorkerType
  <2> HIDE DEF next
  <2>8. workers \in WorkersType /\ DOMAIN workers = DOMAIN work.worker /\ workers[w] = next
        /\ \A v \in DOMAIN work.worker \ {w} : workers[v] = work.worker[v]
    BY <1>1, <2>7, Moved
  <2>9. gate = Append(work.gate, w) /\ cursor = work.cursor + 1
    OBVIOUS
  <2> HIDE DEF workers, batch, todo, gate, cursor
  <2>10. /\ work' \in State
         /\ work'.at = work.at /\ work'.job = work.job /\ work'.runtime = work.runtime /\ work'.gate = gate
         /\ work'.cursor = cursor /\ work'.worker = workers /\ work'.got = work.got
         /\ work'.failed = work.failed /\ work'.lost = work.lost /\ work'.closest = work.closest
    BY <1>1, <2>1, <2>2, <2>4, <2>8 DEF State
  <2>11. OneMoves(work, work', w) /\ work'.worker[w] = next
    BY <2>8, <2>10 DEF OneMoves
  <2>12. JobKept(work')
    BY <1>1, <2>2, <2>10, <2>11, JobMoves DEF JobKept
  <2>13. Holds(work', w) /\ work'.worker[w].at \notin Owes /\ work'.worker[w].at # "spacing"
    BY <2>7, <2>11 DEF Holds, Holding, Stages, Owes, OneMoves
  <2>14. Tiled(work'.worker[w])
    <3>1. Tiles(batch, <<batch>>, 0)
      BY <2>2, <2>3, WholeTiles
    <3>2. Len(<<>>) = 0
      OBVIOUS
    <3> QED
      BY <2>5, <2>7, <2>11, <3>1, <3>2 DEF Tiled
  <2>15. HeldAt(work', w)
    <3>1. Batches(work') = Batches(work)
      BY <2>10 DEF Batches
    <3>2. batch = Batches(work)[work.cursor]
      BY DEF batch
    <3>3. \E b \in DOMAIN Batches(work') : b < work'.cursor /\ work'.worker[w].batch = Batches(work')[b]
      BY <2>2, <2>7, <2>10, <2>11, <3>1, <3>2
    <3>4. work'.worker[w].todo = <<work'.worker[w].batch>> /\ work'.worker[w].answers = <<>>
          /\ work'.worker[w].todo # <<>>
      BY <2>5, <2>7, <2>11
    <3>5. \A k \in DOMAIN work'.worker[w].answers :
             work'.worker[w].answers[k] = Answer(work', work'.worker[w].batch[k])
      BY <3>4
    <3> QED
      BY <2>14, <3>3, <3>4, <3>5 DEF HeldAt
  <2>16. ServiceKept(work')
    <3>1. work'.worker[w].batch = Batches(work)[work.cursor] /\ work'.cursor = work.cursor + 1
      BY <2>7, <2>9, <2>10, <2>11 DEF batch
    <3> QED
      BY <1>1, <1>2, <2>2, <2>10, <2>11, <2>13, <2>15, <3>1, Takes
  <2>17. work'.worker[w].attempt <= work.job.policy.maxRetries + 1
    BY <1>4, <2>7, <2>11
  <2>18. work'.runtime.stats.attempts - work'.runtime.stats.requests - work'.runtime.stats.retries
               + (IF work'.worker[w].at \in Owes THEN 1 ELSE 0)
             = work.runtime.stats.attempts - work.runtime.stats.requests - work.runtime.stats.retries
               + (IF work.worker[w].at \in Owes THEN 1 ELSE 0)
    BY <1>2, <2>10, <2>13
  <2>19. work'.gate = Append(work.gate, w)
    BY <2>9, <2>10
  <2>20. PolicyKept(work')
    BY <1>1, <2>10, <2>11, <2>13, <2>17, <2>18, <2>19, PolicyMoves
  <2> QED
    BY <2>10, <2>12, <2>16, <2>20 DEF Kept
<1> QED
  BY <1>5, <1>6

LEMMA QueueKept ==
    ASSUME Good, NEW w \in DOMAIN work.worker, QueueAttempt(w)
    PROVE  work' \in State /\ Kept(work')
<1>1. work \in State /\ JobKept(work) /\ PolicyKept(work) /\ ServiceKept(work)
  BY Goods
<1>2. work.worker[w].at \in Owes /\ Holds(work, w)
  BY DEF QueueAttempt, Holds, Holding, Stages, Owes
<1> DEFINE me == work.worker[w]
           next == [me EXCEPT !.at = "attempt"]
           workers == [work.worker EXCEPT ![w] = next]
           gate == Append(work.gate, w)
<1>3. work' = [work EXCEPT !.gate = gate, !.worker = workers]
  BY DEF QueueAttempt, Enter
<1>4. me \in WorkerType /\ "attempt" \in Stages
  BY <1>1, WorkerPut DEF Stages
<1>5. gate \in Seq(Nat)
  <2>1. w \in 1..work.job.workers /\ work.job.workers \in Nat
    BY <1>1, Positions
  <2>2. w \in Nat /\ work.gate \in Seq(Nat)
    BY <1>1, <2>1, Fields
  <2> QED
    BY <2>2
<1>6. /\ next \in WorkerType /\ next.at = "attempt" /\ next.attempt = me.attempt /\ next.batch = me.batch
      /\ next.todo = me.todo /\ next.answers = me.answers
  <2> HIDE DEF me
  <2> QED
    BY <1>4 DEF WorkerType
<1> HIDE DEF next
<1>7. workers \in WorkersType /\ DOMAIN workers = DOMAIN work.worker /\ workers[w] = next
      /\ \A v \in DOMAIN work.worker \ {w} : workers[v] = work.worker[v]
  BY <1>1, <1>6, Moved
<1>8. gate = Append(work.gate, w)
  OBVIOUS
<1> HIDE DEF workers, gate
<1>9. /\ work' \in State
      /\ work'.at = work.at /\ work'.job = work.job /\ work'.runtime = work.runtime /\ work'.gate = gate
      /\ work'.cursor = work.cursor /\ work'.worker = workers /\ work'.got = work.got
      /\ work'.failed = work.failed /\ work'.lost = work.lost /\ work'.closest = work.closest
  BY <1>1, <1>3, <1>5, <1>7 DEF State
<1>10. OneMoves(work, work', w) /\ work'.worker[w] = next
  BY <1>7, <1>9 DEF OneMoves
<1>11. JobKept(work')
  BY <1>1, <1>9, <1>10, JobMoves DEF JobKept
<1>12. work'.worker[w].at \in Holding /\ work'.worker[w].at \in Owes /\ work'.worker[w].at # "spacing"
  BY <1>6, <1>10 DEF Holding, Stages, Owes
<1>13. ServiceKept(work')
  BY <1>1, <1>2, <1>6, <1>9, <1>10, <1>12, StaysSame
<1>14. work'.worker[w].attempt <= work.job.policy.maxRetries + 1
  BY <1>1, <1>6, <1>10 DEF PolicyKept, BudgetKept
<1>15. work'.runtime.stats.attempts - work'.runtime.stats.requests - work'.runtime.stats.retries
               + (IF work'.worker[w].at \in Owes THEN 1 ELSE 0)
             = work.runtime.stats.attempts - work.runtime.stats.requests - work.runtime.stats.retries
               + (IF work.worker[w].at \in Owes THEN 1 ELSE 0)
  BY <1>2, <1>9, <1>12
<1>16. work'.gate = Append(work.gate, w)
  BY <1>8, <1>9
<1>17. PolicyKept(work')
  BY <1>1, <1>9, <1>10, <1>12, <1>14, <1>15, <1>16, PolicyMoves
<1> QED
  BY <1>9, <1>11, <1>13, <1>17 DEF Kept

LEMMA Reserved ==
    ASSUME NEW r, r \in RuntimeType, NEW tokens \in Nat, NEW q, q = Policy!reserveBudget(r, tokens)
    PROVE  /\ q \in RuntimeType /\ q.policy = r.policy /\ q.now = r.now /\ q.lastRequestAt = r.lastRequestAt
           /\ q.stats.requests = r.stats.requests + 1 /\ q.stats.attempts = r.stats.attempts
           /\ q.stats.estimatedTokens = r.stats.estimatedTokens + tokens
           /\ q.stats.retries = r.stats.retries /\ q.stats.finalFailures = r.stats.finalFailures
           /\ q.stats.failures = r.stats.failures
<1> DEFINE f == r.stats
           requests == f.requests + 1
           spent == f.estimatedTokens + tokens
           g == [f EXCEPT !.requests = requests, !.estimatedTokens = spent]
<1>1. f \in StatsType /\ requests \in Nat /\ spent \in Nat
  BY RuntimeFields, StatsFields
<1>2. q = [r EXCEPT !.stats = g]
  BY DEF Policy!reserveBudget
<1>3. requests = f.requests + 1 /\ spent = f.estimatedTokens + tokens
  OBVIOUS
<1> HIDE DEF f, requests, spent
<1>4. /\ g \in StatsType /\ g.requests = requests /\ g.estimatedTokens = spent /\ g.attempts = f.attempts
      /\ g.retries = f.retries /\ g.finalFailures = f.finalFailures /\ g.failures = f.failures
  BY <1>1 DEF StatsType
<1> HIDE DEF g
<1>5. /\ q \in RuntimeType /\ q.stats = g /\ q.policy = r.policy /\ q.now = r.now
      /\ q.lastRequestAt = r.lastRequestAt
  BY <1>2, <1>4 DEF RuntimeType
<1> QED
  BY <1>3, <1>4, <1>5 DEF f

LEMMA Attempted ==
    ASSUME NEW r, r \in RuntimeType, NEW q, q = Policy!reserveAttempt(r)
    PROVE  /\ q \in RuntimeType /\ q.policy = r.policy /\ q.now = r.now /\ q.lastRequestAt = r.now
           /\ q.stats.requests = r.stats.requests /\ q.stats.attempts = r.stats.attempts + 1
           /\ q.stats.estimatedTokens = r.stats.estimatedTokens
           /\ q.stats.retries = r.stats.retries /\ q.stats.finalFailures = r.stats.finalFailures
           /\ q.stats.failures = r.stats.failures
<1> DEFINE f == r.stats
           attempts == f.attempts + 1
           now == r.now
           g == [f EXCEPT !.attempts = attempts]
<1>1. f \in StatsType /\ attempts \in Nat /\ now \in Nat
  BY RuntimeFields, StatsFields
<1>2. q = [r EXCEPT !.stats = g, !.lastRequestAt = now]
  BY DEF Policy!reserveAttempt
<1>3. attempts = f.attempts + 1 /\ now = r.now
  OBVIOUS
<1> HIDE DEF f, attempts, now
<1>4. /\ g \in StatsType /\ g.requests = f.requests /\ g.estimatedTokens = f.estimatedTokens
      /\ g.attempts = attempts
      /\ g.retries = f.retries /\ g.finalFailures = f.finalFailures /\ g.failures = f.failures
  BY <1>1 DEF StatsType
<1> HIDE DEF g
<1>5. q \in RuntimeType /\ q.stats = g /\ q.policy = r.policy /\ q.now = r.now /\ q.lastRequestAt = now
  BY <1>1, <1>2, <1>4 DEF RuntimeType
<1> QED
  BY <1>3, <1>4, <1>5 DEF f

LEMMA TokensType ==
    ASSUME NEW texts \in Seq(Nat \ {0})
    PROVE  Policy!estimatedTokens(texts) \in Nat
BY DEF Policy!estimatedTokens

LEMMA LeaveType ==
    ASSUME work \in State, NEW w, First(w)
    PROVE  Leave \in Seq(Nat) /\ work.gate # <<>> /\ Head(work.gate) = w
BY Fields DEF Leave, First

LEMMA ReserveKept ==
    ASSUME Good, NEW w \in DOMAIN work.worker, ReserveBudget(w)
    PROVE  work' \in State /\ Kept(work')
<1>1. work \in State /\ JobKept(work) /\ PolicyKept(work) /\ ServiceKept(work)
  BY Goods
<1>2. work.worker[w].at = "budget" /\ First(w)
  BY DEF ReserveBudget, Turn
<1>3. Holds(work, w) /\ work.worker[w].at \notin Owes
  BY <1>2 DEF Holds, Holding, Stages, Owes
<1> DEFINE gate == Leave
           me == work.worker[w]
           tokens == Policy!estimatedTokens(Head(me.todo))
<1>4. gate \in Seq(Nat) /\ work.gate # <<>> /\ Head(work.gate) = w
  BY <1>1, <1>2, LeaveType
<1>5. me \in WorkerType /\ tokens \in Nat
  <2>1. me \in WorkerType /\ me.todo \in Seq(Seq(Nat \ {0})) /\ me.todo # <<>>
    BY <1>1, <1>3, Held
  <2>2. Head(me.todo) \in Seq(Nat \ {0})
    BY <2>1
  <2> QED
    BY <2>1, <2>2, TokensType
<1>6. work.runtime \in RuntimeType /\ work.runtime.policy = work.job.policy
  BY <1>1, Fields DEF JobKept
<1>7. /\ work.runtime.stats.attempts \in Nat /\ work.runtime.stats.requests \in Nat
      /\ work.runtime.stats.retries \in Nat /\ work.runtime.stats.finalFailures \in Nat
      /\ work.runtime.stats.estimatedTokens \in Nat /\ Total(work.runtime.stats.failures) \in Nat
  BY <1>6, RuntimeFields, StatsFields DEF Total, FailureType
<1>8. CASE Policy!budgetExhausted(work.runtime, tokens)
  <2> DEFINE q == ForGood(work.runtime, "budgetExhausted")
             u == GiveUp(w, Exhausted)
  <2>1. work' = [u EXCEPT !.runtime = q, !.gate = gate]
    BY <1>8 DEF ReserveBudget, ForGood
  <2>2. /\ q \in RuntimeType /\ q.policy = work.runtime.policy /\ q.now = work.runtime.now
        /\ q.lastRequestAt = work.runtime.lastRequestAt
        /\ q.stats.requests = work.runtime.stats.requests /\ q.stats.attempts = work.runtime.stats.attempts
        /\ q.stats.estimatedTokens = work.runtime.stats.estimatedTokens
        /\ q.stats.retries = work.runtime.stats.retries
        /\ q.stats.finalFailures = work.runtime.stats.finalFailures + 1
        /\ Total(q.stats.failures) = Total(work.runtime.stats.failures) + 1
    <3>1. "budgetExhausted" \in FailureKinds
      BY DEF FailureKinds
    <3> QED
      BY <1>6, <3>1, FinallyFailed
  <2>3. Outcome(u, w)
    BY <1>1, <1>3, NoRefusal, GiveUpOutcome
  <2> HIDE DEF q, u, gate
  <2>4. u \in State
    BY <2>3 DEF Outcome
  <2>5. /\ work' \in State
        /\ work'.at = u.at /\ work'.job = u.job /\ work'.runtime = q /\ work'.gate = gate
        /\ work'.cursor = u.cursor /\ work'.worker = u.worker /\ work'.got = u.got
        /\ work'.failed = u.failed /\ work'.lost = u.lost /\ work'.closest = u.closest
    BY <1>4, <2>1, <2>2, <2>4 DEF State
  <2>6. Total(work'.runtime.stats.failures) - work'.runtime.stats.retries - work'.runtime.stats.finalFailures
             = Total(work.runtime.stats.failures) - work.runtime.stats.retries - work.runtime.stats.finalFailures
    BY <1>7, <2>2, <2>5
  <2>7. Costs(work', u, w)
    BY <1>4, <2>2, <2>5, <2>6 DEF Costs
  <2>8. Kept(work')
    BY <1>3, <2>3, <2>7, OutcomeKept
  <2> QED
    BY <2>5, <2>8
<1>9. CASE ~Policy!budgetExhausted(work.runtime, tokens)
  <2> DEFINE q == Policy!reserveBudget(work.runtime, tokens)
             next == [me EXCEPT !.at = "reserved"]
             workers == [work.worker EXCEPT ![w] = next]
  <2>1. work' = [work EXCEPT !.runtime = q, !.gate = gate, !.worker = workers]
    BY <1>9 DEF ReserveBudget
  <2>2. /\ q \in RuntimeType /\ q.policy = work.runtime.policy /\ q.now = work.runtime.now
        /\ q.lastRequestAt = work.runtime.lastRequestAt
        /\ q.stats.requests = work.runtime.stats.requests + 1 /\ q.stats.attempts = work.runtime.stats.attempts
        /\ q.stats.estimatedTokens = work.runtime.stats.estimatedTokens + tokens
        /\ q.stats.retries = work.runtime.stats.retries
        /\ q.stats.finalFailures = work.runtime.stats.finalFailures
        /\ q.stats.failures = work.runtime.stats.failures
    <3> DEFINE r == work.runtime
    <3>1. r \in RuntimeType /\ tokens \in Nat /\ q = Policy!reserveBudget(r, tokens)
      BY <1>5, <1>6
    <3> HIDE DEF q, tokens, r
    <3>2. /\ q \in RuntimeType /\ q.policy = r.policy /\ q.now = r.now /\ q.lastRequestAt = r.lastRequestAt
          /\ q.stats.requests = r.stats.requests + 1 /\ q.stats.attempts = r.stats.attempts
          /\ q.stats.estimatedTokens = r.stats.estimatedTokens + tokens
          /\ q.stats.retries = r.stats.retries /\ q.stats.finalFailures = r.stats.finalFailures
          /\ q.stats.failures = r.stats.failures
      BY <3>1, Reserved
    <3> QED
      BY <3>2 DEF r
  <2>3. /\ \A most \in work.job.policy.maxRequests : q.stats.requests <= most
        /\ \A most \in work.job.policy.maxEstimatedTokens : q.stats.estimatedTokens <= most
    <3>1. /\ \A most \in work.job.policy.maxRequests : ~(work.runtime.stats.requests + 1 > most)
          /\ \A most \in work.job.policy.maxEstimatedTokens : ~(work.runtime.stats.estimatedTokens + tokens > most)
      BY <1>6, <1>9 DEF Policy!budgetExhausted
    <3>2. work.job.policy.maxRequests \in SUBSET Nat /\ work.job.policy.maxEstimatedTokens \in SUBSET Nat
      BY <1>1, Fields, JobFields, PolicyFields
    <3>3. work.runtime.stats.requests + 1 \in Nat /\ work.runtime.stats.estimatedTokens + tokens \in Nat
      BY <1>5, <1>7
    <3> HIDE DEF q, tokens
    <3> QED
      BY <2>2, <3>1, <3>2, <3>3
  <2> HIDE DEF q, gate, tokens
  <2>4. /\ next \in WorkerType /\ next.at = "reserved" /\ next.attempt = me.attempt /\ next.batch = me.batch
        /\ next.todo = me.todo /\ next.answers = me.answers
    <3>1. "reserved" \in Stages
      BY DEF Stages
    <3> HIDE DEF me
    <3> QED
      BY <1>5, <3>1 DEF WorkerType
  <2> HIDE DEF next
  <2>5. workers \in WorkersType /\ DOMAIN workers = DOMAIN work.worker /\ workers[w] = next
        /\ \A v \in DOMAIN work.worker \ {w} : workers[v] = work.worker[v]
    BY <1>1, <2>4, Moved
  <2> HIDE DEF workers
  <2>6. /\ work' \in State
        /\ work'.at = work.at /\ work'.job = work.job /\ work'.runtime = q /\ work'.gate = gate
        /\ work'.cursor = work.cursor /\ work'.worker = workers /\ work'.got = work.got
        /\ work'.failed = work.failed /\ work'.lost = work.lost /\ work'.closest = work.closest
    BY <1>1, <1>4, <2>1, <2>2, <2>5 DEF State
  <2>7. OneMoves(work, work', w) /\ work'.worker[w] = next
    BY <2>5, <2>6 DEF OneMoves
  <2>8. JobKept(work')
    BY <1>1, <2>2, <2>6, <2>7, JobMoves DEF JobKept
  <2>9. work'.worker[w].at \in Holding /\ work'.worker[w].at \in Owes /\ work'.worker[w].at # "spacing"
    BY <2>4, <2>7 DEF Holding, Stages, Owes
  <2>10. ServiceKept(work')
    BY <1>1, <1>3, <2>4, <2>6, <2>7, <2>9, StaysSame
  <2>11. BudgetKept(work)
    BY <1>1 DEF PolicyKept
  <2>12. BudgetKept(work')
    BY <2>3, <2>4, <2>5, <2>6, <2>11 DEF BudgetKept
  <2>13. SpacingKept(work')
    <3>1. work'.runtime.now = work.runtime.now /\ work'.runtime.lastRequestAt = work.runtime.lastRequestAt
      BY <2>2, <2>6
    <3> QED
      BY <1>1, <1>4, <2>6, <2>7, <2>9, <3>1, SpacingMoves DEF PolicyKept
  <2>14. work'.runtime.stats.attempts - work'.runtime.stats.requests - work'.runtime.stats.retries
               + (IF work'.worker[w].at \in Owes THEN 1 ELSE 0)
             = work.runtime.stats.attempts - work.runtime.stats.requests - work.runtime.stats.retries
               + (IF work.worker[w].at \in Owes THEN 1 ELSE 0)
    BY <1>3, <1>7, <2>2, <2>6, <2>9
  <2>15. Total(work'.runtime.stats.failures) - work'.runtime.stats.retries - work'.runtime.stats.finalFailures
             = Total(work.runtime.stats.failures) - work.runtime.stats.retries - work.runtime.stats.finalFailures
    BY <2>2, <2>6
  <2>16. CountsKept(work')
    BY <1>1, <2>6, <2>7, <2>14, <2>15, CountsMove DEF PolicyKept
  <2> QED
    BY <2>6, <2>8, <2>10, <2>12, <2>13, <2>16 DEF Kept, PolicyKept
<1> QED
  BY <1>8, <1>9

LEMMA StartKept ==
    ASSUME Good, NEW w \in DOMAIN work.worker, StartCall(w)
    PROVE  work' \in State /\ Kept(work')
<1>1. work \in State /\ JobKept(work) /\ PolicyKept(work) /\ ServiceKept(work)
  BY Goods
<1> DEFINE gate == Leave
           me == work.worker[w]
           wait == Policy!rateLimitDelay(work.runtime)
           now == work.runtime.now
           last == work.runtime.lastRequestAt
           delay == work.job.policy.minDelay
<1>2. me.at \in {"attempt", "spacing"} /\ First(w) /\ (me.at = "spacing" => now >= me.wake)
  BY DEF StartCall, Turn
<1>3. Holds(work, w) /\ me.at \in Owes
  BY <1>2 DEF Holds, Holding, Stages, Owes
<1>4. gate \in Seq(Nat) /\ work.gate # <<>> /\ Head(work.gate) = w
  BY <1>1, <1>2, LeaveType
<1>5. me \in WorkerType /\ me.wake \in Int
  BY <1>1, WorkerPut, WorkerFields
<1>6. work.runtime \in RuntimeType /\ work.runtime.policy = work.job.policy /\ work.job.policy \in PolicyType
  BY <1>1, Fields, JobFields DEF JobKept
<1>7. /\ work.runtime.stats.attempts \in Nat /\ work.runtime.stats.requests \in Nat
      /\ work.runtime.stats.retries \in Nat /\ work.runtime.stats.finalFailures \in Nat
      /\ now \in Nat /\ last \in Nat /\ delay \in Nat /\ work.job.policy.timeout \in Nat /\ work.closest \in Nat
  BY <1>1, <1>6, Fields, RuntimeFields, StatsFields, PolicyFields
<1>8. SpacingKept(work) /\ BudgetKept(work) /\ CountsKept(work) /\ last <= now
  BY <1>1 DEF PolicyKept, SpacingKept
<1>9. wait = IF last = 0 \/ now - last >= delay THEN 0 ELSE delay - (now - last)
  BY <1>6 DEF Policy!rateLimitDelay
<1>10. CASE me.at = "attempt" /\ wait > 0
  <2> DEFINE wake == now + wait
             next == [me EXCEPT !.at = "spacing", !.wake = wake]
             workers == [work.worker EXCEPT ![w] = next]
  <2>1. work' = [work EXCEPT !.worker = workers]
    BY <1>10 DEF StartCall
  <2>2. wake = last + delay /\ wake \in Int
    <3>1. wait = delay - (now - last)
      BY <1>9, <1>10
    <3> HIDE DEF wait
    <3> QED
      BY <1>7, <3>1
  <2> HIDE DEF wake
  <2>3. /\ next \in WorkerType /\ next.at = "spacing" /\ next.attempt = me.attempt /\ next.batch = me.batch
        /\ next.todo = me.todo /\ next.answers = me.answers /\ next.wake = wake
    <3>1. "spacing" \in Stages
      BY DEF Stages
    <3> HIDE DEF me
    <3> QED
      BY <1>5, <2>2, <3>1 DEF WorkerType
  <2> HIDE DEF next
  <2>4. workers \in WorkersType /\ DOMAIN workers = DOMAIN work.worker /\ workers[w] = next
        /\ \A v \in DOMAIN work.worker \ {w} : workers[v] = work.worker[v]
    BY <1>1, <2>3, Moved
  <2> HIDE DEF workers
  <2>5. /\ work' \in State
        /\ work'.at = work.at /\ work'.job = work.job /\ work'.runtime = work.runtime /\ work'.gate = work.gate
        /\ work'.cursor = work.cursor /\ work'.worker = workers /\ work'.got = work.got
        /\ work'.failed = work.failed /\ work'.lost = work.lost /\ work'.closest = work.closest
    BY <1>1, <2>1, <2>4 DEF State
  <2>6. OneMoves(work, work', w) /\ work'.worker[w] = next
    BY <2>4, <2>5 DEF OneMoves
  <2>7. JobKept(work')
    BY <1>1, <2>5, <2>6, JobMoves DEF JobKept
  <2>8. work'.worker[w].at \in Holding /\ work'.worker[w].at \in Owes
    BY <2>3, <2>6 DEF Holding, Stages, Owes
  <2>9. ServiceKept(work')
    BY <1>1, <1>3, <2>3, <2>5, <2>6, <2>8, StaysSame
  <2>10. BudgetKept(work')
    BY <1>8, <2>3, <2>4, <2>5 DEF BudgetKept
  <2>11. SpacingKept(work')
    <3>1. ASSUME NEW v \in DOMAIN work'.worker, work'.worker[v].at = "spacing"
          PROVE  /\ work'.gate # <<>> /\ Head(work'.gate) = v
                 /\ work'.worker[v].wake >= work'.runtime.lastRequestAt + work'.job.policy.minDelay
      <4>1. CASE v = w
        <5>1. work'.worker[v].wake = last + delay
          BY <2>2, <2>3, <2>6, <4>1
        <5> QED
          BY <1>4, <1>7, <2>5, <4>1, <5>1
      <4>2. CASE v # w
        BY <1>8, <2>4, <2>5, <3>1, <4>2 DEF SpacingKept
      <4> QED
        BY <4>1, <4>2
    <3> QED
      BY <1>8, <2>5, <3>1 DEF SpacingKept
  <2>12. CountsKept(work')
    <3>1. work'.runtime.stats.attempts - work'.runtime.stats.requests - work'.runtime.stats.retries
               + (IF work'.worker[w].at \in Owes THEN 1 ELSE 0)
             = work.runtime.stats.attempts - work.runtime.stats.requests - work.runtime.stats.retries
               + (IF work.worker[w].at \in Owes THEN 1 ELSE 0)
      BY <1>3, <2>5, <2>8
    <3>2. Total(work'.runtime.stats.failures) - work'.runtime.stats.retries - work'.runtime.stats.finalFailures
             = Total(work.runtime.stats.failures) - work.runtime.stats.retries - work.runtime.stats.finalFailures
      BY <2>5
    <3> QED
      BY <1>1, <1>8, <2>5, <2>6, <3>1, <3>2, CountsMove
  <2> QED
    BY <2>5, <2>7, <2>9, <2>10, <2>11, <2>12 DEF Kept, PolicyKept
<1>11. CASE ~(me.at = "attempt" /\ wait > 0)
  <2> DEFINE q == Policy!reserveAttempt(work.runtime)
             wake == now + work.job.policy.timeout
             closest == IF last = 0 THEN work.closest ELSE Policy!Least(work.closest, now - last)
             next == [me EXCEPT !.at = "calling", !.wake = wake]
             workers == [work.worker EXCEPT ![w] = next]
  <2>1. work' = [work EXCEPT !.runtime = q, !.gate = gate, !.worker = workers, !.closest = closest]
    BY <1>11 DEF StartCall
  <2>2. /\ q \in RuntimeType /\ q.policy = work.runtime.policy /\ q.now = now /\ q.lastRequestAt = now
        /\ q.stats.requests = work.runtime.stats.requests /\ q.stats.attempts = work.runtime.stats.attempts + 1
        /\ q.stats.estimatedTokens = work.runtime.stats.estimatedTokens
        /\ q.stats.retries = work.runtime.stats.retries
        /\ q.stats.finalFailures = work.runtime.stats.finalFailures
        /\ q.stats.failures = work.runtime.stats.failures
    BY <1>6, Attempted
  <2>3. wake \in Int
    BY <1>7
  <2>4. last = 0 \/ now - last >= delay
    <3>1. CASE me.at = "attempt"
      <4>1. ~(wait > 0)
        BY <1>11, <3>1
      <4>2. CASE last = 0 \/ now - last >= delay
        BY <4>2
      <4>3. CASE ~(last = 0 \/ now - last >= delay)
        <5>1. wait = delay - (now - last)
          BY <1>9, <4>3
        <5> HIDE DEF wait
        <5> QED
          BY <1>7, <4>1, <4>3, <5>1
      <4> QED
        BY <4>2, <4>3
    <3>2. CASE me.at = "spacing"
      <4>1. me.wake >= last + delay /\ now >= me.wake
        BY <1>2, <1>8, <3>2 DEF SpacingKept
      <4> QED
        BY <1>5, <1>7, <4>1
    <3> QED
      BY <1>2, <3>1, <3>2
  <2>5. closest \in Nat /\ (closest >= delay \/ closest = MaxTime)
    <3>1. work.closest >= delay \/ work.closest = MaxTime
      BY <1>8 DEF SpacingKept
    <3> HIDE DEF now, last, delay
    <3> QED
      BY <1>7, <1>8, <2>4, <3>1 DEF Policy!Least
  <2> HIDE DEF q, gate, wake, closest
  <2>6. /\ next \in WorkerType /\ next.at = "calling" /\ next.attempt = me.attempt /\ next.batch = me.batch
        /\ next.todo = me.todo /\ next.answers = me.answers
    <3>1. "calling" \in Stages
      BY DEF Stages
    <3> HIDE DEF me
    <3> QED
      BY <1>5, <2>3, <3>1 DEF WorkerType
  <2> HIDE DEF next
  <2>7. workers \in WorkersType /\ DOMAIN workers = DOMAIN work.worker /\ workers[w] = next
        /\ \A v \in DOMAIN work.worker \ {w} : workers[v] = work.worker[v]
    BY <1>1, <2>6, Moved
  <2> HIDE DEF workers
  <2>8. /\ work' \in State
        /\ work'.at = work.at /\ work'.job = work.job /\ work'.runtime = q /\ work'.gate = gate
        /\ work'.cursor = work.cursor /\ work'.worker = workers /\ work'.got = work.got
        /\ work'.failed = work.failed /\ work'.lost = work.lost /\ work'.closest = closest
    BY <1>1, <1>4, <2>1, <2>2, <2>5, <2>7 DEF State
  <2>9. OneMoves(work, work', w) /\ work'.worker[w] = next
    BY <2>7, <2>8 DEF OneMoves
  <2>10. JobKept(work')
    BY <1>1, <2>2, <2>8, <2>9, JobMoves DEF JobKept
  <2>11. work'.worker[w].at \in Holding /\ work'.worker[w].at \notin Owes /\ work'.worker[w].at # "spacing"
    BY <2>6, <2>9 DEF Holding, Stages, Owes
  <2>12. ServiceKept(work')
    BY <1>1, <1>3, <2>6, <2>8, <2>9, <2>11, StaysSame
  <2>13. BudgetKept(work')
    BY <1>8, <2>2, <2>6, <2>7, <2>8 DEF BudgetKept
  <2>14. SpacingKept(work')
    <3>1. \A v \in DOMAIN work'.worker : work'.worker[v].at # "spacing"
      BY <1>4, <1>8, <2>7, <2>8, <2>9, <2>11 DEF SpacingKept
    <3> QED
      BY <1>7, <1>8, <2>2, <2>5, <2>8, <3>1 DEF SpacingKept
  <2>15. CountsKept(work')
    <3>1. work'.runtime.stats.attempts - work'.runtime.stats.requests - work'.runtime.stats.retries
               + (IF work'.worker[w].at \in Owes THEN 1 ELSE 0)
             = work.runtime.stats.attempts - work.runtime.stats.requests - work.runtime.stats.retries
               + (IF work.worker[w].at \in Owes THEN 1 ELSE 0)
      BY <1>3, <1>7, <2>2, <2>8, <2>11
    <3>2. Total(work'.runtime.stats.failures) - work'.runtime.stats.retries - work'.runtime.stats.finalFailures
             = Total(work.runtime.stats.failures) - work.runtime.stats.retries - work.runtime.stats.finalFailures
      BY <2>2, <2>8
    <3> QED
      BY <1>1, <1>8, <2>8, <2>9, <3>1, <3>2, CountsMove
  <2> QED
    BY <2>8, <2>10, <2>12, <2>13, <2>14, <2>15 DEF Kept, PolicyKept
<1> QED
  BY <1>10, <1>11

LEMMA TickKept ==
    ASSUME Good, Tick
    PROVE  work' \in State /\ Kept(work')
<1>1. work \in State /\ JobKept(work) /\ PolicyKept(work) /\ ServiceKept(work)
  BY Goods
<1>2. work.runtime \in RuntimeType /\ work.runtime.now \in Nat /\ work.runtime.lastRequestAt \in Nat
  BY <1>1, Fields, RuntimeFields
<1> DEFINE now == work.runtime.now + 1
           q == [work.runtime EXCEPT !.now = now]
<1>3. work' = [work EXCEPT !.runtime = q]
  BY DEF Tick
<1>4. now \in Nat /\ now >= 1 /\ (work.runtime.lastRequestAt <= work.runtime.now => work.runtime.lastRequestAt <= now)
  BY <1>2
<1> HIDE DEF now
<1>5. /\ q \in RuntimeType /\ q.now = now /\ q.policy = work.runtime.policy /\ q.stats = work.runtime.stats
      /\ q.lastRequestAt = work.runtime.lastRequestAt
  <2> DEFINE r == work.runtime
  <2> HIDE DEF r
  <2> QED
    BY <1>2, <1>4 DEF RuntimeType, r
<1> HIDE DEF q
<1>6. /\ work' \in State
      /\ work'.at = work.at /\ work'.job = work.job /\ work'.runtime = q /\ work'.gate = work.gate
      /\ work'.cursor = work.cursor /\ work'.worker = work.worker /\ work'.got = work.got
      /\ work'.failed = work.failed /\ work'.lost = work.lost /\ work'.closest = work.closest
  BY <1>1, <1>3, <1>5 DEF State
<1>7. JobKept(work')
  BY <1>1, <1>5, <1>6 DEF JobKept, Batches
<1>8. ServiceKept(work')
  BY <1>1, <1>6, ServiceReads
<1>9. BudgetKept(work')
  BY <1>1, <1>5, <1>6 DEF PolicyKept, BudgetKept
<1>10. SpacingKept(work')
  BY <1>1, <1>4, <1>5, <1>6 DEF PolicyKept, SpacingKept
<1>11. Owing(work') = Owing(work)
  BY <1>6 DEF Owing
<1>12. CountsKept(work')
  BY <1>1, <1>5, <1>6, <1>11 DEF PolicyKept, CountsKept
<1> QED
  BY <1>6, <1>7, <1>8, <1>9, <1>10, <1>12 DEF Kept, PolicyKept
-----------------------------------------------------------------------------
(* The beginning of a phase. *)

LEMMA WithinChunks ==
    ASSUME NEW n \in Nat, NEW size \in Nat \ {0}, NEW b \in 1..((n + size - 1) \div size)
    PROVE  /\ (b - 1) * size \in Nat /\ b * size \in Nat
           /\ (b - 1) * size + 1 <= n /\ (b - 1) * size + 1 <= b * size
<1> DEFINE count == (n + size - 1) \div size
           last == count * size
           mine == b * size
           before == (b - 1) * size
<1>1. count \in Int /\ b \in Int /\ b >= 1 /\ b <= count
  OBVIOUS
<1>2. last <= n + size - 1
  OBVIOUS
<1> HIDE DEF count
<1>3. mine <= last
  BY <1>1
<1>4. before = mine - size
  BY <1>1
<1>5. before \in Nat /\ mine \in Nat
  BY <1>1
<1> HIDE DEF last, mine, before
<1>6. last \in Int
  BY <1>1 DEF last
<1>7. before + 1 <= n /\ before + 1 <= mine
  BY <1>2, <1>3, <1>4, <1>5, <1>6
<1> QED
  BY <1>5, <1>7 DEF mine, before

LEMMA ChunksType ==
    ASSUME NEW texts \in Seq(Nat \ {0}), NEW size \in Nat \ {0}
    PROVE  /\ chunks(texts, size) \in Seq(Seq(Nat \ {0}))
           /\ \A b \in DOMAIN chunks(texts, size) : Len(chunks(texts, size)[b]) >= 1
<1> DEFINE n == Len(texts)
           count == (n + size - 1) \div size
           chunk(b) == SubSeq(texts, (b - 1) * size + 1, Policy!Least(b * size, n))
<1>1. n \in Nat /\ count \in Nat
  <2>1. n + size - 1 \in Nat
    OBVIOUS
  <2> QED
    BY <2>1
<1>2. ASSUME NEW b \in 1..count
      PROVE  chunk(b) \in Seq(Nat \ {0}) /\ Len(chunk(b)) >= 1
  <2> DEFINE low == (b - 1) * size
             high == Policy!Least(b * size, n)
  <2>1. low \in Nat /\ b * size \in Nat /\ low + 1 <= n /\ low + 1 <= b * size
    BY <1>1, <1>2, WithinChunks
  <2>2. high \in Nat /\ low + 1 <= high /\ high <= n
    BY <1>1, <2>1 DEF Policy!Least
  <2> HIDE DEF low, high
  <2>3. low + 1 \in 1..n + 1 /\ high \in low + 1 - 1..n
    BY <1>1, <2>1, <2>2
  <2>4. SubSeq(texts, low + 1, high) \in Seq(Nat \ {0}) /\ Len(SubSeq(texts, low + 1, high)) = high - low
    BY <1>1, <2>1, <2>2, <2>3, SubSeqProperties
  <2> QED
    BY <2>1, <2>2, <2>4 DEF low, high
<1>3. chunks(texts, size) = [b \in 1..count |-> chunk(b)]
  BY DEF chunks
<1> HIDE DEF chunk, count
<1> QED
  BY <1>1, <1>2, <1>3

\* What a phase asks, in parts.
Parts(request, batches) ==
    /\ request.kind \in {"embeddings", "summaries", "graph"}
    /\ batches \in Seq(Seq(Nat \ {0}))
    /\ \A b \in DOMAIN batches : Len(batches[b]) >= 1 /\ (request.kind # "embeddings" => Len(batches[b]) = 1)
    /\ request.kind = "summaries" => \A b, c \in DOMAIN batches : batches[b] = batches[c] => b = c

LEMMA BatchesType ==
    ASSUME RequestsAssumption, NEW request \in Requests
    PROVE  Parts(request, BatchesOf(request))
<1> DEFINE batches == BatchesOf(request)
<1> SUFFICES Parts(request, batches)
  OBVIOUS
<1>1. CASE /\ request.kind = "embeddings"
           /\ request.texts \in Seq(Nat \ {0}) /\ request.size \in Nat \ {0}
  <2>1. batches = chunks(request.texts, request.size)
    BY <1>1 DEF BatchesOf
  <2> HIDE DEF batches
  <2> QED
    BY <1>1, <2>1, ChunksType DEF Parts
<1>2. CASE /\ request.kind = "summaries"
           /\ LET tasks == buildSummaryTasks(request.files, request.level) IN
              /\ tasks \in Seq(Seq(Nat \ {0}))
              /\ \A b, c \in DOMAIN tasks : Len(tasks[b]) = 1 /\ (tasks[b] = tasks[c] => b = c)
  <2> DEFINE tasks == buildSummaryTasks(request.files, request.level)
  <2>1. batches = tasks
    BY <1>2 DEF BatchesOf
  <2>2. tasks \in Seq(Seq(Nat \ {0})) /\ \A b \in DOMAIN tasks : Len(tasks[b]) = 1
    BY <1>2
  <2>3. \A b, c \in DOMAIN tasks : tasks[b] = tasks[c] => b = c
    BY <1>2
  <2> HIDE DEF batches, tasks
  <2>4. ASSUME NEW b \in DOMAIN batches
        PROVE  Len(batches[b]) >= 1 /\ Len(batches[b]) = 1
    <3>1. Len(batches[b]) = 1
      BY <2>1, <2>2
    <3> QED
      BY <3>1
  <2> QED
    BY <1>2, <2>1, <2>2, <2>3, <2>4 DEF Parts
<1>3. CASE /\ request.kind = "graph"
           /\ request.repos \in Seq(Nat \ {0})
  <2> DEFINE repos == request.repos
             task(k) == <<IF k > Len(repos) THEN Len(repos) + 1 ELSE repos[k]>>
             tasks == [k \in 1..(Len(repos) + 1) |-> task(k)]
  <2>1. batches = tasks
    BY <1>3 DEF BatchesOf, summarizeReposAndSystem
  <2>2. Len(repos) \in Nat
    BY <1>3
  <2>3. ASSUME NEW k \in 1..(Len(repos) + 1)
        PROVE  task(k) \in Seq(Nat \ {0}) /\ Len(task(k)) = 1
    <3>1. (IF k > Len(repos) THEN Len(repos) + 1 ELSE repos[k]) \in Nat \ {0}
      BY <1>3, <2>2
    <3> QED
      BY <3>1
  <2> HIDE DEF task
  <2>4. tasks \in Seq(Seq(Nat \ {0})) /\ DOMAIN tasks = 1..(Len(repos) + 1)
    BY <2>2, <2>3
  <2>5. \A b \in DOMAIN tasks : Len(tasks[b]) = 1
    BY <2>2, <2>3
  <2> HIDE DEF batches, tasks
  <2>6. ASSUME NEW b \in DOMAIN batches
        PROVE  Len(batches[b]) >= 1 /\ Len(batches[b]) = 1
    <3>1. Len(batches[b]) = 1
      BY <2>1, <2>5
    <3> QED
      BY <3>1
  <2> QED
    BY <1>3, <2>1, <2>4, <2>6 DEF Parts
<1> HIDE DEF batches
<1> QED
  BY <1>1, <1>2, <1>3 DEF RequestsAssumption

LEMMA WorkersOfType ==
    ASSUME RequestsAssumption, NEW request \in Requests, NEW batches \in Seq(Seq(Nat \ {0})),
           request.kind = "graph" => batches # <<>>
    PROVE  /\ WorkersOf(request, batches) \in Nat
           /\ WorkersOf(request, batches) = 0 => batches = <<>>
<1>1. request.concurrency \in Int /\ Len(batches) \in Nat /\ (Len(batches) = 0 => batches = <<>>)
  BY EmptySeq DEF RequestsAssumption
<1> QED
  BY <1>1 DEF WorkersOf, Policy!Least

LEMMA RuntimeBegins ==
    ASSUME NEW policy \in PolicyType, NEW r, r = Policy!createProviderCallRuntime(policy, 1)
    PROVE  /\ r \in RuntimeType /\ r.policy = policy /\ r.now = 1 /\ r.lastRequestAt = 0
           /\ r.stats.requests = 0 /\ r.stats.attempts = 0 /\ r.stats.retries = 0 /\ r.stats.finalFailures = 0
           /\ r.stats.estimatedTokens = 0 /\ Total(r.stats.failures) = 0
BY DEF Policy!createProviderCallRuntime, Policy!createProviderCallStats, RuntimeType, StatsType,
   FailureType, Total

LEMMA BeginKept ==
    ASSUME RequestsAssumption, Begin
    PROVE  work' \in State /\ Kept(work')
<1>1. PICK request \in Requests :
         LET batches == BatchesOf(request)
             job == [kind |-> request.kind, batches |-> batches, workers |-> WorkersOf(request, batches),
                     policy |-> request.policy, refused |-> request.refused, largest |-> request.largest,
                     errors |-> request.errors]
         IN work' = [at |-> "running", job |-> job, runtime |-> Policy!createProviderCallRuntime(job.policy, 1),
                     gate |-> <<>>, cursor |-> 1, worker |-> [w \in 1..job.workers |-> Free],
                     got |-> [t \in UNION {TextsOf(batches[b]) : b \in DOMAIN batches} |-> NOTHING],
                               failed |-> {}, lost |-> 0,
                     closest |-> MaxTime]
  BY DEF Begin
<1> DEFINE batches == BatchesOf(request)
           count == WorkersOf(request, batches)
           job == [kind |-> request.kind, batches |-> batches, workers |-> count,
                   policy |-> request.policy, refused |-> request.refused, largest |-> request.largest,
                   errors |-> request.errors]
           runtime == Policy!createProviderCallRuntime(request.policy, 1)
           workers == [w \in 1..count |-> Free]
           texts == UNION {TextsOf(batches[b]) : b \in DOMAIN batches}
           got == [t \in texts |-> NOTHING]
<1>2. Parts(request, batches)
  BY BatchesType
<1>3. count \in Nat /\ (count = 0 => batches = <<>>)
  <2>1. request.kind = "graph" => batches # <<>>
    <3>1. SUFFICES ASSUME request.kind = "graph" PROVE batches # <<>>
      OBVIOUS
    <3>2. request.repos \in Seq(Nat \ {0})
      BY <3>1 DEF RequestsAssumption
    <3>3. DOMAIN batches = 1..(Len(request.repos) + 1) /\ Len(request.repos) \in Nat
      BY <3>1, <3>2 DEF BatchesOf, summarizeReposAndSystem
    <3> HIDE DEF batches
    <3> QED
      BY <3>3
  <2>2. batches \in Seq(Seq(Nat \ {0}))
    BY <1>2 DEF Parts
  <2> HIDE DEF batches
  <2> QED
    BY <2>1, <2>2, WorkersOfType
<1>4. /\ request.policy \in PolicyType /\ request.refused \in SUBSET Nat /\ request.largest \in Nat \ {0}
      /\ request.errors \in SUBSET ErrorType /\ MaxTime \in Nat
  BY DEF RequestsAssumption
<1>5. work' = [at |-> "running", job |-> job, runtime |-> runtime, gate |-> <<>>, cursor |-> 1, worker |-> workers,
               got |-> got, failed |-> {}, lost |-> 0, closest |-> MaxTime]
  BY <1>1
<1> HIDE DEF batches, count
<1>6. job \in JobType
  BY <1>2, <1>3, <1>4 DEF Parts, JobType
<1>7. /\ runtime \in RuntimeType /\ runtime.policy = request.policy /\ runtime.now = 1 /\ runtime.lastRequestAt = 0
      /\ runtime.stats.requests = 0 /\ runtime.stats.attempts = 0 /\ runtime.stats.retries = 0
      /\ runtime.stats.finalFailures = 0 /\ runtime.stats.estimatedTokens = 0 /\ Total(runtime.stats.failures) = 0
  BY <1>4, RuntimeBegins
<1>8. workers \in WorkersType /\ DOMAIN workers = 1..count /\ \A w \in DOMAIN workers : workers[w] = Free
  BY <1>3, FreeType DEF WorkersType
<1>9. Free.at = "free" /\ Free.attempt = 0
  BY DEF Free
<1>10. got \in GotType /\ DOMAIN got = texts /\ \A t \in texts : got[t] = NOTHING
  <2>1. ASSUME NEW b \in DOMAIN batches
        PROVE  TextsOf(batches[b]) \subseteq Nat
    BY <1>2 DEF Parts, TextsOf
  <2>2. texts \in SUBSET Nat
    BY <2>1
  <2> HIDE DEF texts
  <2> QED
    BY <2>2 DEF GotType, NOTHING
<1> HIDE DEF job, runtime, workers, texts, got
<1>11. /\ work' \in State
       /\ work'.at = "running" /\ work'.job = job /\ work'.runtime = runtime /\ work'.gate = <<>> /\ work'.cursor = 1
       /\ work'.worker = workers /\ work'.got = got /\ work'.failed = {} /\ work'.lost = 0 /\ work'.closest = MaxTime
  <2>1. <<>> \in Seq(Nat) /\ {} \in SUBSET Nat /\ 0 \in Nat /\ 1 \in Nat
    OBVIOUS
  <2> QED
    BY <1>4, <1>5, <1>6, <1>7, <1>8, <1>10, <2>1 DEF State
<1>12. /\ job.kind = request.kind /\ job.batches = batches /\ job.workers = count /\ job.policy = request.policy
  BY DEF job
<1>13. Batches(work') = batches
  BY <1>11, <1>12 DEF Batches
<1>14. \A w \in DOMAIN work'.worker : work'.worker[w].at = "free" /\ work'.worker[w].attempt = 0
  BY <1>8, <1>9, <1>11
<1>15. \A w : ~Holds(work', w)
  BY <1>14 DEF Holds, Holding
<1>16. JobKept(work')
  <2>1. DOMAIN work'.got = UNION {TextsOf(Batches(work')[b]) : b \in DOMAIN Batches(work')}
    BY <1>10, <1>11, <1>13 DEF texts
  <2>2. work'.cursor \in 1..(Len(Batches(work')) + 1)
    <3>1. Len(batches) \in Nat
      BY <1>2 DEF Parts
    <3> QED
      BY <1>11, <1>13, <3>1
  <2> QED
    BY <1>2, <1>3, <1>7, <1>8, <1>11, <1>12, <1>13, <2>1, <2>2 DEF JobKept, Parts
<1>17. BudgetKept(work')
  <2>1. job.policy.maxRequests \in SUBSET Nat /\ job.policy.maxEstimatedTokens \in SUBSET Nat
            /\ job.policy.maxRetries \in Nat
    BY <1>4, <1>12, PolicyFields
  <2> QED
    BY <1>7, <1>11, <1>14, <2>1 DEF BudgetKept
<1>18. SpacingKept(work')
  BY <1>7, <1>11, <1>14 DEF SpacingKept
<1>19. CountsKept(work')
  <2>1. Owing(work') = {}
    BY <1>14 DEF Owing, Owes
  <2>2. Cardinality(Owing(work')) = 0
    BY <2>1, FS_EmptySet
  <2> QED
    BY <1>7, <1>11, <2>2 DEF CountsKept
<1>20. HeldKept(work')
  BY <1>15 DEF HeldKept, HeldAt
<1>21. OnceKept(work')
  <2>1. IsFiniteSet(work'.failed) /\ work'.lost = Cardinality(work'.failed)
    BY <1>11, FS_EmptySet
  <2>2. ASSUME NEW b \in DOMAIN Batches(work')
        PROVE  Untouched(work', Batches(work')[b])
    <3>1. Batches(work')[b] \in Seq(Nat \ {0}) /\ Len(Batches(work')[b]) >= 1
      BY <1>2, <1>13 DEF Parts
    <3>2. Batches(work')[b][1] \in TextsOf(Batches(work')[b])
      BY <3>1 DEF TextsOf
    <3>3. Batches(work')[b][1] \in texts
      BY <1>13, <3>2 DEF texts
    <3> QED
      BY <1>10, <1>11, <3>3 DEF Untouched
  <2> QED
    BY <1>11, <1>15, <2>1, <2>2 DEF OnceKept
<1>22. ServedKept(work')
  <2>1. ASSUME NEW t \in DOMAIN work'.got
        PROVE  Pending(work', t)
    <3>1. PICK b \in DOMAIN batches : t \in TextsOf(batches[b])
      BY <1>10, <1>11 DEF texts
    <3>2. b >= work'.cursor
      BY <1>2, <1>11 DEF Parts
    <3> QED
      BY <1>13, <3>1, <3>2 DEF Pending
  <2> QED
    BY <1>14, <2>1 DEF ServedKept
<1> QED
  BY <1>11, <1>16, <1>17, <1>18, <1>19, <1>20, <1>21, <1>22 DEF Kept, PolicyKept, ServiceKept
-----------------------------------------------------------------------------
(* The phase as a whole. *)

LEMMA Begins == Init => IInv
BY DEF Init, IInv

LEMMA StepKept ==
    ASSUME Good, NEW w \in DOMAIN work.worker, Step(w)
    PROVE  work' \in State /\ Kept(work')
<1>1. CASE Take(w)
  BY <1>1, TakeKept
<1>2. CASE ReserveBudget(w)
  BY <1>2, ReserveKept
<1>3. CASE QueueAttempt(w)
  BY <1>3, QueueKept
<1>4. CASE StartCall(w)
  BY <1>4, StartKept
<1>5. CASE Answered(w)
  BY <1>5, AnsweredKept
<1>6. CASE Refuse(w)
  BY <1>6, RefuseKept
<1>7. CASE CallFails(w)
  BY <1>7, CallFailsKept
<1>8. CASE TimeOut(w)
  BY <1>8, TimeOutKept
<1> QED
  BY <1>1, <1>2, <1>3, <1>4, <1>5, <1>6, <1>7, <1>8 DEF Step

LEMMA Steps ==
    ASSUME RequestsAssumption, IInv, [Next]_work
    PROVE  IInv'
<1>1. CASE Begin
  BY <1>1, BeginKept DEF IInv
<1>2. CASE work # Idle /\ \E w \in Workers : Step(w)
  <2>1. Good
    BY <1>2 DEF IInv, Good
  <2>2. PICK w \in Workers : Step(w)
    BY <1>2
  <2>3. w \in DOMAIN work.worker
    BY <2>1, <2>2, Goods DEF JobKept, Workers
  <2>4. work' \in State /\ Kept(work')
    BY <2>1, <2>2, <2>3, StepKept
  <2> QED
    BY <2>4 DEF IInv
<1>3. CASE work # Idle /\ Tick
  <2>1. Good
    BY <1>3 DEF IInv, Good
  <2>2. work' \in State /\ Kept(work')
    BY <1>3, <2>1, TickKept
  <2> QED
    BY <2>2 DEF IInv
<1>4. CASE work # Idle /\ Finish
  BY <1>4 DEF Finish, IInv, Idle
<1>5. CASE UNCHANGED work
  BY <1>5 DEF IInv, Idle
<1> QED
  BY <1>1, <1>2, <1>3, <1>4, <1>5 DEF Next

LEMMA PolicyFollows ==
    ASSUME IInv
    PROVE  PolicyIsKept
<1>1. SUFFICES ASSUME work # Idle PROVE PolicyIsKept
  BY DEF PolicyIsKept
<1>2. work \in State /\ JobKept(work) /\ PolicyKept(work)
  BY <1>1 DEF IInv, Kept
<1>3. Workers = DOMAIN work.worker
  BY <1>2 DEF JobKept, Workers
<1>4. BudgetKept(work) /\ SpacingKept(work) /\ CountsKept(work)
  BY <1>2 DEF PolicyKept
<1>5. /\ work.runtime.stats.attempts \in Nat /\ work.runtime.stats.requests \in Nat /\ work.runtime.stats.retries \in Nat
      /\ Cardinality(Owing(work)) \in Nat
  BY <1>2, Fields, RuntimeFields, StatsFields, FiniteOwing
<1>6. work.runtime.stats.attempts <= work.runtime.stats.requests + work.runtime.stats.retries
  BY <1>4, <1>5 DEF CountsKept
<1> QED
  BY <1>3, <1>4, <1>6 DEF PolicyIsKept, BudgetKept, SpacingKept, CountsKept

LEMMA ServiceFollows ==
    ASSUME IInv
    PROVE  EveryTextIsServed
<1>1. SUFFICES ASSUME Ended, work.at = "running" PROVE EveryTextIsServed
  BY DEF EveryTextIsServed
<1>2. work \in State /\ JobKept(work) /\ ServiceKept(work)
  BY <1>1 DEF IInv, Kept, Ended
<1>3. HeldKept(work) /\ OnceKept(work) /\ ServedKept(work)
  BY <1>2 DEF ServiceKept
<1>4. \A w \in DOMAIN work.worker : work.worker[w].at = "ended"
  BY <1>1, <1>2 DEF Ended, Workers, JobKept
<1>5. /\ DOMAIN work.worker = 1..work.job.workers /\ work.job.workers \in Nat
      /\ DOMAIN Batches(work) = 1..Len(Batches(work)) /\ Len(Batches(work)) \in Nat
  BY <1>2, Positions
<1>6. \A b \in DOMAIN Batches(work) : ~(b >= work.cursor)
  <2>1. CASE work.job.workers = 0
    <3>1. Batches(work) = <<>>
      BY <1>2, <2>1 DEF JobKept
    <3> QED
      BY <3>1
  <2>2. CASE work.job.workers # 0
    <3>1. 1 \in DOMAIN work.worker
      BY <1>5, <2>2
    <3>2. work.cursor = Len(Batches(work)) + 1
      BY <1>1, <1>3, <1>4, <3>1 DEF ServedKept
    <3> QED
      BY <1>5, <3>2
  <2> QED
    BY <2>1, <2>2
<1>7. \A w : ~Holds(work, w)
  BY <1>4 DEF Holds, Holding
<1>8. \A t \in DOMAIN work.got : work.got[t] \in Right(work, t)
  BY <1>1, <1>3, <1>6, <1>7 DEF ServedKept, Pending
<1>9. work.lost = Cardinality(work.failed)
  BY <1>3 DEF OnceKept
<1> QED
  BY <1>8, <1>9 DEF EveryTextIsServed, Right, Answer

\* Whatever the provider answers and however the workers interleave: a phase
\* stays within its policy, and one that ends without an error has served every
\* text, each once (providerPolicy.ts, semanticIndex.ts, summaries.ts).
THEOREM PhasesKeepPolicyAndService ==
    ASSUME RequestsAssumption
    PROVE  Spec => [](PolicyIsKept /\ EveryTextIsServed)
<1>1. Init => IInv
  BY Begins
<1>2. IInv /\ [Next]_work => IInv'
  BY Steps
<1>3. IInv => PolicyIsKept /\ EveryTextIsServed
  BY PolicyFollows, ServiceFollows
<1> QED
  BY <1>1, <1>2, <1>3, PTL DEF Spec
=============================================================================

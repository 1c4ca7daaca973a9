----------------------------- MODULE IndexQueue -----------------------------
(***************************************************************************)
(* SingleProcessIndexQueue of core/indexing/scheduler.ts: every index run  *)
(* of a client (SDK call, watcher sync, catch-up batch) is chained on the  *)
(* promise `tail`, so that runs execute one after the other.               *)
(*                                                                         *)
(* A promise is named by the job whose outcome settles it; 0 names the     *)
(* promise that the constructor creates already resolved.  A job's run()   *)
(* is external: it may succeed or fail, and takes any number of steps.     *)
(***************************************************************************)
EXTENDS Naturals, Sequences, FiniteSets

CONSTANTS MaxJobs,  \* bound: how many jobs are enqueued in a behaviour
          Waiters   \* callers of onIdle()

ASSUME MaxJobsAssumption == MaxJobs \in Nat

Jobs == 1..MaxJobs
NoJob == 0

VARIABLES
    nextId,      \* id the next enqueued job receives
    pending,     \* this.pending
    runningJob,  \* this.runningJob, NoJob for undefined
    tail,        \* this.tail: the promise the next job is chained on
    after,       \* after[j]: the promise job j was chained on
    status,      \* job.status
    stuck,       \* jobs whose timer has set job.stuck
    completedJobs, failedJobs,      \* the counters
    lastCompletedJob, lastFailedJob,
    idle         \* idle[w]: where caller w is in onIdle(): pc, the promise it
                 \* is `on`, and (history) the id no job enqueued `before` had

vars == <<nextId, pending, runningJob, tail, after, status, stuck,
          completedJobs, failedJobs, lastCompletedJob, lastFailedJob, idle>>

Terminal == {"succeeded", "failed"}
Statuses == {"unborn", "pending", "running"} \union Terminal

-----------------------------------------------------------------------------
\* Faulty variants of the definitions below, each a plausible slip in this
\* code.  The specification uses none of them.

\* A tail that forwards the rejection (`this.tail = result`).
SettledOnSuccessOnly(p) == p # NoJob => status[p] = "succeeded"

\* enqueue forgets to move the tail: the next job joins the same promise.
EnqueueKeepingTail ==
    /\ nextId <= MaxJobs
    /\ nextId' = nextId + 1
    /\ pending' = Append(pending, nextId)
    /\ status' = [status EXCEPT ![nextId] = "pending"]
    /\ after' = [after EXCEPT ![nextId] = tail]
    /\ UNCHANGED <<runningJob, tail, stuck, completedJobs, failedJobs,
                   lastCompletedJob, lastFailedJob, idle>>

\* runJob pops the newest entry of the list instead of its own.
WithoutLast(s, j) == SubSeq(s, 1, Len(s) - 1)

\* The timeout settles the job as failed, and run() settles it once more.
FinishJobTwice(j, outcome) ==
    /\ status[j] \notin {"unborn", "pending"}
    /\ status' = [status EXCEPT ![j] = outcome]
    /\ completedJobs' = completedJobs + (IF outcome = "succeeded" THEN 1 ELSE 0)
    /\ failedJobs' = failedJobs + (IF outcome = "failed" THEN 1 ELSE 0)
    /\ lastCompletedJob' = IF outcome = "succeeded" THEN j ELSE lastCompletedJob
    /\ lastFailedJob' = IF outcome = "failed" THEN j ELSE lastFailedJob
    /\ runningJob' = IF runningJob = j THEN NoJob ELSE runningJob
    /\ UNCHANGED <<nextId, pending, tail, after, stuck, idle>>

\* onIdle awaits the running job, not the end of the chain.
CallOnIdleForRunning(w) ==
    /\ idle[w].pc = "out"
    /\ idle' = [idle EXCEPT ![w] =
                    [pc |-> "waiting", on |-> runningJob, before |-> nextId]]
    /\ UNCHANGED <<nextId, pending, runningJob, tail, after, status, stuck,
                   completedJobs, failedJobs, lastCompletedJob, lastFailedJob>>
-----------------------------------------------------------------------------

Init ==
    /\ nextId = 1
    /\ pending = <<>>
    /\ runningJob = NoJob
    /\ tail = NoJob
    /\ after = [j \in Jobs |-> NoJob]
    /\ status = [j \in Jobs |-> "unborn"]
    /\ stuck = {}
    /\ completedJobs = 0
    /\ failedJobs = 0
    /\ lastCompletedJob = NoJob
    /\ lastFailedJob = NoJob
    /\ idle = [w \in Waiters |-> [pc |-> "out", on |-> NoJob, before |-> 1]]

\* The promise p has settled: `tail` swallows the job's rejection, so a failed
\* job lets the next one begin exactly as a successful one does.
Settled(p) == p # NoJob => status[p] \in Terminal

\* this.pending.filter((item) => item !== job); a job is listed at most once.
Without(s, j) ==
    IF \E i \in DOMAIN s : s[i] = j
    THEN LET at == CHOOSE i \in DOMAIN s : s[i] = j
         IN  [i \in 1..(Len(s) - 1) |-> IF i < at THEN s[i] ELSE s[i + 1]]
    ELSE s

\* lastCompletedJob / lastFailedJob after job j ended with the outcome.
Snapshot(old, j, outcome, wanted) == IF outcome = wanted THEN j ELSE old

Enqueue ==
    /\ nextId <= MaxJobs
    /\ nextId' = nextId + 1
    /\ pending' = Append(pending, nextId)
    /\ status' = [status EXCEPT ![nextId] = "pending"]
    /\ after' = [after EXCEPT ![nextId] = tail]
    /\ tail' = nextId
    /\ UNCHANGED <<runningJob, stuck, completedJobs, failedJobs,
                   lastCompletedJob, lastFailedJob, idle>>

\* runJob up to `await run()`: a reaction of the promise the job is chained on.
StartJob(j) ==
    /\ status[j] = "pending"
    /\ Settled(after[j])
    /\ pending' = Without(pending, j)
    /\ status' = [status EXCEPT ![j] = "running"]
    /\ runningJob' = j
    /\ UNCHANGED <<nextId, tail, after, stuck, completedJobs, failedJobs,
                   lastCompletedJob, lastFailedJob, idle>>

\* The timer set by runJob: it reports the job, and does not end it.
MarkStuck(j) ==
    /\ status[j] = "running"
    /\ j \notin stuck
    /\ stuck' = stuck \union {j}
    /\ UNCHANGED <<nextId, pending, runningJob, tail, after, status,
                   completedJobs, failedJobs, lastCompletedJob,
                   lastFailedJob, idle>>

\* The rest of runJob, synchronous once run() has settled.
FinishJob(j, outcome) ==
    /\ status[j] = "running"
    /\ status' = [status EXCEPT ![j] = outcome]
    /\ completedJobs' = completedJobs + (IF outcome = "succeeded" THEN 1 ELSE 0)
    /\ failedJobs' = failedJobs + (IF outcome = "failed" THEN 1 ELSE 0)
    /\ lastCompletedJob' = Snapshot(lastCompletedJob, j, outcome, "succeeded")
    /\ lastFailedJob' = Snapshot(lastFailedJob, j, outcome, "failed")
    /\ runningJob' = IF runningJob = j THEN NoJob ELSE runningJob
    /\ UNCHANGED <<nextId, pending, tail, after, stuck, idle>>

\* `await this.tail` reads the tail once, when it is called.
CallOnIdle(w) ==
    /\ idle[w].pc = "out"
    /\ idle' = [idle EXCEPT ![w] =
                    [pc |-> "waiting", on |-> tail, before |-> nextId]]
    /\ UNCHANGED <<nextId, pending, runningJob, tail, after, status, stuck,
                   completedJobs, failedJobs, lastCompletedJob, lastFailedJob>>

ReturnFromOnIdle(w) ==
    /\ idle[w].pc = "waiting"
    /\ Settled(idle[w].on)
    /\ idle' = [idle EXCEPT ![w].pc = "back"]
    /\ UNCHANGED <<nextId, pending, runningJob, tail, after, status, stuck,
                   completedJobs, failedJobs, lastCompletedJob, lastFailedJob>>

Next ==
    \/ Enqueue
    \/ \E j \in Jobs : StartJob(j) \/ MarkStuck(j)
    \/ \E j \in Jobs, outcome \in Terminal : FinishJob(j, outcome)
    \/ \E w \in Waiters : CallOnIdle(w) \/ ReturnFromOnIdle(w)

Spec == Init /\ [][Next]_vars

\* The event loop runs every enabled reaction; that a job's run() settles is
\* its caller's obligation, assumed here.  Nobody has to enqueue a job, and
\* the timer need not fire.
FairSpec ==
    /\ Spec
    /\ \A j \in Jobs : /\ WF_vars(StartJob(j))
                       /\ WF_vars(\E outcome \in Terminal : FinishJob(j, outcome))
    /\ \A w \in Waiters : WF_vars(ReturnFromOnIdle(w))
-----------------------------------------------------------------------------
TypeOK ==
    /\ nextId \in 1..(MaxJobs + 1)
    /\ pending \in Seq(Jobs)
    /\ runningJob \in 0..MaxJobs
    /\ tail \in 0..MaxJobs
    /\ after \in [Jobs -> 0..MaxJobs]
    /\ status \in [Jobs -> Statuses]
    /\ stuck \subseteq Jobs
    /\ completedJobs \in 0..MaxJobs
    /\ failedJobs \in 0..MaxJobs
    /\ lastCompletedJob \in 0..MaxJobs
    /\ lastFailedJob \in 0..MaxJobs
    /\ idle \in [Waiters -> [pc : {"out", "waiting", "back"},
                             on : 0..MaxJobs, before : 1..(MaxJobs + 1)]]

With(s) == {j \in Jobs : status[j] = s}

\* At most one index run executes at any time, it is the one getStatus()
\* reports, and by then every job enqueued before it has ended: two runs never
\* write the graph at once, and no run overtakes an earlier one, even when the
\* earlier one failed or was reported stuck.
SerialExecution ==
    \A j \in Jobs : status[j] = "running" =>
        /\ runningJob = j
        /\ \A k \in 1..(j - 1) : status[k] \in Terminal
        /\ \A k \in (j + 1)..MaxJobs : status[k] \in {"unborn", "pending"}

\* close() relies on onIdle(): once it has returned, every job enqueued before
\* the call has ended (jobs enqueued during the wait need not have).
IdleMeansDrained ==
    \A w \in Waiters : idle[w].pc = "back" =>
        \A j \in 1..(idle[w].before - 1) : status[j] \in Terminal

\* Every enqueued job ends, whatever the outcome of the jobs before it.
EveryJobEnds == \A j \in Jobs : status[j] = "pending" ~> status[j] \in Terminal

\* onIdle() returns.
EveryIdleReturns ==
    \A w \in Waiters : idle[w].pc = "waiting" ~> idle[w].pc = "back"

\* A failed or stuck run holds up neither the runs behind it nor close(),
\* which waits for them (scheduler.ts:69-79).
EverythingEnds == EveryJobEnds /\ EveryIdleReturns

\* The promise chain implements the serial queue.
Serial == INSTANCE SerialQueue
            WITH waiting <- pending, active <- runningJob

ImplementsSerialQueue == Serial!Spec
=============================================================================

------------------------------- MODULE RepoPool -------------------------------
(***************************************************************************)
(* One index run over several repositories: the worker pool, the           *)
(* per-repository attempts that it retries, and the connections on which   *)
(* the attempts open their transactions.                                   *)
(*                                                                         *)
(* KuzuGraphDB.transaction gives every attempt a connection of its own     *)
(* (AsyncLocalStorage).  Neo4jGraphDB has one active transaction and one   *)
(* depth counter per client, which all workers share.                      *)
(*                                                                         *)
(* An attempt writes a graph (facts, documents and journal, see            *)
(* GraphWrite) and an index state.  Workers interleave at every await.     *)
(***************************************************************************)
EXTENDS Naturals

CONSTANTS Workers,       \* min(config.indexing.concurrency, number of jobs)
          NumRepos,      \* bound: the repositories of the run
          Connections,   \* what transactions are opened on
          ConnectionOf,  \* the one each worker's statements use
          MaxFaults      \* bound: how many statements fail

ASSUME PoolAssumption == NumRepos \in Nat \ {0} /\ MaxFaults \in Nat
ASSUME ConnectionAssumption == ConnectionOf \in [Workers -> Connections]

VARIABLES jobs,      \* the IndexJob of each repository
          cursor,    \* the next job to take
          hasFailed, \* some job has failed for good
          work,      \* what each worker is doing
          conn,      \* the transaction of each connection
          durable,   \* what is committed of each repository
          outcome,   \* of the run
          faults     \* how many statements have failed

vars == <<jobs, cursor, hasFailed, work, conn, durable, outcome, faults>>

MaxAttempts == 2   \* 1 + options.retries, which run.ts sets to 1

Repos == 1..NumRepos
JobStatus == {"pending", "running", "succeeded", "failed"}
Job == [status : JobStatus, attempts : 0..MaxAttempts]

\* graph: the attempt whose facts are active, 0 for none.
Row == [graph : 0..MaxAttempts,
        state : [status : {"none", "succeeded", "failed"}, attempt : 0..MaxAttempts]]
NoRow == [graph |-> 0, state |-> [status |-> "none", attempt |-> 0]]

\* pending[r] is what the transaction has written of a repository in dirty.
Transaction == [status : {"none", "open", "broken", "closing"},
                depth : 0..2 * NumRepos,
                dirty : SUBSET Repos, pending : [Repos -> Row]]
NoTransaction == [status |-> "none", depth |-> 0, dirty |-> {},
                  pending |-> [r \in Repos |-> NoRow]]

Steps == {"free", "scan", "begin", "graph", "commit", "committing", "rollback",
          "rollingBack", "clean", "stateBegin", "stateWrite", "stateCommit",
          "stateCommitting", "stateRollback", "stateRollingBack", "stateDone",
          "returned", "thrown", "stopped"}

Current(w) == work[w].job
Attempt(w) == jobs[Current(w)].attempts
Conn(w) == conn[ConnectionOf[w]]

Goto(w, step) == work' = [work EXCEPT ![w].pc = step]

Fault == faults < MaxFaults /\ faults' = faults + 1
NoFault == UNCHANGED faults

(***************************************************************************)
(* Statements on a connection.                                             *)
(***************************************************************************)
\* What worker w reads of its repository.
Seen(w) == IF Conn(w).status = "open" /\ Current(w) \in Conn(w).dirty
           THEN Conn(w).pending[Current(w)] ELSE durable[Current(w)]

\* query: in the active transaction if there is one, else committed at once.
\* On a transaction that is closing or has failed it throws.
Usable(w) == Conn(w).status \in {"none", "open"}

Write(w, row) ==
    IF Conn(w).status = "open"
    THEN /\ conn' = [conn EXCEPT ![ConnectionOf[w]].dirty = @ \union {Current(w)},
                                 ![ConnectionOf[w]].pending[Current(w)] = row]
         /\ UNCHANGED durable
    ELSE /\ durable' = [durable EXCEPT ![Current(w)] = row]
         /\ UNCHANGED conn

\* A failed statement also fails the transaction it is in.
Break(w) ==
    conn' = [conn EXCEPT ![ConnectionOf[w]].status = IF @ = "open" THEN "broken" ELSE @]

BeginAnew(c) ==
    conn' = [conn EXCEPT ![c] = [NoTransaction EXCEPT !.status = "open", !.depth = 1]]

\* beginTransaction joins a transaction that is there, whoever began it.
BeginOn(c) ==
    conn' = [conn EXCEPT ![c] = IF conn[c].status = "none"
                                THEN [NoTransaction EXCEPT !.status = "open", !.depth = 1]
                                ELSE [conn[c] EXCEPT !.depth = @ + 1]]

(***************************************************************************)
(* runIndexQueue.                                                          *)
(***************************************************************************)
TakeJob(w) ==
    /\ work[w].pc = "free" /\ cursor <= NumRepos /\ ~hasFailed
    /\ cursor' = cursor + 1
    /\ jobs' = [jobs EXCEPT ![cursor] = [status |-> "running", attempts |-> 1]]
    /\ work' = [work EXCEPT ![w] = [pc |-> "scan", job |-> cursor, failed |-> FALSE]]
    /\ NoFault /\ UNCHANGED <<hasFailed, conn, durable, outcome>>

Stop(w) ==
    /\ work[w].pc = "free" /\ (cursor > NumRepos \/ hasFailed)
    /\ Goto(w, "stopped")
    /\ NoFault /\ UNCHANGED <<jobs, cursor, hasFailed, conn, durable, outcome>>

\* The worker function has returned.
Succeed(w) ==
    /\ work[w].pc = "returned"
    /\ jobs' = [jobs EXCEPT ![Current(w)].status = "succeeded"]
    /\ Goto(w, "free") /\ NoFault /\ UNCHANGED <<cursor, hasFailed, conn, durable, outcome>>

\* The worker function has thrown.  The job fails with its last attempt, and
\* is retried before that, unless another job has failed meanwhile.
FailJob(w) ==
    /\ work[w].pc = "thrown" /\ Attempt(w) >= MaxAttempts
    /\ jobs' = [jobs EXCEPT ![Current(w)].status = "failed"]
    /\ hasFailed' = TRUE
    /\ Goto(w, "free") /\ NoFault /\ UNCHANGED <<cursor, conn, durable, outcome>>

Retry(w) ==
    /\ work[w].pc = "thrown" /\ Attempt(w) < MaxAttempts /\ ~hasFailed
    /\ jobs' = [jobs EXCEPT ![Current(w)].attempts = @ + 1]
    /\ work' = [work EXCEPT ![w] = [pc |-> "scan", job |-> @.job, failed |-> FALSE]]
    /\ NoFault /\ UNCHANGED <<cursor, hasFailed, conn, durable, outcome>>

LeaveJob(w) ==
    /\ work[w].pc = "thrown" /\ Attempt(w) < MaxAttempts /\ hasFailed
    /\ Goto(w, "free") /\ NoFault
    /\ UNCHANGED <<jobs, cursor, hasFailed, conn, durable, outcome>>

\* Promise.all has resolved; the jobs nobody took are failed, and the run
\* throws if a job is failed.
Finish ==
    /\ outcome = "running" /\ \A w \in Workers : work[w].pc = "stopped"
    /\ jobs' = [r \in Repos |-> IF hasFailed /\ jobs[r].status = "pending"
                                THEN [jobs[r] EXCEPT !.status = "failed"] ELSE jobs[r]]
    /\ outcome' = IF \E r \in Repos : jobs'[r].status = "failed" THEN "failed" ELSE "succeeded"
    /\ NoFault /\ UNCHANGED <<cursor, hasFailed, work, conn, durable>>

(***************************************************************************)
(* withTransaction: COMMIT and ROLLBACK.  Each sends a request and clears  *)
(* the client's transaction when the answer is there.                      *)
(***************************************************************************)
InPool == UNCHANGED <<jobs, cursor, hasFailed, outcome>>

CommitOutermost(w, counted, sent, thrown) ==
    /\ IF Conn(w).depth > 0
       THEN /\ conn' = [conn EXCEPT ![ConnectionOf[w]].depth = @ - 1]
            /\ Goto(w, counted)
       ELSE Goto(w, thrown) /\ UNCHANGED conn
    /\ NoFault /\ UNCHANGED durable

\* commitTransaction throws without a transaction, only counts inside of
\* another begin, and else commits.
CommitOn(w, counted, sent, thrown) ==
    LET c == ConnectionOf[w]
    IN  \/ /\ Conn(w).status = "none"
           /\ Goto(w, thrown) /\ NoFault /\ UNCHANGED <<conn, durable>>
        \/ /\ Conn(w).status # "none" /\ Conn(w).depth > 1
           /\ conn' = [conn EXCEPT ![c].depth = @ - 1]
           /\ Goto(w, counted) /\ NoFault /\ UNCHANGED durable
        \/ /\ Conn(w).status = "open" /\ Conn(w).depth <= 1
           /\ conn' = [conn EXCEPT ![c] = [NoTransaction EXCEPT !.status = "closing"]]
           /\ durable' = [r \in Repos |-> IF r \in Conn(w).dirty THEN Conn(w).pending[r]
                                                                ELSE durable[r]]
           /\ Goto(w, sent) /\ NoFault
        \/ /\ Conn(w).status # "none" /\ Conn(w).depth <= 1
           /\ IF Conn(w).status = "open" THEN Fault ELSE NoFault
           /\ conn' = [conn EXCEPT ![c] = NoTransaction]
           /\ Goto(w, thrown) /\ UNCHANGED durable

\* rollbackTransaction does nothing without a transaction.
RollbackOn(w, sent, gone) ==
    /\ IF Conn(w).status = "none"
       THEN Goto(w, gone) /\ UNCHANGED conn
       ELSE /\ conn' = [conn EXCEPT ![ConnectionOf[w]].status = "closing",
                                    ![ConnectionOf[w]].dirty = {},
                                    ![ConnectionOf[w]].pending = NoTransaction.pending]
            /\ Goto(w, sent)
    /\ NoFault /\ UNCHANGED durable

\* The finally of both: whatever transaction is active by now is forgotten.
Forget(w, step) ==
    /\ conn' = [conn EXCEPT ![ConnectionOf[w]] = NoTransaction]
    /\ Goto(w, step) /\ NoFault /\ UNCHANGED durable

-----------------------------------------------------------------------------
(***************************************************************************)
(* runPerRepoIndex: one attempt.                                           *)
(***************************************************************************)
Scan(w) ==
    /\ work[w].pc = "scan"
    /\ Goto(w, "begin") /\ NoFault /\ InPool /\ UNCHANGED <<conn, durable>>

Begin(w) ==
    /\ work[w].pc = "begin"
    /\ BeginOn(ConnectionOf[w])
    /\ Goto(w, "graph") /\ NoFault /\ InPool /\ UNCHANGED durable

WriteGraph(w) ==
    /\ work[w].pc = "graph" /\ Usable(w)
    /\ Write(w, [Seen(w) EXCEPT !.graph = Attempt(w)])
    /\ Goto(w, "stateBegin") /\ NoFault /\ InPool

Commit(w) ==
    /\ work[w].pc = "commit"
    /\ CommitOn(w, "returned", "committing", "rollback") /\ InPool

CommitDone(w) == work[w].pc = "committing" /\ Forget(w, "returned") /\ InPool

Rollback(w) ==
    /\ work[w].pc = "rollback"
    /\ RollbackOn(w, "rollingBack", "clean") /\ InPool

RollbackDone(w) == work[w].pc = "rollingBack" /\ Forget(w, "clean") /\ InPool

\* cleanupGraphWriteBatch of this attempt, then the failed state.
Failed(w) == work' = [work EXCEPT ![w].pc = "stateBegin", ![w].failed = TRUE]

Clean(w) ==
    /\ work[w].pc = "clean" /\ Usable(w)
    /\ IF Seen(w).graph = Attempt(w) THEN Write(w, [Seen(w) EXCEPT !.graph = 0])
                                     ELSE UNCHANGED <<conn, durable>>
    /\ Failed(w) /\ NoFault /\ InPool

(***************************************************************************)
(* runIndexStateCommitPhase, in a transaction of its own when it is not in *)
(* that of the attempt.                                                    *)
(***************************************************************************)
StateBegin(w) ==
    /\ work[w].pc = "stateBegin"
    /\ BeginOn(ConnectionOf[w])
    /\ Goto(w, "stateWrite") /\ NoFault /\ InPool /\ UNCHANGED durable

WriteState(w) ==
    /\ work[w].pc = "stateWrite" /\ Usable(w)
    /\ Write(w, [Seen(w) EXCEPT !.state =
                     [status |-> IF work[w].failed THEN "failed" ELSE "succeeded",
                      attempt |-> Attempt(w)]])
    /\ Goto(w, "stateCommit") /\ NoFault /\ InPool

StateCommit(w) ==
    /\ work[w].pc = "stateCommit"
    /\ CommitOn(w, "stateDone", "stateCommitting", "stateRollback") /\ InPool

StateCommitDone(w) == work[w].pc = "stateCommitting" /\ Forget(w, "stateDone") /\ InPool

\* A failure of this phase leaves it by the exception, through the rollback
\* of the attempt's transaction or out of runPerRepoIndex.
StateThrows(w) == IF work[w].failed THEN "thrown" ELSE "rollback"

StateRollback(w) ==
    /\ work[w].pc = "stateRollback"
    /\ RollbackOn(w, "stateRollingBack", StateThrows(w)) /\ InPool

StateRollbackDone(w) ==
    work[w].pc = "stateRollingBack" /\ Forget(w, StateThrows(w)) /\ InPool

StateDone(w) ==
    /\ work[w].pc = "stateDone"
    /\ Goto(w, IF work[w].failed THEN "thrown" ELSE "commit")
    /\ NoFault /\ InPool /\ UNCHANGED <<conn, durable>>

(***************************************************************************)
(* Statements that fail.                                                   *)
(***************************************************************************)
Catch(step) == CASE step = "scan" -> "clean"
                 [] step = "graph" -> "rollback"
                 [] step = "stateWrite" -> "stateRollback"

\* A statement fails, or something else of the phase (a file does not parse).
Throw(w) ==
    /\ work[w].pc \in {"scan", "graph", "stateWrite"}
    /\ IF Usable(w) THEN Fault ELSE NoFault
    /\ Break(w) \/ UNCHANGED conn
    /\ Goto(w, Catch(work[w].pc)) /\ InPool /\ UNCHANGED durable

\* A transaction cannot be begun (getSession, or BEGIN of a single-writer
\* database): nothing is open that would have to be rolled back.
BeginFails(w) ==
    /\ work[w].pc \in {"begin", "stateBegin"} /\ Conn(w).status = "none"
    /\ Goto(w, IF work[w].pc = "begin" THEN "clean" ELSE StateThrows(w))
    /\ Fault /\ InPool /\ UNCHANGED <<conn, durable>>

\* A cleanup that fails is only logged.
CleanFails(w) ==
    /\ work[w].pc = "clean"
    /\ IF Usable(w) THEN Fault ELSE NoFault
    /\ Break(w)
    /\ Failed(w) /\ InPool /\ UNCHANGED durable

-----------------------------------------------------------------------------
Init ==
    /\ jobs = [r \in Repos |-> [status |-> "pending", attempts |-> 0]]
    /\ cursor = 1 /\ hasFailed = FALSE
    /\ work = [w \in Workers |-> [pc |-> "free", job |-> 1, failed |-> FALSE]]
    /\ conn = [c \in Connections |-> NoTransaction]
    /\ durable = [r \in Repos |-> NoRow]
    /\ outcome = "running"
    /\ faults = 0

Pool(w) == TakeJob(w) \/ Stop(w) \/ Succeed(w) \/ FailJob(w) \/ Retry(w) \/ LeaveJob(w)

Run(w) ==
    \/ Scan(w) \/ Begin(w) \/ WriteGraph(w) \/ Commit(w) \/ CommitDone(w)
    \/ Rollback(w) \/ RollbackDone(w) \/ Clean(w)
    \/ StateBegin(w) \/ WriteState(w) \/ StateCommit(w) \/ StateCommitDone(w)
    \/ StateRollback(w) \/ StateRollbackDone(w) \/ StateDone(w)
    \/ Throw(w) \/ BeginFails(w) \/ CleanFails(w)

\* The run is over; a deadlock is anything else that stops.
Over == outcome # "running" /\ UNCHANGED vars

Next == (\E w \in Workers : Pool(w) \/ Run(w)) \/ Finish \/ Over

Spec == Init /\ [][Next]_vars

-----------------------------------------------------------------------------
(***************************************************************************)
(* Properties.                                                             *)
(***************************************************************************)
\* Every variable has a value the code can give it.
TypeOK ==
    /\ jobs \in [Repos -> Job]
    /\ cursor \in 1..NumRepos + 1
    /\ hasFailed \in BOOLEAN
    /\ work \in [Workers -> [pc : Steps, job : Repos, failed : BOOLEAN]]
    /\ conn \in [Connections -> Transaction]
    /\ durable \in [Repos -> Row]
    /\ outcome \in {"running", "succeeded", "failed"}
    /\ faults \in 0..MaxFaults

Published(r) == durable[r] = [graph |-> jobs[r].attempts,
                              state |-> [status |-> "succeeded", attempt |-> jobs[r].attempts]]

\* A job that runIndexQueue counts as succeeded has committed its graph and
\* its index state, and neither its own cleanup nor another worker's failure
\* takes them away again (run.ts: "we do NOT rollback the successful repos").
SucceededMeansDurable ==
    \A r \in Repos : jobs[r].status = "succeeded" => Published(r)

\* The same when the run is over and has reported.
SucceededReposKept == outcome # "running" => SucceededMeansDurable

\* The graph of an attempt and its succeeded state are committed as a unit
\* (stateCommit.ts): neither is durable without the other.
CommittedAsAUnit ==
    \A r \in Repos, a \in 1..MaxAttempts :
        durable[r].graph = a <=> durable[r].state = [status |-> "succeeded", attempt |-> a]

\* A run that succeeds has indexed every repository.
SuccessIsComplete ==
    outcome = "succeeded" => \A r \in Repos : jobs[r].status = "succeeded" /\ Published(r)

\* What is reported as succeeded has succeeded, job by job and as a run
\* (runIndexQueue, scheduler.ts:151-190).
SuccessIsReal == SucceededMeansDurable /\ SuccessIsComplete
=============================================================================

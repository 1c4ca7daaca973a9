---------------------------- MODULE RepoPoolProofs ----------------------------
(***************************************************************************)
(* Proofs about RepoPool, for any repositories, workers and faults, when   *)
(* every worker has a connection of its own, as KuzuGraphDB.transaction    *)
(* gives it.  Without that the properties are false: the run of            *)
(* MCRepoPoolShared shows what workers on one connection do to each other. *)
(***************************************************************************)
EXTENDS RepoPool, TLAPS

\* KuzuGraphDB.transaction opens a connection for the call
\* (AsyncLocalStorage), so no statement of another worker is on it.
OwnConnections == \A v, w \in Workers : ConnectionOf[v] = ConnectionOf[w] => v = w

\* What no attempt has succeeded with: neither its graph nor its state is there.
Untouched(r) == durable[r].graph = 0 /\ durable[r].state.status # "succeeded"

Busy(w) == work[w].pc \notin {"free", "stopped"}

\* A busy worker has a job of its own, from those already taken.
JobsApart ==
    /\ \A w \in Workers : Busy(w) =>
           /\ Current(w) < cursor
           /\ jobs[Current(w)].status = "running" /\ Attempt(w) \in 1..MaxAttempts
    /\ \A v, w \in Workers : Busy(v) /\ Busy(w) /\ Current(v) = Current(w) => v = w

\* Jobs are taken in order, and those taken are somebody's until they are done
\* or the pool gives up.
JobsTaken ==
    /\ outcome = "running" => \A r \in Repos : jobs[r].status = "pending" <=> r >= cursor
    /\ \A r \in Repos : jobs[r].status = "running" =>
           hasFailed \/ \E w \in Workers : Busy(w) /\ Current(w) = r
    /\ hasFailed <=> \E r \in Repos : jobs[r].status = "failed"
    /\ \A w \in Workers : work[w].pc = "stopped" => cursor > NumRepos \/ hasFailed

\* A run that reports has nobody working any more.  There is a worker, unless
\* there is no repository (scheduler.ts:147).
Reported ==
    /\ outcome # "running" => \A w \in Workers : work[w].pc = "stopped"
    /\ outcome = "succeeded" /\ Workers # {} => \A r \in Repos : jobs[r].status = "succeeded"

\* What is durable of a repository: all of its last attempt, from its COMMIT on,
\* or nothing of any.
AllOrNothing ==
    /\ \A r \in Repos : /\ Untouched(r) \/ Published(r)
                        /\ jobs[r].status = "pending" => Untouched(r)
                        /\ jobs[r].status = "succeeded" => Published(r)
    /\ \A w \in Workers : Busy(w) =>
           IF work[w].pc \in {"committing", "returned"}
           THEN Published(Current(w)) ELSE Untouched(Current(w))

\* What an attempt writes: its graph, and then the state it reports.
GraphPending(w) == Conn(w).pending[Current(w)].graph = Attempt(w)
AllPending(w) ==
    Conn(w).pending[Current(w)] =
        [graph |-> Attempt(w), state |-> [status |-> "succeeded", attempt |-> Attempt(w)]]
FailurePending(w) ==
    /\ Conn(w).pending[Current(w)].graph = 0
    /\ Conn(w).pending[Current(w)].state.status # "succeeded"

Opened(w, depth, dirty) ==
    Conn(w).status = "open" /\ Conn(w).depth = depth /\ Conn(w).dirty = dirty

\* The transaction a worker has open at each step.  Once an attempt has failed,
\* its state is recorded in a transaction of its own.
OnConnection(w) ==
    LET step == work[w].pc
        failed == work[w].failed
        mine == {Current(w)}
    IN  /\ step \in {"scan", "begin", "graph", "commit", "committing", "rollback",
                     "rollingBack", "clean", "returned"} => ~failed
        /\ step \in {"stateCommitting", "thrown"} => failed
        /\ step \in {"free", "stopped", "scan", "begin", "clean", "returned", "thrown"}
               => Conn(w) = NoTransaction
        /\ step \in {"stateBegin", "stateDone"} /\ failed => Conn(w) = NoTransaction
        /\ step = "graph" => Opened(w, 1, {})
        /\ step = "stateBegin" /\ ~failed => Opened(w, 1, mine) /\ GraphPending(w)
        /\ step = "stateWrite" =>
               IF failed THEN Opened(w, 1, {}) ELSE Opened(w, 2, mine) /\ GraphPending(w)
        /\ step = "stateCommit" =>
               IF failed THEN Opened(w, 1, mine) /\ FailurePending(w)
                         ELSE Opened(w, 2, mine) /\ AllPending(w)
        /\ step = "commit" \/ (step = "stateDone" /\ ~failed) =>
               Opened(w, 1, mine) /\ AllPending(w)
        /\ step \in {"committing", "stateCommitting", "rollingBack", "stateRollingBack"} =>
               Conn(w).status = "closing"
        /\ step \in {"rollback", "stateRollback"} =>
               (Conn(w).status = "none" => Conn(w) = NoTransaction)

IInv == /\ TypeOK /\ JobsApart /\ JobsTaken /\ Reported /\ AllOrNothing
        /\ \A w \in Workers : OnConnection(w)

-----------------------------------------------------------------------------
(***************************************************************************)
(* Statements, as their worker's connection sees them.                     *)
(***************************************************************************)
WorkType == [pc : Steps, job : Repos, failed : BOOLEAN]

LEMMA Types ==
    ASSUME TypeOK, NEW w \in Workers
    PROVE  /\ work[w] \in WorkType /\ work \in [Workers -> WorkType]
           /\ Current(w) \in Repos /\ jobs[Current(w)] \in Job /\ Attempt(w) \in 0..MaxAttempts
           /\ ConnectionOf[w] \in Connections /\ Conn(w) \in Transaction
           /\ durable[Current(w)] \in Row
           /\ conn \in [Connections -> Transaction]
           /\ durable \in [Repos -> Row]
<1>1. work \in [Workers -> WorkType] /\ work[w] \in WorkType /\ Current(w) \in Repos
  BY DEF TypeOK, WorkType, Current
<1>2. ConnectionOf[w] \in Connections
  BY ConnectionAssumption
<1>3. jobs[Current(w)] \in Job /\ Attempt(w) \in 0..MaxAttempts
  BY <1>1 DEF TypeOK, Job, Attempt
<1> QED
  BY <1>1, <1>2, <1>3 DEF TypeOK, Conn

LEMMA NoTransactionType ==
    /\ NoTransaction \in Transaction /\ NoRow \in Row
    /\ NoTransaction.status = "none" /\ NoTransaction.depth = 0 /\ NoTransaction.dirty = {}
    /\ NoTransaction.pending \in [Repos -> Row]
<1>1. NoRow \in Row
  BY DEF NoRow, Row, MaxAttempts
<1>2. [r \in Repos |-> NoRow] \in [Repos -> Row]
  BY <1>1
<1>3. 0 \in 0..2 * NumRepos
  BY PoolAssumption
<1> QED
  BY <1>1, <1>2, <1>3 DEF NoTransaction, Transaction

LEMMA GotoEffect ==
    ASSUME TypeOK, NEW w \in Workers, NEW step \in Steps, Goto(w, step)
    PROVE  /\ work' \in [Workers -> WorkType]
           /\ work'[w].pc = step /\ work'[w].job = work[w].job
           /\ work'[w].failed = work[w].failed
           /\ \A v \in Workers \ {w} : work'[v] = work[v]
<1>1. work \in [Workers -> WorkType]
  BY Types
<1> QED
  BY <1>1 DEF Goto, WorkType

LEMMA FaultType == ASSUME TypeOK, Fault \/ NoFault PROVE faults' \in 0..MaxFaults
  BY PoolAssumption DEF TypeOK, Fault, NoFault

\* A connection changes, and no other.
LEMMA ConnEffect ==
    ASSUME TypeOK, NEW w \in Workers, NEW t \in Transaction,
           conn' = [conn EXCEPT ![ConnectionOf[w]] = t]
    PROVE  /\ conn' \in [Connections -> Transaction]
           /\ Conn(w)' = t
           /\ \A c \in Connections \ {ConnectionOf[w]} : conn'[c] = conn[c]
<1>1. conn \in [Connections -> Transaction] /\ ConnectionOf[w] \in Connections
  BY Types
<1> QED
  BY <1>1 DEF Conn

LEMMA WriteEffect ==
    ASSUME TypeOK, NEW w \in Workers, NEW row \in Row, Conn(w).status = "open", Write(w, row)
    PROVE  /\ conn' \in [Connections -> Transaction]
           /\ Conn(w)'.status = "open" /\ Conn(w)'.depth = Conn(w).depth
           /\ Conn(w)'.dirty = Conn(w).dirty \union {Current(w)}
           /\ Conn(w)'.pending[Current(w)] = row
           /\ \A c \in Connections \ {ConnectionOf[w]} : conn'[c] = conn[c]
           /\ durable' = durable
<1>1. conn \in [Connections -> Transaction] /\ ConnectionOf[w] \in Connections
      /\ Current(w) \in Repos /\ Conn(w) \in Transaction
  BY Types
<1> DEFINE t == [Conn(w) EXCEPT !.dirty = @ \union {Current(w)},
                                !.pending[Current(w)] = row]
<1>2. conn' = [conn EXCEPT ![ConnectionOf[w]].dirty = @ \union {Current(w)},
                           ![ConnectionOf[w]].pending[Current(w)] = row]
      /\ durable' = durable
  BY DEF Write
<1>3. conn' = [conn EXCEPT ![ConnectionOf[w]] = t]
  BY <1>1, <1>2 DEF Conn
<1>4. t \in Transaction /\ t.status = "open" /\ t.depth = Conn(w).depth
      /\ t.dirty = Conn(w).dirty \union {Current(w)} /\ t.pending[Current(w)] = row
  BY <1>1 DEF Transaction
<1> HIDE DEF t
<1> QED
  BY <1>2, <1>3, <1>4, ConnEffect

LEMMA BeginEffect ==
    ASSUME TypeOK, NEW w \in Workers, BeginOn(ConnectionOf[w]), Conn(w).depth \in 0..1
    PROVE  /\ conn' \in [Connections -> Transaction]
           /\ Conn(w) = NoTransaction =>
                  Conn(w)'.status = "open" /\ Conn(w)'.depth = 1 /\ Conn(w)'.dirty = {}
           /\ Conn(w).status = "open" =>
                  /\ Conn(w)'.status = "open" /\ Conn(w)'.depth = Conn(w).depth + 1
                  /\ Conn(w)'.dirty = Conn(w).dirty /\ Conn(w)'.pending = Conn(w).pending
           /\ \A c \in Connections \ {ConnectionOf[w]} : conn'[c] = conn[c]
<1>1. conn \in [Connections -> Transaction] /\ ConnectionOf[w] \in Connections
      /\ Conn(w) \in Transaction
  BY Types
<1>2. 1 \in 0..2 * NumRepos /\ 2 \in 0..2 * NumRepos
  BY PoolAssumption
<1>3. CASE Conn(w).status = "none"
  <2> DEFINE t == [NoTransaction EXCEPT !.status = "open", !.depth = 1]
  <2>1. conn' = [conn EXCEPT ![ConnectionOf[w]] = t]
    BY <1>1, <1>3 DEF BeginOn, Conn
  <2>2. t \in Transaction /\ t.status = "open" /\ t.depth = 1 /\ t.dirty = {}
    BY <1>2, NoTransactionType DEF Transaction
  <2> HIDE DEF t
  <2> QED
    BY <2>1, <2>2, <1>3, ConnEffect
<1>4. CASE Conn(w).status # "none"
  <2> DEFINE t == [Conn(w) EXCEPT !.depth = @ + 1]
  <2>1. conn' = [conn EXCEPT ![ConnectionOf[w]] = t]
    BY <1>1, <1>4 DEF BeginOn, Conn
  <2>2. t \in Transaction /\ t.status = Conn(w).status /\ t.depth = Conn(w).depth + 1
        /\ t.dirty = Conn(w).dirty /\ t.pending = Conn(w).pending
    BY <1>1, <1>2 DEF Transaction
  <2> HIDE DEF t
  <2> QED
    BY <2>1, <2>2, <1>4, NoTransactionType, ConnEffect
<1> QED
  BY <1>3, <1>4

LEMMA ForgetEffect ==
    ASSUME TypeOK, NEW w \in Workers, NEW step, Forget(w, step)
    PROVE  /\ conn' \in [Connections -> Transaction]
           /\ Conn(w)' = NoTransaction
           /\ \A c \in Connections \ {ConnectionOf[w]} : conn'[c] = conn[c]
           /\ Goto(w, step) /\ NoFault /\ durable' = durable
  BY NoTransactionType, ConnEffect DEF Forget

LEMMA RollbackEffect ==
    ASSUME TypeOK, NEW w \in Workers, NEW sent, NEW gone, RollbackOn(w, sent, gone)
    PROVE  /\ conn' \in [Connections -> Transaction]
           /\ \/ Conn(w).status = "none" /\ Conn(w)' = Conn(w) /\ Goto(w, gone)
              \/ Conn(w)'.status = "closing" /\ Goto(w, sent)
           /\ \A c \in Connections \ {ConnectionOf[w]} : conn'[c] = conn[c]
           /\ NoFault /\ durable' = durable
<1>1. conn \in [Connections -> Transaction] /\ ConnectionOf[w] \in Connections
      /\ Conn(w) \in Transaction
  BY Types
<1>2. CASE Conn(w).status = "none"
  BY <1>1, <1>2 DEF RollbackOn, Conn
<1>3. CASE Conn(w).status # "none"
  <2> DEFINE t == [Conn(w) EXCEPT !.status = "closing", !.dirty = {},
                                  !.pending = NoTransaction.pending]
  <2>1. conn' = [conn EXCEPT ![ConnectionOf[w]].status = "closing",
                             ![ConnectionOf[w]].dirty = {},
                             ![ConnectionOf[w]].pending = NoTransaction.pending]
        /\ Goto(w, sent) /\ NoFault /\ durable' = durable
    BY <1>3 DEF RollbackOn
  <2>2. conn' = [conn EXCEPT ![ConnectionOf[w]] = t]
    BY <1>1, <2>1 DEF Conn
  <2>3. t \in Transaction /\ t.status = "closing"
    BY <1>1, NoTransactionType DEF Transaction
  <2> HIDE DEF t
  <2> QED
    BY <2>1, <2>2, <2>3, ConnEffect
<1> QED
  BY <1>2, <1>3

\* A COMMIT, counted or sent, of what this worker alone has written.
LEMMA CommitEffect ==
    ASSUME TypeOK, NEW w \in Workers, NEW counted, NEW sent, NEW thrown,
           CommitOn(w, counted, sent, thrown),
           Conn(w).status = "open", Conn(w).depth \in 1..2, Conn(w).dirty = {Current(w)}
    PROVE  /\ conn' \in [Connections -> Transaction] /\ durable' \in [Repos -> Row]
           /\ \A c \in Connections \ {ConnectionOf[w]} : conn'[c] = conn[c]
           /\ \A r \in Repos \ {Current(w)} : durable'[r] = durable[r]
           /\ Fault \/ NoFault
           /\ \/ /\ Conn(w).depth = 2 /\ Goto(w, counted) /\ durable' = durable
                 /\ Conn(w)'.status = "open" /\ Conn(w)'.depth = 1
                 /\ Conn(w)'.dirty = Conn(w).dirty /\ Conn(w)'.pending = Conn(w).pending
              \/ /\ Conn(w).depth = 1 /\ Goto(w, sent)
                 /\ Conn(w)'.status = "closing"
                 /\ durable'[Current(w)] = Conn(w).pending[Current(w)]
              \/ /\ Conn(w).depth = 1 /\ Goto(w, thrown) /\ durable' = durable
                 /\ Conn(w)' = NoTransaction
<1>1. /\ conn \in [Connections -> Transaction] /\ ConnectionOf[w] \in Connections
      /\ Conn(w) \in Transaction /\ durable \in [Repos -> Row]
      /\ Conn(w).pending \in [Repos -> Row] /\ Current(w) \in Repos
  BY Types DEF Transaction
<1>2. CASE Conn(w).depth > 1
  <2> DEFINE t == [Conn(w) EXCEPT !.depth = @ - 1]
  <2>1. conn' = [conn EXCEPT ![ConnectionOf[w]].depth = @ - 1]
        /\ Goto(w, counted) /\ NoFault /\ durable' = durable
    BY <1>2 DEF CommitOn
  <2>2. conn' = [conn EXCEPT ![ConnectionOf[w]] = t]
    BY <1>1, <2>1 DEF Conn
  <2>3. 1 \in 0..2 * NumRepos /\ Conn(w).depth = 2
    BY <1>2, PoolAssumption
  <2>4. t \in Transaction /\ t.status = "open" /\ t.depth = 1
        /\ t.dirty = Conn(w).dirty /\ t.pending = Conn(w).pending
    BY <1>1, <2>3 DEF Transaction
  <2> HIDE DEF t
  <2> QED
    BY <2>1, <2>2, <2>3, <2>4, <1>1, ConnEffect
<1>3. CASE /\ conn' = [conn EXCEPT ![ConnectionOf[w]] = [NoTransaction EXCEPT !.status = "closing"]]
           /\ durable' = [r \in Repos |-> IF r \in Conn(w).dirty THEN Conn(w).pending[r]
                                                                ELSE durable[r]]
           /\ Goto(w, sent) /\ NoFault
           /\ ~(Conn(w).depth > 1)
  <2> DEFINE t == [NoTransaction EXCEPT !.status = "closing"]
  <2>1. t \in Transaction /\ t.status = "closing"
    BY NoTransactionType DEF Transaction
  <2>2. durable' \in [Repos -> Row]
        /\ \A r \in Repos : durable'[r] = IF r = Current(w) THEN Conn(w).pending[r] ELSE durable[r]
    BY <1>1, <1>3
  <2>3. conn' = [conn EXCEPT ![ConnectionOf[w]] = t]
    BY <1>3
  <2> HIDE DEF t
  <2>4. Conn(w).depth = 1
    BY <1>3
  <2>5. Conn(w)'.status = "closing" /\ conn' \in [Connections -> Transaction]
        /\ \A c \in Connections \ {ConnectionOf[w]} : conn'[c] = conn[c]
    BY <2>1, <2>3, ConnEffect
  <2> QED
    BY <2>2, <2>4, <2>5, <1>1, <1>3
<1>4. CASE /\ conn' = [conn EXCEPT ![ConnectionOf[w]] = NoTransaction]
           /\ Goto(w, thrown) /\ durable' = durable /\ (Fault \/ NoFault)
           /\ ~(Conn(w).depth > 1)
  <2>1. Conn(w).depth = 1
    BY <1>4
  <2>2. Conn(w)' = NoTransaction /\ conn' \in [Connections -> Transaction]
        /\ \A c \in Connections \ {ConnectionOf[w]} : conn'[c] = conn[c]
    BY <1>4, NoTransactionType, ConnEffect
  <2> QED
    BY <2>1, <2>2, <1>1, <1>4
<1> QED
  BY <1>2, <1>3, <1>4 DEF CommitOn

-----------------------------------------------------------------------------
(***************************************************************************)
(* Workers keep out of each other's way.                                   *)
(***************************************************************************)
\* What is durable of the repository that worker w is busy with.
Kept(w) == IF work[w].pc \in {"committing", "returned"}
           THEN Published(Current(w)) ELSE Untouched(Current(w))

\* A step of worker w's attempt changes its connection and its repository.
AttemptStep(w) ==
    /\ InPool
    /\ work' \in [Workers -> WorkType] /\ work'[w].job = work[w].job
    /\ \A v \in Workers \ {w} : work'[v] = work[v]
    /\ work[w].pc \notin {"free", "stopped"} /\ work'[w].pc \notin {"free", "stopped"}
    /\ conn' \in [Connections -> Transaction]
    /\ \A c \in Connections \ {ConnectionOf[w]} : conn'[c] = conn[c]
    /\ durable' \in [Repos -> Row]
    /\ \A r \in Repos \ {Current(w)} : durable'[r] = durable[r]
    /\ Fault \/ NoFault

LEMMA AttemptTypeOK ==
    ASSUME TypeOK, NEW w \in Workers, AttemptStep(w) PROVE TypeOK'
<1>1. faults' \in 0..MaxFaults
  BY FaultType DEF AttemptStep
<1> QED
  BY <1>1 DEF AttemptStep, TypeOK, InPool, WorkType

LEMMA OthersOnConnection ==
    ASSUME NEW v \in Workers, OnConnection(v), work'[v] = work[v],
           conn'[ConnectionOf[v]] = conn[ConnectionOf[v]],
           jobs'[Current(v)] = jobs[Current(v)] \/ ~Busy(v)
    PROVE  OnConnection(v)'
<1>1. Current(v)' = Current(v) /\ Conn(v)' = Conn(v)
  BY DEF Current, Conn
<1>2. Busy(v) => Attempt(v)' = Attempt(v)
  BY <1>1 DEF Attempt
<1>3. CASE Busy(v)
  BY <1>1, <1>2, <1>3
     DEF OnConnection, GraphPending, AllPending, FailurePending, Opened
<1>4. CASE ~Busy(v)
  <2>1. Conn(v) = NoTransaction
    BY <1>4 DEF OnConnection, Busy
  <2> QED
    BY <1>1, <1>4, <2>1 DEF OnConnection, Busy
<1> QED
  BY <1>3, <1>4

LEMMA AttemptKeepsJobs ==
    ASSUME IInv, NEW w \in Workers, AttemptStep(w)
    PROVE  JobsApart' /\ JobsTaken' /\ Reported'
<1>1. \A v \in Workers : Current(v)' = Current(v) /\ (Busy(v)' <=> Busy(v))
  BY DEF AttemptStep, Current, Busy
<1>2. UNCHANGED <<jobs, cursor, hasFailed, outcome>>
  BY DEF AttemptStep, InPool
<1>3. JobsApart'
  BY <1>1, <1>2 DEF IInv, JobsApart, Attempt
<1>4. \A v \in Workers : work'[v].pc = "stopped" <=> work[v].pc = "stopped"
  BY DEF AttemptStep
<1>5. JobsTaken'
  BY <1>1, <1>2, <1>4 DEF IInv, JobsTaken
<1>6. Reported'
  BY <1>2, <1>4 DEF IInv, Reported
<1> QED
  BY <1>3, <1>5, <1>6

\* A step of an attempt is right when it leaves its own connection and its own
\* repository as they should be.
LEMMA AttemptIInv ==
    ASSUME IInv, OwnConnections, NEW w \in Workers, AttemptStep(w),
           OnConnection(w)', Kept(w)'
    PROVE  IInv'
<1>1. TypeOK' /\ JobsApart' /\ JobsTaken' /\ Reported'
  BY AttemptTypeOK, AttemptKeepsJobs DEF IInv
<1>2. \A v \in Workers : Current(v)' = Current(v) /\ (Busy(v)' <=> Busy(v))
  BY DEF AttemptStep, Current, Busy
<1>3. Busy(w) /\ jobs' = jobs
  BY DEF AttemptStep, Busy, InPool
<1>4. \A v \in Workers \ {w} : OnConnection(v)'
  <2> SUFFICES ASSUME NEW v \in Workers \ {w} PROVE OnConnection(v)'
    OBVIOUS
  <2>1. ConnectionOf[v] \in Connections \ {ConnectionOf[w]}
    BY ConnectionAssumption DEF OwnConnections
  <2>2. conn'[ConnectionOf[v]] = conn[ConnectionOf[v]] /\ work'[v] = work[v]
    BY <2>1 DEF AttemptStep
  <2> QED
    BY <2>2, <1>3, OthersOnConnection DEF IInv
<1>5. ASSUME NEW r \in Repos, r # Current(w)
      PROVE  (Untouched(r)' <=> Untouched(r)) /\ (Published(r)' <=> Published(r))
  BY <1>3, <1>5 DEF AttemptStep, Untouched, Published
<1>6. AllOrNothing'
  <2>1. \A v \in Workers : Busy(v) =>
            IF work'[v].pc \in {"committing", "returned"}
            THEN Published(Current(v))' ELSE Untouched(Current(v))'
    <3> SUFFICES ASSUME NEW v \in Workers, Busy(v), v # w
                 PROVE  IF work'[v].pc \in {"committing", "returned"}
                        THEN Published(Current(v))' ELSE Untouched(Current(v))'
      BY DEF Kept
    <3>1. Current(v) # Current(w) /\ Current(v) \in Repos
      BY <1>3, Types DEF IInv, JobsApart
    <3>2. work'[v] = work[v] /\ Current(v)' = Current(v)
      BY <1>2 DEF AttemptStep
    <3>3. IF work[v].pc \in {"committing", "returned"}
          THEN Published(Current(v)) ELSE Untouched(Current(v))
      BY DEF IInv, AllOrNothing
    <3>4. durable'[Current(v)] = durable[Current(v)]
      BY <3>1 DEF AttemptStep
    <3> QED
      BY <3>2, <3>3, <3>4, <1>3 DEF Published, Untouched
  <2>2. jobs[Current(w)].status = "running"
    BY <1>3 DEF IInv, JobsApart
  <2>3. Untouched(Current(w))' \/ Published(Current(w))'
    BY DEF Kept
  <2>4. Current(w)' = Current(w)
    BY <1>2
  <2>5. ASSUME NEW r \in Repos
        PROVE  /\ Untouched(r)' \/ Published(r)'
               /\ jobs'[r].status = "pending" => Untouched(r)'
               /\ jobs'[r].status = "succeeded" => Published(r)'
    <3>1. CASE r = Current(w)
      BY <3>1, <2>2, <2>3, <2>4, <1>3 DEF Untouched, Published
    <3>2. CASE r # Current(w)
      BY <3>2, <1>3, <1>5 DEF IInv, AllOrNothing
    <3> QED
      BY <3>1, <3>2
  <2> QED
    BY <2>1, <2>5, <1>2 DEF AllOrNothing
<1> QED
  BY <1>1, <1>4, <1>6 DEF IInv

-----------------------------------------------------------------------------
(***************************************************************************)
(* The steps of an attempt.                                                *)
(***************************************************************************)
LEMMA Working ==
    ASSUME IInv, NEW w \in Workers, Busy(w)
    PROVE  /\ TypeOK /\ OnConnection(w) /\ Kept(w)
           /\ Attempt(w) \in 1..MaxAttempts /\ Current(w) \in Repos
           /\ Conn(w) \in Transaction /\ durable[Current(w)] \in Row
           /\ conn \in [Connections -> Transaction] /\ durable \in [Repos -> Row]
  BY Types DEF IInv, JobsApart, AllOrNothing, Kept

LEMMA SameJob ==
    ASSUME NEW w \in Workers, AttemptStep(w)
    PROVE  Current(w)' = Current(w) /\ Attempt(w)' = Attempt(w) /\ jobs' = jobs
  BY DEF AttemptStep, InPool, Current, Attempt

\* Most steps leave what is durable alone.
LEMMA StillUntouched ==
    ASSUME IInv, NEW w \in Workers, AttemptStep(w), durable' = durable,
           work[w].pc \notin {"committing", "returned"},
           work'[w].pc \notin {"committing", "returned"}
    PROVE  Kept(w)'
<1>1. Kept(w)
  BY Working DEF AttemptStep, Busy
<1> QED
  BY <1>1, SameJob DEF Kept, Untouched

LEMMA ScanIInv ==
    ASSUME IInv, OwnConnections, NEW w \in Workers, Scan(w) PROVE IInv'
<1>1. work[w].pc = "scan" /\ Goto(w, "begin") /\ InPool /\ NoFault
      /\ conn' = conn /\ durable' = durable
  BY DEF Scan
<1>2. TypeOK /\ OnConnection(w) /\ conn \in [Connections -> Transaction]
      /\ durable \in [Repos -> Row]
  BY <1>1, Working DEF Busy
<1>3. work' \in [Workers -> WorkType] /\ work'[w].pc = "begin" /\ work'[w].job = work[w].job
      /\ work'[w].failed = work[w].failed
      /\ \A v \in Workers \ {w} : work'[v] = work[v]
  BY <1>1, <1>2, GotoEffect DEF Steps
<1>4. AttemptStep(w)
  BY <1>1, <1>2, <1>3 DEF AttemptStep
<1>5. OnConnection(w)'
  BY <1>1, <1>2, <1>3 DEF OnConnection, Conn
<1>6. Kept(w)'
  BY <1>1, <1>3, <1>4, StillUntouched
<1> QED
  BY <1>4, <1>5, <1>6, AttemptIInv

LEMMA BeginIInv ==
    ASSUME IInv, OwnConnections, NEW w \in Workers, Begin(w) PROVE IInv'
<1>1. work[w].pc = "begin" /\ Goto(w, "graph") /\ InPool /\ NoFault
      /\ BeginOn(ConnectionOf[w]) /\ durable' = durable
  BY DEF Begin
<1>2. TypeOK /\ OnConnection(w) /\ durable \in [Repos -> Row]
  BY <1>1, Working DEF Busy
<1>3. work' \in [Workers -> WorkType] /\ work'[w].pc = "graph" /\ work'[w].job = work[w].job
      /\ work'[w].failed = work[w].failed
      /\ \A v \in Workers \ {w} : work'[v] = work[v]
  BY <1>1, <1>2, GotoEffect DEF Steps
<1>4. Conn(w) = NoTransaction
  BY <1>1, <1>2 DEF OnConnection
<1>5. /\ conn' \in [Connections -> Transaction] /\ Opened(w, 1, {})'
      /\ \A c \in Connections \ {ConnectionOf[w]} : conn'[c] = conn[c]
  BY <1>1, <1>2, <1>4, NoTransactionType, BeginEffect DEF Opened
<1>6. AttemptStep(w)
  BY <1>1, <1>2, <1>3, <1>5 DEF AttemptStep
<1>7. OnConnection(w)'
  BY <1>1, <1>2, <1>3, <1>5 DEF OnConnection
<1>8. Kept(w)'
  BY <1>1, <1>3, <1>6, StillUntouched
<1> QED
  BY <1>6, <1>7, <1>8, AttemptIInv

LEMMA WriteGraphIInv ==
    ASSUME IInv, OwnConnections, NEW w \in Workers, WriteGraph(w) PROVE IInv'
<1> DEFINE row == [Seen(w) EXCEPT !.graph = Attempt(w)]
<1>1. work[w].pc = "graph" /\ Goto(w, "stateBegin") /\ InPool /\ NoFault /\ Write(w, row)
  BY DEF WriteGraph
<1>2. TypeOK /\ OnConnection(w) /\ durable \in [Repos -> Row] /\ durable[Current(w)] \in Row
      /\ Attempt(w) \in 0..MaxAttempts
  BY <1>1, Working DEF Busy, MaxAttempts
<1>3. work' \in [Workers -> WorkType] /\ work'[w].pc = "stateBegin"
      /\ work'[w].job = work[w].job /\ work'[w].failed = work[w].failed
      /\ \A v \in Workers \ {w} : work'[v] = work[v]
  BY <1>1, <1>2, GotoEffect DEF Steps
<1>4. Opened(w, 1, {}) /\ ~work[w].failed
  BY <1>1, <1>2 DEF OnConnection
<1>5. Seen(w) = durable[Current(w)]
  BY <1>4 DEF Seen, Opened
<1>6. row \in Row /\ row.graph = Attempt(w)
  BY <1>2, <1>5 DEF Row
<1> HIDE DEF row
<1>7. /\ conn' \in [Connections -> Transaction] /\ durable' = durable
      /\ Conn(w)'.status = "open" /\ Conn(w)'.depth = 1 /\ Conn(w)'.dirty = {Current(w)}
      /\ Conn(w)'.pending[Current(w)] = row
      /\ \A c \in Connections \ {ConnectionOf[w]} : conn'[c] = conn[c]
  BY <1>1, <1>2, <1>4, <1>6, WriteEffect DEF Opened
<1>8. AttemptStep(w)
  BY <1>1, <1>2, <1>3, <1>7 DEF AttemptStep
<1>9. OnConnection(w)'
  BY <1>3, <1>4, <1>6, <1>7, <1>8, SameJob DEF OnConnection, Opened, GraphPending
<1>10. Kept(w)'
  BY <1>1, <1>3, <1>7, <1>8, StillUntouched
<1> QED
  BY <1>8, <1>9, <1>10, AttemptIInv

LEMMA CommitIInv ==
    ASSUME IInv, OwnConnections, NEW w \in Workers, Commit(w) PROVE IInv'
<1>1. work[w].pc = "commit" /\ CommitOn(w, "returned", "committing", "rollback") /\ InPool
  BY DEF Commit
<1>2. TypeOK /\ OnConnection(w) /\ durable \in [Repos -> Row]
  BY <1>1, Working DEF Busy
<1>3. Opened(w, 1, {Current(w)}) /\ AllPending(w) /\ ~work[w].failed
  BY <1>1, <1>2 DEF OnConnection
<1>4. /\ conn' \in [Connections -> Transaction] /\ durable' \in [Repos -> Row]
      /\ \A c \in Connections \ {ConnectionOf[w]} : conn'[c] = conn[c]
      /\ \A r \in Repos \ {Current(w)} : durable'[r] = durable[r]
      /\ Fault \/ NoFault
      /\ \/ /\ Goto(w, "committing") /\ Conn(w)'.status = "closing"
            /\ durable'[Current(w)] = Conn(w).pending[Current(w)]
         \/ /\ Goto(w, "rollback") /\ durable' = durable /\ Conn(w)' = NoTransaction
  BY <1>1, <1>2, <1>3, CommitEffect DEF Opened
<1>5. \E step \in {"committing", "rollback"} :
          /\ work'[w].pc = step /\ work' \in [Workers -> WorkType]
          /\ work'[w].job = work[w].job /\ work'[w].failed = work[w].failed
          /\ \A v \in Workers \ {w} : work'[v] = work[v]
          /\ IF step = "committing"
             THEN /\ Conn(w)'.status = "closing"
                  /\ durable'[Current(w)] = Conn(w).pending[Current(w)]
             ELSE durable' = durable /\ Conn(w)' = NoTransaction
  <2>1. CASE Goto(w, "committing") /\ Conn(w)'.status = "closing"
             /\ durable'[Current(w)] = Conn(w).pending[Current(w)]
    BY <2>1, <1>2, GotoEffect DEF Steps
  <2>2. CASE Goto(w, "rollback") /\ durable' = durable /\ Conn(w)' = NoTransaction
    BY <2>2, <1>2, GotoEffect DEF Steps
  <2> QED
    BY <1>4, <2>1, <2>2
<1>6. AttemptStep(w)
  BY <1>1, <1>4, <1>5 DEF AttemptStep
<1>7. OnConnection(w)'
  BY <1>3, <1>5 DEF OnConnection
<1>8. Kept(w)'
  <2>1. CASE work'[w].pc = "committing"
    <3>1. durable'[Current(w)] = [graph |-> Attempt(w),
                                  state |-> [status |-> "succeeded", attempt |-> Attempt(w)]]
      BY <2>1, <1>3, <1>5 DEF AllPending
    <3>2. Current(w)' = Current(w) /\ jobs' = jobs
      BY <1>6, SameJob
    <3> QED
      BY <2>1, <3>1, <3>2 DEF Kept, Published, Attempt
  <2>2. CASE work'[w].pc = "rollback"
    BY <2>2, <1>1, <1>5, <1>6, StillUntouched
  <2> QED
    BY <1>5, <2>1, <2>2
<1> QED
  BY <1>6, <1>7, <1>8, AttemptIInv

\* COMMIT and ROLLBACK are answered, and the transaction is forgotten.
LEMMA ForgetIInv ==
    ASSUME IInv, OwnConnections, NEW w \in Workers, NEW step \in Steps,
           Forget(w, step), InPool, work[w].pc # "committing" \/ step = "returned",
           work[w].pc \notin {"free", "stopped", "returned"},
           step \in {"returned", "clean", "stateDone", "rollback", "thrown"},
           step = "returned" => work[w].pc = "committing",
           step \in {"clean", "rollback"} => ~work[w].failed,
           step \in {"thrown", "stateDone"} => work[w].failed
    PROVE  IInv'
<1>1. TypeOK /\ OnConnection(w) /\ Kept(w) /\ durable \in [Repos -> Row]
  BY Working DEF Busy
<1>2. /\ conn' \in [Connections -> Transaction]
      /\ Conn(w)' = NoTransaction
      /\ \A c \in Connections \ {ConnectionOf[w]} : conn'[c] = conn[c]
      /\ Goto(w, step) /\ NoFault /\ durable' = durable
  BY <1>1, ForgetEffect
<1>3. work' \in [Workers -> WorkType] /\ work'[w].pc = step
      /\ work'[w].job = work[w].job /\ work'[w].failed = work[w].failed
      /\ \A v \in Workers \ {w} : work'[v] = work[v]
  BY <1>1, <1>2, GotoEffect
<1>4. AttemptStep(w)
  BY <1>1, <1>2, <1>3 DEF AttemptStep
<1>5. OnConnection(w)'
  BY <1>1, <1>2, <1>3 DEF OnConnection
<1>6. Kept(w)'
  <2>1. CASE step = "returned"
    BY <2>1, <1>1, <1>2, <1>3, <1>4, SameJob DEF Kept, Published
  <2>2. CASE step # "returned"
    BY <2>2, <1>2, <1>3, <1>4, StillUntouched
  <2> QED
    BY <2>1, <2>2
<1> QED
  BY <1>4, <1>5, <1>6, AttemptIInv

LEMMA RollbackIInv ==
    ASSUME IInv, OwnConnections, NEW w \in Workers,
           Rollback(w) \/ StateRollback(w)
    PROVE  IInv'
<1>0. PICK sent \in {"rollingBack", "stateRollingBack"},
           gone \in {"clean", "thrown", "rollback"} :
        /\ RollbackOn(w, sent, gone) /\ InPool
        /\ work[w].pc \in {"rollback", "stateRollback"}
        /\ work[w].pc = "rollback" => sent = "rollingBack" /\ gone = "clean"
        /\ work[w].pc = "stateRollback" =>
               sent = "stateRollingBack" /\ gone = StateThrows(w)
  BY DEF Rollback, StateRollback, StateThrows
<1>1. TypeOK /\ OnConnection(w) /\ durable \in [Repos -> Row]
  BY <1>0, Working DEF Busy
<1>2. /\ conn' \in [Connections -> Transaction]
      /\ \/ Conn(w).status = "none" /\ Conn(w)' = Conn(w) /\ Goto(w, gone)
         \/ Conn(w)'.status = "closing" /\ Goto(w, sent)
      /\ \A c \in Connections \ {ConnectionOf[w]} : conn'[c] = conn[c]
      /\ NoFault /\ durable' = durable
  BY <1>0, <1>1, RollbackEffect
<1>3. PICK step \in {sent, gone} : Goto(w, step)
        /\ (step = gone => Conn(w)' = NoTransaction) /\ (step = sent => Conn(w)'.status = "closing")
  BY <1>0, <1>1, <1>2 DEF OnConnection, NoTransaction
<1>4. work' \in [Workers -> WorkType] /\ work'[w].pc = step
      /\ work'[w].job = work[w].job /\ work'[w].failed = work[w].failed
      /\ \A v \in Workers \ {w} : work'[v] = work[v]
  BY <1>0, <1>1, <1>3, GotoEffect DEF Steps
<1>5. AttemptStep(w)
  BY <1>0, <1>1, <1>2, <1>4 DEF AttemptStep
<1>6. OnConnection(w)'
  BY <1>0, <1>1, <1>3, <1>4 DEF OnConnection, StateThrows
<1>7. Kept(w)'
  BY <1>0, <1>2, <1>4, <1>5, StillUntouched
<1> QED
  BY <1>5, <1>6, <1>7, AttemptIInv

LEMMA CleanIInv ==
    ASSUME IInv, OwnConnections, NEW w \in Workers, Clean(w) \/ CleanFails(w) PROVE IInv'
<1>1. work[w].pc = "clean" /\ Failed(w) /\ InPool /\ (Fault \/ NoFault)
  BY DEF Clean, CleanFails
<1>2. /\ TypeOK /\ OnConnection(w) /\ Kept(w) /\ durable \in [Repos -> Row]
      /\ conn \in [Connections -> Transaction] /\ Attempt(w) # 0
      /\ work \in [Workers -> WorkType] /\ ConnectionOf[w] \in Connections
  BY <1>1, Working, Types DEF Busy, MaxAttempts
<1>3. Conn(w) = NoTransaction
  BY <1>1, <1>2 DEF OnConnection
<1>4. Seen(w).graph # Attempt(w)
  BY <1>1, <1>2, <1>3, NoTransactionType DEF Seen, Kept, Untouched
<1>5. conn' = conn /\ durable' = durable
  <2>1. CASE Clean(w)
    BY <2>1, <1>4 DEF Clean
  <2>2. CASE CleanFails(w)
    <3>1. durable' = durable /\ conn' = [conn EXCEPT ![ConnectionOf[w]].status = "none"]
      BY <2>2, <1>2, <1>3, NoTransactionType DEF CleanFails, Break, Conn
    <3>2. conn[ConnectionOf[w]].status = "none" /\ conn[ConnectionOf[w]] \in Transaction
      BY <1>2, <1>3, NoTransactionType DEF Conn
    <3> QED
      BY <3>1, <3>2, <1>2 DEF Transaction
  <2> QED
    BY <2>1, <2>2
<1>6. work' \in [Workers -> WorkType] /\ work'[w].pc = "stateBegin"
      /\ work'[w].job = work[w].job /\ work'[w].failed = TRUE
      /\ \A v \in Workers \ {w} : work'[v] = work[v]
  BY <1>1, <1>2 DEF Failed, WorkType, Steps
<1>7. AttemptStep(w)
  BY <1>1, <1>2, <1>5, <1>6 DEF AttemptStep
<1>8. OnConnection(w)'
  BY <1>3, <1>5, <1>6 DEF OnConnection, Conn
<1>9. Kept(w)'
  BY <1>1, <1>5, <1>6, <1>7, StillUntouched
<1> QED
  BY <1>7, <1>8, <1>9, AttemptIInv

LEMMA StateBeginIInv ==
    ASSUME IInv, OwnConnections, NEW w \in Workers, StateBegin(w) PROVE IInv'
<1>1. work[w].pc = "stateBegin" /\ Goto(w, "stateWrite") /\ InPool /\ NoFault
      /\ BeginOn(ConnectionOf[w]) /\ durable' = durable
  BY DEF StateBegin
<1>2. TypeOK /\ OnConnection(w) /\ durable \in [Repos -> Row]
  BY <1>1, Working DEF Busy
<1>3. work' \in [Workers -> WorkType] /\ work'[w].pc = "stateWrite"
      /\ work'[w].job = work[w].job /\ work'[w].failed = work[w].failed
      /\ \A v \in Workers \ {w} : work'[v] = work[v]
  BY <1>1, <1>2, GotoEffect DEF Steps
<1>4. IF work[w].failed THEN Conn(w) = NoTransaction
      ELSE Opened(w, 1, {Current(w)}) /\ GraphPending(w)
  BY <1>1, <1>2 DEF OnConnection
<1>5. Conn(w).depth \in 0..1
  BY <1>4, NoTransactionType DEF Opened
<1>6. /\ conn' \in [Connections -> Transaction]
      /\ \A c \in Connections \ {ConnectionOf[w]} : conn'[c] = conn[c]
      /\ Conn(w) = NoTransaction => Opened(w, 1, {})'
      /\ Opened(w, 1, {Current(w)}) =>
             /\ Conn(w)'.status = "open" /\ Conn(w)'.depth = 2
             /\ Conn(w)'.dirty = {Current(w)} /\ Conn(w)'.pending = Conn(w).pending
  BY <1>1, <1>2, <1>5, BeginEffect DEF Opened
<1>7. AttemptStep(w)
  BY <1>1, <1>2, <1>3, <1>6 DEF AttemptStep
<1>8. OnConnection(w)'
  <2>1. CASE work[w].failed
    BY <2>1, <1>3, <1>4, <1>6 DEF OnConnection
  <2>2. CASE ~work[w].failed
    BY <2>2, <1>3, <1>4, <1>6, <1>7, SameJob DEF OnConnection, Opened, GraphPending
  <2> QED
    BY <2>1, <2>2
<1>9. Kept(w)'
  BY <1>1, <1>3, <1>7, StillUntouched
<1> QED
  BY <1>7, <1>8, <1>9, AttemptIInv

LEMMA WriteStateIInv ==
    ASSUME IInv, OwnConnections, NEW w \in Workers, WriteState(w) PROVE IInv'
<1> DEFINE state == [status |-> IF work[w].failed THEN "failed" ELSE "succeeded",
                     attempt |-> Attempt(w)]
           row == [Seen(w) EXCEPT !.state = state]
<1>1. work[w].pc = "stateWrite" /\ Goto(w, "stateCommit") /\ InPool /\ NoFault /\ Write(w, row)
  BY DEF WriteState
<1>2. /\ TypeOK /\ OnConnection(w) /\ Kept(w) /\ durable \in [Repos -> Row]
      /\ durable[Current(w)] \in Row /\ Attempt(w) \in 0..MaxAttempts
      /\ Conn(w) \in Transaction /\ Current(w) \in Repos
  BY <1>1, Working DEF Busy, MaxAttempts
<1>3. work' \in [Workers -> WorkType] /\ work'[w].pc = "stateCommit"
      /\ work'[w].job = work[w].job /\ work'[w].failed = work[w].failed
      /\ \A v \in Workers \ {w} : work'[v] = work[v]
  BY <1>1, <1>2, GotoEffect DEF Steps
<1>4. IF work[w].failed THEN Opened(w, 1, {})
      ELSE Opened(w, 2, {Current(w)}) /\ GraphPending(w)
  BY <1>1, <1>2 DEF OnConnection
<1>5. /\ Seen(w) \in Row
      /\ Seen(w).graph = IF work[w].failed THEN 0 ELSE Attempt(w)
  <2>1. CASE work[w].failed
    BY <2>1, <1>1, <1>2, <1>4 DEF Seen, Opened, Kept, Untouched
  <2>2. CASE ~work[w].failed
    <3>1. Seen(w) = Conn(w).pending[Current(w)]
      BY <2>2, <1>4 DEF Seen, Opened
    <3> QED
      BY <3>1, <2>2, <1>2, <1>4 DEF GraphPending, Transaction
  <2> QED
    BY <2>1, <2>2
<1>6. /\ state \in [status : {"none", "succeeded", "failed"}, attempt : 0..MaxAttempts]
      /\ state.status = IF work[w].failed THEN "failed" ELSE "succeeded"
  BY <1>2
<1>7. /\ row \in Row /\ row.graph = Seen(w).graph /\ row.state = state
      /\ row = [graph |-> Seen(w).graph, state |-> state]
  <2> HIDE DEF state
  <2> QED
    BY <1>5, <1>6 DEF Row
<1>8. ~work[w].failed => state = [status |-> "succeeded", attempt |-> Attempt(w)]
  OBVIOUS
<1> HIDE DEF row, state
<1>9. /\ conn' \in [Connections -> Transaction] /\ durable' = durable
      /\ Conn(w)'.status = "open" /\ Conn(w)'.depth = Conn(w).depth
      /\ Conn(w)'.dirty = {Current(w)}
      /\ Conn(w)'.pending[Current(w)] = row
      /\ \A c \in Connections \ {ConnectionOf[w]} : conn'[c] = conn[c]
  BY <1>1, <1>2, <1>4, <1>7, WriteEffect DEF Opened
<1>10. AttemptStep(w)
  BY <1>1, <1>2, <1>3, <1>9 DEF AttemptStep
<1>11. OnConnection(w)'
  <2>1. CASE work[w].failed
    <3>1. Opened(w, 1, {Current(w)})' /\ FailurePending(w)'
      BY <2>1, <1>4, <1>5, <1>6, <1>7, <1>9, <1>10, SameJob DEF Opened, FailurePending
    <3> QED
      BY <3>1, <2>1, <1>3, <1>10, SameJob DEF OnConnection
  <2>2. CASE ~work[w].failed
    <3>1. Opened(w, 2, {Current(w)})' /\ AllPending(w)'
      BY <2>2, <1>4, <1>5, <1>7, <1>8, <1>9, <1>10, SameJob DEF Opened, AllPending
    <3> QED
      BY <3>1, <2>2, <1>3, <1>10, SameJob DEF OnConnection
  <2> QED
    BY <2>1, <2>2
<1>12. Kept(w)'
  BY <1>1, <1>3, <1>9, <1>10, StillUntouched
<1> QED
  BY <1>10, <1>11, <1>12, AttemptIInv

LEMMA StateCommitIInv ==
    ASSUME IInv, OwnConnections, NEW w \in Workers, StateCommit(w) PROVE IInv'
<1>1. /\ work[w].pc = "stateCommit" /\ InPool
      /\ CommitOn(w, "stateDone", "stateCommitting", "stateRollback")
  BY DEF StateCommit
<1>2. TypeOK /\ OnConnection(w) /\ durable \in [Repos -> Row] /\ Current(w) \in Repos
  BY <1>1, Working DEF Busy
<1>3. IF work[w].failed THEN Opened(w, 1, {Current(w)}) /\ FailurePending(w)
                        ELSE Opened(w, 2, {Current(w)}) /\ AllPending(w)
  BY <1>1, <1>2 DEF OnConnection
<1>4. /\ conn' \in [Connections -> Transaction] /\ durable' \in [Repos -> Row]
      /\ \A c \in Connections \ {ConnectionOf[w]} : conn'[c] = conn[c]
      /\ \A r \in Repos \ {Current(w)} : durable'[r] = durable[r]
      /\ Fault \/ NoFault
      /\ \/ /\ Conn(w).depth = 2 /\ Goto(w, "stateDone") /\ durable' = durable
            /\ Conn(w)'.status = "open" /\ Conn(w)'.depth = 1
            /\ Conn(w)'.dirty = Conn(w).dirty /\ Conn(w)'.pending = Conn(w).pending
         \/ /\ Conn(w).depth = 1 /\ Goto(w, "stateCommitting")
            /\ Conn(w)'.status = "closing"
            /\ durable'[Current(w)] = Conn(w).pending[Current(w)]
         \/ /\ Conn(w).depth = 1 /\ Goto(w, "stateRollback") /\ durable' = durable
            /\ Conn(w)' = NoTransaction
  BY <1>1, <1>2, <1>3, CommitEffect DEF Opened
<1>a. ASSUME NEW step \in Steps, Goto(w, step), step \notin {"free", "stopped"}
      PROVE  /\ AttemptStep(w) /\ work'[w].pc = step /\ work'[w].failed = work[w].failed
             /\ Current(w)' = Current(w) /\ Attempt(w)' = Attempt(w)
  <2>1. /\ work' \in [Workers -> WorkType] /\ work'[w].pc = step
        /\ work'[w].job = work[w].job /\ work'[w].failed = work[w].failed
        /\ \A v \in Workers \ {w} : work'[v] = work[v]
    BY <1>a, <1>2, GotoEffect
  <2>2. AttemptStep(w)
    BY <1>1, <1>4, <1>a, <2>1 DEF AttemptStep
  <2> QED
    BY <2>1, <2>2, SameJob
<1>5. CASE ~work[w].failed
  <2>1. /\ Goto(w, "stateDone") /\ durable' = durable
        /\ Conn(w)'.status = "open" /\ Conn(w)'.depth = 1
        /\ Conn(w)'.dirty = {Current(w)} /\ Conn(w)'.pending = Conn(w).pending
    BY <1>3, <1>4, <1>5 DEF Opened
  <2>2. /\ AttemptStep(w) /\ work'[w].pc = "stateDone" /\ ~work'[w].failed
        /\ Current(w)' = Current(w) /\ Attempt(w)' = Attempt(w)
    BY <1>a, <1>5, <2>1 DEF Steps
  <2>3. Opened(w, 1, {Current(w)})' /\ AllPending(w)'
    BY <1>3, <1>5, <2>1, <2>2 DEF Opened, AllPending
  <2>4. OnConnection(w)'
    BY <2>2, <2>3 DEF OnConnection
  <2>5. Kept(w)'
    BY <1>1, <2>1, <2>2, StillUntouched
  <2> QED
    BY <2>2, <2>4, <2>5, AttemptIInv
<1>6. CASE work[w].failed /\ Goto(w, "stateCommitting") /\ Conn(w)'.status = "closing"
           /\ durable'[Current(w)] = Conn(w).pending[Current(w)]
  <2>1. /\ AttemptStep(w) /\ work'[w].pc = "stateCommitting" /\ work'[w].failed = work[w].failed
        /\ Current(w)' = Current(w)
    BY <1>a, <1>6 DEF Steps
  <2>2. OnConnection(w)'
    BY <1>6, <2>1 DEF OnConnection
  <2>3. Kept(w)'
    BY <1>3, <1>6, <2>1 DEF Kept, Untouched, FailurePending
  <2> QED
    BY <2>1, <2>2, <2>3, AttemptIInv
<1>7. CASE work[w].failed /\ Goto(w, "stateRollback") /\ Conn(w)' = NoTransaction
           /\ durable' = durable
  <2>1. /\ AttemptStep(w) /\ work'[w].pc = "stateRollback" /\ work'[w].failed = work[w].failed
    BY <1>a, <1>7 DEF Steps
  <2>2. OnConnection(w)'
    BY <1>7, <2>1 DEF OnConnection
  <2>3. Kept(w)'
    BY <1>1, <1>7, <2>1, StillUntouched
  <2> QED
    BY <2>1, <2>2, <2>3, AttemptIInv
<1> QED
  BY <1>3, <1>4, <1>5, <1>6, <1>7 DEF Opened

LEMMA DoneIInv ==
    ASSUME IInv, OwnConnections, NEW w \in Workers,
           CommitDone(w) \/ RollbackDone(w) \/ StateCommitDone(w) \/ StateRollbackDone(w)
    PROVE  IInv'
<1>0. /\ work[w].pc \in {"committing", "rollingBack", "stateCommitting", "stateRollingBack"}
      /\ InPool
  BY DEF CommitDone, RollbackDone, StateCommitDone, StateRollbackDone
<1>1. OnConnection(w)
  BY <1>0, Working DEF Busy
<1>2. CASE CommitDone(w)
  BY <1>2, ForgetIInv DEF CommitDone, Steps
<1>3. CASE RollbackDone(w)
  BY <1>1, <1>3, ForgetIInv DEF RollbackDone, Steps, OnConnection
<1>4. CASE StateCommitDone(w)
  BY <1>1, <1>4, ForgetIInv DEF StateCommitDone, Steps, OnConnection
<1>5. CASE StateRollbackDone(w)
  <2>1. PICK step \in {"thrown", "rollback"} :
            Forget(w, step) /\ (IF work[w].failed THEN step = "thrown" ELSE step = "rollback")
    BY <1>5 DEF StateRollbackDone, StateThrows
  <2>2. step \in Steps /\ work[w].pc = "stateRollingBack"
    BY <1>5 DEF Steps, StateRollbackDone
  <2> QED
    BY <1>0, <2>1, <2>2, ForgetIInv
<1> QED
  BY <1>2, <1>3, <1>4, <1>5

\* A step that leaves the connection alone.
LEMMA MoveIInv ==
    ASSUME IInv, OwnConnections, NEW w \in Workers, NEW step \in Steps,
           Goto(w, step), InPool, conn' = conn, durable' = durable, Fault \/ NoFault,
           \/ work[w].pc = "stateDone" /\ step = IF work[w].failed THEN "thrown" ELSE "commit"
           \/ work[w].pc \in {"scan", "begin"} /\ step = "clean"
           \/ work[w].pc = "stateBegin" /\ work[w].failed /\ step = "thrown"
           \/ work[w].pc = "graph" /\ step = "rollback"
           \/ work[w].pc = "stateWrite" /\ step = "stateRollback"
    PROVE  IInv'
<1>1. TypeOK /\ OnConnection(w) /\ durable \in [Repos -> Row]
      /\ conn \in [Connections -> Transaction]
  BY Working DEF Busy
<1>2. work' \in [Workers -> WorkType] /\ work'[w].pc = step
      /\ work'[w].job = work[w].job /\ work'[w].failed = work[w].failed
      /\ \A v \in Workers \ {w} : work'[v] = work[v]
  BY <1>1, GotoEffect
<1>3. AttemptStep(w)
  BY <1>1, <1>2 DEF AttemptStep
<1>4. Conn(w)' = Conn(w) /\ Current(w)' = Current(w) /\ Attempt(w)' = Attempt(w)
  BY <1>3, SameJob DEF Conn
<1>5. OnConnection(w)'
  BY <1>1, <1>2, <1>4 DEF OnConnection, Opened, AllPending
<1>6. Kept(w)'
  BY <1>2, <1>3, StillUntouched
<1> QED
  BY <1>3, <1>5, <1>6, AttemptIInv

LEMMA ThrowIInv ==
    ASSUME IInv, OwnConnections, NEW w \in Workers, Throw(w) PROVE IInv'
<1>1. PICK step \in {"clean", "rollback", "stateRollback"} :
        /\ Goto(w, step)
        /\ \/ work[w].pc = "scan" /\ step = "clean"
           \/ work[w].pc = "graph" /\ step = "rollback"
           \/ work[w].pc = "stateWrite" /\ step = "stateRollback"
  BY DEF Throw, Catch
<1>2. InPool /\ durable' = durable /\ (Fault \/ NoFault) /\ (Break(w) \/ conn' = conn)
  BY DEF Throw
<1>3. TypeOK /\ OnConnection(w) /\ durable \in [Repos -> Row] /\ Conn(w) \in Transaction
      /\ conn \in [Connections -> Transaction] /\ ConnectionOf[w] \in Connections
  BY <1>1, Working, ConnectionAssumption DEF Busy
<1>4. CASE conn' = conn
  BY <1>1, <1>2, <1>4, MoveIInv DEF Steps
<1>5. CASE Break(w)
  <2> DEFINE t == [Conn(w) EXCEPT !.status = IF @ = "open" THEN "broken" ELSE @]
  <2>1. conn' = [conn EXCEPT ![ConnectionOf[w]] = t]
    BY <1>3, <1>5 DEF Break, Conn
  <2>2. t \in Transaction /\ (t.status = "none" => t = Conn(w))
        /\ (t.status = "none" <=> Conn(w).status = "none")
    BY <1>3 DEF Transaction
  <2> HIDE DEF t
  <2>3. /\ conn' \in [Connections -> Transaction] /\ Conn(w)' = t
        /\ \A c \in Connections \ {ConnectionOf[w]} : conn'[c] = conn[c]
    BY <1>3, <2>1, <2>2, ConnEffect
  <2>4. work' \in [Workers -> WorkType] /\ work'[w].pc = step
        /\ work'[w].job = work[w].job /\ work'[w].failed = work[w].failed
        /\ \A v \in Workers \ {w} : work'[v] = work[v]
    BY <1>1, <1>3, GotoEffect DEF Steps
  <2>5. AttemptStep(w)
    BY <1>1, <1>2, <1>3, <2>3, <2>4 DEF AttemptStep
  <2>6. OnConnection(w)'
    <3>1. CASE work[w].pc = "scan"
      <4>1. Conn(w) = NoTransaction
        BY <3>1, <1>3 DEF OnConnection
      <4>2. t = NoTransaction
        BY <4>1, <2>2, NoTransactionType
      <4> QED
        BY <3>1, <4>2, <1>1, <1>3, <2>3, <2>4 DEF OnConnection
    <3>2. CASE work[w].pc # "scan"
      <4>1. Conn(w).status = "open" /\ step \in {"rollback", "stateRollback"}
        BY <3>2, <1>1, <1>3 DEF OnConnection, Opened
      <4> QED
        BY <3>2, <4>1, <1>1, <1>3, <2>2, <2>3, <2>4 DEF OnConnection
    <3> QED
      BY <3>1, <3>2
  <2>7. Kept(w)'
    BY <1>1, <1>2, <2>4, <2>5, StillUntouched
  <2> QED
    BY <2>5, <2>6, <2>7, AttemptIInv
<1> QED
  BY <1>2, <1>4, <1>5

LEMMA RunIInv ==
    ASSUME IInv, OwnConnections, NEW w \in Workers, Run(w) PROVE IInv'
<1>1. CASE StateDone(w)
  <2>1. PICK step \in {"thrown", "commit"} :
            Goto(w, step) /\ step = IF work[w].failed THEN "thrown" ELSE "commit"
    BY <1>1 DEF StateDone
  <2> QED
    BY <1>1, <2>1, MoveIInv DEF StateDone, Steps
<1>2. CASE BeginFails(w)
  <2>1. work[w].pc \in {"begin", "stateBegin"} /\ Conn(w).status = "none"
    BY <1>2 DEF BeginFails
  <2>2. OnConnection(w)
    BY <2>1, Working DEF Busy
  <2>3. work[w].pc = "stateBegin" => work[w].failed
    BY <2>1, <2>2 DEF OnConnection, Opened
  <2>4. PICK step \in {"thrown", "clean"} :
            Goto(w, step) /\ step = IF work[w].pc = "begin" THEN "clean" ELSE "thrown"
    BY <1>2, <2>1, <2>3 DEF BeginFails, StateThrows
  <2> QED
    BY <1>2, <2>1, <2>3, <2>4, MoveIInv DEF BeginFails, Steps
<1> QED
  BY <1>1, <1>2, ScanIInv, BeginIInv, WriteGraphIInv, CommitIInv, RollbackIInv, CleanIInv,
     StateBeginIInv, WriteStateIInv, StateCommitIInv, DoneIInv, ThrowIInv DEF Run

-----------------------------------------------------------------------------
(***************************************************************************)
(* The pool.                                                               *)
(***************************************************************************)
\* A step between attempts touches no connection and nothing durable.
PoolStep(w) ==
    /\ UNCHANGED <<conn, durable, outcome, faults>>
    /\ work' \in [Workers -> WorkType]
    /\ \A v \in Workers \ {w} : work'[v] = work[v]
    /\ work'[w].pc \in {"free", "stopped", "scan"}
    /\ work[w].pc \in {"free", "returned", "thrown"}
    /\ work'[w].pc = "scan" => ~work'[w].failed

LEMMA PoolOnConnection ==
    ASSUME IInv, NEW w \in Workers, PoolStep(w),
           \A v \in Workers \ {w} : Busy(v) => jobs'[Current(v)] = jobs[Current(v)]
    PROVE  \A v \in Workers : OnConnection(v)'
<1>1. OnConnection(w)'
  <2>1. Conn(w) = NoTransaction
    BY DEF IInv, OnConnection, PoolStep
  <2>2. Conn(w)' = NoTransaction
    BY <2>1 DEF PoolStep, Conn
  <2> QED
    BY <2>2 DEF PoolStep, OnConnection
<1>2. ASSUME NEW v \in Workers \ {w} PROVE OnConnection(v)'
  BY OthersOnConnection DEF IInv, PoolStep
<1> QED
  BY <1>1, <1>2

LEMMA TakeJobIInv == ASSUME IInv, NEW w \in Workers, TakeJob(w) PROVE IInv'
<1>0. /\ work[w].pc = "free" /\ cursor <= NumRepos /\ ~hasFailed /\ cursor' = cursor + 1
      /\ jobs' = [jobs EXCEPT ![cursor] = [status |-> "running", attempts |-> 1]]
      /\ work' = [work EXCEPT ![w] = [pc |-> "scan", job |-> cursor, failed |-> FALSE]]
      /\ UNCHANGED <<hasFailed, conn, durable, outcome, faults>>
  BY DEF TakeJob, NoFault
<1>1. /\ TypeOK /\ JobsApart /\ JobsTaken /\ Reported /\ AllOrNothing
      /\ cursor \in Nat /\ cursor \in Repos /\ jobs \in [Repos -> Job]
      /\ work \in [Workers -> WorkType]
  BY <1>0, PoolAssumption DEF IInv, TypeOK, Repos, WorkType
<1>2. /\ jobs' \in [Repos -> Job]
      /\ jobs'[cursor].status = "running" /\ jobs'[cursor].attempts = 1
      /\ \A r \in Repos \ {cursor} : jobs'[r] = jobs[r]
  <2>1. [status |-> "running", attempts |-> 1] \in Job
    BY DEF Job, JobStatus, MaxAttempts
  <2> QED
    BY <1>0, <1>1, <2>1
<1>3. /\ work' \in [Workers -> WorkType] /\ work'[w].pc = "scan" /\ work'[w].job = cursor
      /\ ~work'[w].failed /\ \A v \in Workers \ {w} : work'[v] = work[v]
  BY <1>0, <1>1 DEF WorkType, Steps
<1>4. PoolStep(w)
  BY <1>0, <1>3 DEF PoolStep
<1>5. outcome = "running" /\ ~Busy(w)
  BY <1>0, <1>1 DEF Reported, Busy
<1>6. /\ Current(w)' = cursor /\ Busy(w)'
      /\ \A v \in Workers \ {w} : Current(v)' = Current(v) /\ (Busy(v)' <=> Busy(v))
  BY <1>3 DEF Current, Busy
<1>7. \A v \in Workers : Current(v) \in Repos /\ (Busy(v) => Current(v) < cursor)
  BY <1>1, Types DEF JobsApart
<1>a. \A v \in Workers \ {w} : Busy(v) =>
          Current(v) # cursor /\ jobs'[Current(v)] = jobs[Current(v)]
  <2>1. \A v \in Workers : Busy(v) => Current(v) # cursor
    BY <1>1, <1>7 DEF Repos
  <2> QED
    BY <2>1, <1>2, <1>7
<1>8. TypeOK'
  <2>1. cursor' \in 1..NumRepos + 1
    BY <1>0, <1>1, PoolAssumption DEF Repos
  <2> QED
    BY <2>1, <1>0, <1>1, <1>2, <1>3 DEF TypeOK, WorkType
<1>9. JobsApart'
  <2>1. ASSUME NEW v \in Workers, Busy(v)'
        PROVE  /\ Current(v)' < cursor'
               /\ jobs'[Current(v)'].status = "running"
               /\ jobs'[Current(v)'].attempts \in 1..MaxAttempts
    <3>1. CASE v = w
      BY <3>1, <1>0, <1>1, <1>2, <1>6 DEF MaxAttempts
    <3>2. CASE v # w
      BY <2>1, <3>2, <1>0, <1>1, <1>6, <1>7, <1>a, Types DEF JobsApart, Attempt, Repos
    <3> QED
      BY <3>1, <3>2
  <2>2. ASSUME NEW u \in Workers, NEW v \in Workers, Busy(u)', Busy(v)',
               Current(u)' = Current(v)'
        PROVE  u = v
    BY <2>2, <1>1, <1>6, <1>a DEF JobsApart
  <2> QED
    BY <2>1, <2>2 DEF JobsApart, Attempt
<1>10. JobsTaken'
  <2>1. \A r \in Repos : jobs'[r].status = "pending" <=> r >= cursor'
    BY <1>0, <1>1, <1>2, <1>5 DEF JobsTaken, Repos
  <2>2. ASSUME NEW r \in Repos, jobs'[r].status = "running"
        PROVE  \E v \in Workers : Busy(v)' /\ Current(v)' = r
    <3>1. CASE r = cursor
      BY <3>1, <1>6
    <3>2. CASE r # cursor
      <4>1. PICK v \in Workers : Busy(v) /\ Current(v) = r
        BY <3>2, <2>2, <1>0, <1>1, <1>2 DEF JobsTaken
      <4>2. v # w
        BY <4>1, <1>5
      <4> QED
        BY <4>1, <4>2, <1>6
    <3> QED
      BY <3>1, <3>2
  <2>3. \A r \in Repos : jobs'[r].status # "failed"
    BY <1>0, <1>1, <1>2 DEF JobsTaken
  <2>4. \A v \in Workers : work'[v].pc # "stopped"
    BY <1>0, <1>1, <1>3, PoolAssumption DEF JobsTaken
  <2> QED
    BY <2>1, <2>2, <2>3, <2>4, <1>0 DEF JobsTaken
<1>11. Reported'
  BY <1>0, <1>5 DEF Reported
<1>12. AllOrNothing'
  <2>1. Untouched(cursor)
    BY <1>1, <1>5 DEF AllOrNothing, JobsTaken
  <2>2. \A r \in Repos : /\ Untouched(r)' <=> Untouched(r)
                         /\ r # cursor => (Published(r)' <=> Published(r))
    BY <1>0, <1>2 DEF Untouched, Published
  <2>3. \A r \in Repos : /\ Untouched(r)' \/ Published(r)'
                         /\ jobs'[r].status = "pending" => Untouched(r)'
                         /\ jobs'[r].status = "succeeded" => Published(r)'
    BY <1>1, <1>2, <2>1, <2>2 DEF AllOrNothing
  <2>4. \A v \in Workers : Busy(v)' =>
            IF work'[v].pc \in {"committing", "returned"}
            THEN Published(Current(v))' ELSE Untouched(Current(v))'
    <3> SUFFICES ASSUME NEW v \in Workers, Busy(v)'
                 PROVE  IF work'[v].pc \in {"committing", "returned"}
                        THEN Published(Current(v))' ELSE Untouched(Current(v))'
      OBVIOUS
    <3>1. CASE v = w
      BY <3>1, <1>0, <1>3, <1>6, <2>1 DEF Untouched
    <3>2. CASE v # w
      <4>1. Busy(v) /\ Current(v)' = Current(v) /\ work'[v] = work[v]
        BY <3>2, <1>3, <1>6
      <4>2. Current(v) # cursor /\ Current(v) \in Repos
        BY <4>1, <1>1, <1>7
      <4>3. jobs'[Current(v)] = jobs[Current(v)]
        BY <4>2, <1>2
      <4> QED
        BY <4>1, <4>3, <1>0, <1>1 DEF AllOrNothing, Published, Untouched
    <3> QED
      BY <3>1, <3>2
  <2> QED
    BY <2>3, <2>4 DEF AllOrNothing
<1>13. \A v \in Workers : OnConnection(v)'
  BY <1>4, <1>a, PoolOnConnection
<1> QED
  BY <1>8, <1>9, <1>10, <1>11, <1>12, <1>13 DEF IInv

\* A worker leaves its job, succeeded, failed or given up, or stops.
LEMMA LeaveIInv ==
    ASSUME IInv, NEW w \in Workers, PoolStep(w), cursor' = cursor, jobs' \in [Repos -> Job],
           work'[w].pc \in {"free", "stopped"}, hasFailed' \in BOOLEAN,
           work'[w].pc = "stopped" => cursor > NumRepos \/ hasFailed,
           \A r \in Repos : jobs'[r] # jobs[r] => Busy(w) /\ r = Current(w),
           Busy(w) => /\ jobs'[Current(w)].attempts = jobs[Current(w)].attempts
                      /\ \/ /\ jobs'[Current(w)].status = "succeeded"
                            /\ work[w].pc = "returned" /\ hasFailed' = hasFailed
                         \/ jobs'[Current(w)].status = "failed" /\ hasFailed'
                         \/ /\ jobs'[Current(w)].status = "running"
                            /\ hasFailed /\ hasFailed' = hasFailed,
           ~Busy(w) => hasFailed' = hasFailed
    PROVE  IInv'
<1>1. /\ TypeOK /\ JobsApart /\ JobsTaken /\ Reported /\ AllOrNothing
      /\ \A v \in Workers : Current(v) \in Repos
  BY Types DEF IInv
<1>2. /\ UNCHANGED <<conn, durable, outcome, faults, cursor>> /\ ~Busy(w)'
      /\ work' \in [Workers -> WorkType]
      /\ \A v \in Workers \ {w} : work'[v] = work[v]
      /\ work[w].pc # "stopped"
  BY DEF PoolStep, Busy
<1>3. \A v \in Workers \ {w} : Current(v)' = Current(v) /\ (Busy(v)' <=> Busy(v))
  BY <1>2 DEF Current, Busy
<1>4. \A v \in Workers \ {w} : Busy(v) => jobs'[Current(v)] = jobs[Current(v)]
  BY <1>1 DEF JobsApart
<1>5. Busy(w) => jobs[Current(w)].status = "running"
  BY <1>1 DEF JobsApart
<1>6. outcome = "running"
  <2>1. Reported /\ work[w].pc # "stopped"
    BY <1>1, <1>2
  <2> QED
    BY <2>1 DEF Reported
<1>7. TypeOK'
  BY <1>1, <1>2 DEF TypeOK, WorkType
<1>8. JobsApart'
  <2>1. ASSUME NEW v \in Workers, Busy(v)'
        PROVE  /\ v # w /\ Busy(v) /\ Current(v)' = Current(v)
               /\ jobs'[Current(v)] = jobs[Current(v)]
    BY <2>1, <1>2, <1>3, <1>4
  <2> QED
    BY <2>1, <1>1, <1>2 DEF JobsApart, Attempt
<1>9. JobsTaken'
  <2>1. \A r \in Repos : jobs'[r].status = "pending" <=> r >= cursor
    BY <1>1, <1>5, <1>6 DEF JobsTaken
  <2>2. ASSUME NEW r \in Repos, jobs'[r].status = "running", ~hasFailed'
        PROVE  \E v \in Workers : Busy(v)' /\ Current(v)' = r
    <3>1. ~hasFailed /\ ~(Busy(w) /\ r = Current(w)) /\ jobs[r].status = "running"
      BY <2>2
    <3>2. PICK v \in Workers : Busy(v) /\ Current(v) = r
      BY <3>1, <1>1 DEF JobsTaken
    <3> QED
      BY <3>1, <3>2, <1>3
  <2>3. hasFailed' <=> \E r \in Repos : jobs'[r].status = "failed"
    BY <1>1, <1>5 DEF JobsTaken
  <2>4. \A v \in Workers : work'[v].pc = "stopped" => cursor > NumRepos \/ hasFailed'
    BY <1>1, <1>2 DEF JobsTaken
  <2> QED
    BY <2>1, <2>2, <2>3, <2>4, <1>2 DEF JobsTaken
<1>10. Reported'
  BY <1>2, <1>6 DEF Reported
<1>11. AllOrNothing'
  <2>1. \A r \in Repos : /\ Untouched(r)' <=> Untouched(r)
                         /\ Published(r)' <=> Published(r)
    BY <1>2 DEF Untouched, Published
  <2>2. Busy(w) /\ work[w].pc = "returned" => Published(Current(w))
    BY <1>1 DEF AllOrNothing
  <2>3. \A r \in Repos : /\ Untouched(r)' \/ Published(r)'
                         /\ jobs'[r].status = "pending" => Untouched(r)'
                         /\ jobs'[r].status = "succeeded" => Published(r)'
    BY <1>1, <2>1, <2>2 DEF AllOrNothing
  <2>4. ASSUME NEW v \in Workers, Busy(v)'
        PROVE  IF work'[v].pc \in {"committing", "returned"}
               THEN Published(Current(v))' ELSE Untouched(Current(v))'
    <3>1. v # w /\ Busy(v) /\ Current(v)' = Current(v) /\ work'[v] = work[v]
          /\ Current(v) \in Repos /\ jobs'[Current(v)] = jobs[Current(v)]
      BY <2>4, <1>1, <1>2, <1>3, <1>4
    <3> QED
      BY <3>1, <1>1, <1>2 DEF AllOrNothing, Published, Untouched
  <2> QED
    BY <2>3, <2>4 DEF AllOrNothing
<1>12. \A v \in Workers : OnConnection(v)'
  BY <1>4, PoolOnConnection
<1> QED
  BY <1>7, <1>8, <1>9, <1>10, <1>11, <1>12 DEF IInv

LEMMA RetryIInv == ASSUME IInv, NEW w \in Workers, Retry(w) PROVE IInv'
<1>0. /\ work[w].pc = "thrown" /\ Attempt(w) < MaxAttempts
      /\ jobs' = [jobs EXCEPT ![Current(w)].attempts = @ + 1]
      /\ work' = [work EXCEPT ![w] = [pc |-> "scan", job |-> @.job, failed |-> FALSE]]
      /\ UNCHANGED <<cursor, hasFailed, conn, durable, outcome, faults>>
  BY DEF Retry, NoFault
<1>1. /\ TypeOK /\ JobsApart /\ JobsTaken /\ Reported /\ AllOrNothing /\ Busy(w)
      /\ jobs \in [Repos -> Job] /\ work \in [Workers -> WorkType]
      /\ \A v \in Workers : Current(v) \in Repos
  BY <1>0, Types DEF IInv, TypeOK, WorkType, Busy
<1>2. /\ jobs' \in [Repos -> Job]
      /\ jobs'[Current(w)].status = "running"
      /\ jobs'[Current(w)].attempts \in 1..MaxAttempts
      /\ \A r \in Repos \ {Current(w)} : jobs'[r] = jobs[r]
  <2>1. jobs[Current(w)] \in Job /\ jobs[Current(w)].status = "running"
        /\ jobs[Current(w)].attempts \in 1..MaxAttempts /\ jobs[Current(w)].attempts < MaxAttempts
    BY <1>0, <1>1 DEF JobsApart, Attempt
  <2> DEFINE job == [jobs[Current(w)] EXCEPT !.attempts = @ + 1]
  <2>2. job \in Job /\ job.status = "running" /\ job.attempts \in 1..MaxAttempts
    BY <2>1 DEF Job, MaxAttempts
  <2>3. jobs' = [jobs EXCEPT ![Current(w)] = job]
    BY <1>0, <1>1
  <2> HIDE DEF job
  <2> QED
    BY <2>2, <2>3, <1>1
<1>3. /\ work' \in [Workers -> WorkType] /\ work'[w].pc = "scan"
      /\ work'[w].job = work[w].job /\ ~work'[w].failed
      /\ \A v \in Workers \ {w} : work'[v] = work[v]
  BY <1>0, <1>1 DEF WorkType, Steps
<1>4. PoolStep(w)
  BY <1>0, <1>3 DEF PoolStep
<1>5. outcome = "running"
  <2>1. work[w].pc # "stopped"
    BY <1>0
  <2> QED
    BY <2>1, <1>1 DEF Reported
<1>6. \A v \in Workers : Current(v)' = Current(v) /\ (Busy(v)' <=> Busy(v))
  BY <1>1, <1>3 DEF Current, Busy
<1>7. \A v \in Workers \ {w} : Busy(v) =>
          Current(v) # Current(w) /\ jobs'[Current(v)] = jobs[Current(v)]
  BY <1>1, <1>2 DEF JobsApart
<1>8. TypeOK'
  BY <1>0, <1>1, <1>2, <1>3 DEF TypeOK, WorkType
<1>9. JobsApart'
  <2>1. ASSUME NEW v \in Workers, Busy(v)'
        PROVE  /\ Current(v)' < cursor'
               /\ jobs'[Current(v)].status = "running"
               /\ jobs'[Current(v)].attempts \in 1..MaxAttempts
    <3>1. CASE v = w
      BY <3>1, <1>0, <1>1, <1>2, <1>6 DEF JobsApart
    <3>2. CASE v # w
      BY <2>1, <3>2, <1>0, <1>1, <1>6, <1>7 DEF JobsApart, Attempt
    <3> QED
      BY <3>1, <3>2
  <2> QED
    BY <2>1, <1>1, <1>6 DEF JobsApart, Attempt
<1>10. JobsTaken'
  <2>1. jobs[Current(w)].status = "running"
    BY <1>1 DEF JobsApart
  <2>2. \A r \in Repos : jobs'[r].status = jobs[r].status
    BY <2>1, <1>2
  <2>3. \A v \in Workers : work'[v].pc = "stopped" => work[v].pc = "stopped"
    BY <1>3
  <2> QED
    BY <2>2, <2>3, <1>0, <1>1, <1>6 DEF JobsTaken
<1>11. Reported'
  BY <1>0, <1>5 DEF Reported
<1>12. AllOrNothing'
  <2>1. Untouched(Current(w))
    BY <1>0, <1>1 DEF AllOrNothing
  <2>2. \A r \in Repos : /\ Untouched(r)' <=> Untouched(r)
                         /\ r # Current(w) => (Published(r)' <=> Published(r))
    BY <1>0, <1>2 DEF Untouched, Published
  <2>3. \A r \in Repos : /\ Untouched(r)' \/ Published(r)'
                         /\ jobs'[r].status = "pending" => Untouched(r)'
                         /\ jobs'[r].status = "succeeded" => Published(r)'
    BY <1>1, <1>2, <2>1, <2>2 DEF AllOrNothing
  <2>4. ASSUME NEW v \in Workers, Busy(v)'
        PROVE  IF work'[v].pc \in {"committing", "returned"}
               THEN Published(Current(v))' ELSE Untouched(Current(v))'
    <3>1. CASE v = w
      BY <3>1, <1>0, <1>3, <1>6, <2>1 DEF Untouched
    <3>2. CASE v # w
      <4>1. /\ Busy(v) /\ Current(v)' = Current(v) /\ work'[v] = work[v]
            /\ Current(v) \in Repos /\ jobs'[Current(v)] = jobs[Current(v)]
        BY <2>4, <3>2, <1>1, <1>3, <1>6, <1>7
      <4> QED
        BY <4>1, <1>0, <1>1 DEF AllOrNothing, Published, Untouched
    <3> QED
      BY <3>1, <3>2
  <2> QED
    BY <2>3, <2>4 DEF AllOrNothing
<1>13. \A v \in Workers : OnConnection(v)'
  BY <1>4, <1>7, PoolOnConnection
<1> QED
  BY <1>8, <1>9, <1>10, <1>11, <1>12, <1>13 DEF IInv

LEMMA FinishIInv == ASSUME IInv, Finish PROVE IInv'
<1>0. /\ outcome = "running" /\ \A w \in Workers : work[w].pc = "stopped"
      /\ jobs' = [r \in Repos |-> IF hasFailed /\ jobs[r].status = "pending"
                                  THEN [jobs[r] EXCEPT !.status = "failed"] ELSE jobs[r]]
      /\ outcome' = IF \E r \in Repos : jobs'[r].status = "failed"
                    THEN "failed" ELSE "succeeded"
      /\ UNCHANGED <<cursor, hasFailed, work, conn, durable, faults>>
  BY DEF Finish, NoFault
<1>1. /\ TypeOK /\ JobsApart /\ JobsTaken /\ AllOrNothing /\ jobs \in [Repos -> Job]
      /\ hasFailed \in BOOLEAN
  BY DEF IInv, TypeOK
<1>2. ASSUME NEW r \in Repos
      PROVE  /\ jobs'[r] \in Job /\ jobs'[r].attempts = jobs[r].attempts
             /\ jobs'[r].status =
                    IF hasFailed /\ jobs[r].status = "pending" THEN "failed" ELSE jobs[r].status
  <2>1. jobs[r] \in Job
    BY <1>1
  <2>2. CASE hasFailed /\ jobs[r].status = "pending"
    <3>1. jobs'[r] = [jobs[r] EXCEPT !.status = "failed"]
      BY <1>0, <2>2
    <3> QED
      BY <3>1, <2>1, <2>2 DEF Job, JobStatus
  <2>3. CASE ~(hasFailed /\ jobs[r].status = "pending")
    <3>1. jobs'[r] = jobs[r]
      BY <1>0, <2>3
    <3> QED
      BY <3>1, <2>1, <2>3
  <2> QED
    BY <2>2, <2>3
<1>3. jobs' \in [Repos -> Job] /\ outcome' \in {"failed", "succeeded"}
  BY <1>0, <1>2
<1>4. TypeOK'
  BY <1>0, <1>1, <1>3 DEF TypeOK
<1>5. \A w \in Workers : ~Busy(w)' /\ ~Busy(w) /\ work'[w].pc = "stopped"
  BY <1>0 DEF Busy
<1>6. JobsApart'
  BY <1>5 DEF JobsApart
<1>7. hasFailed <=> \E r \in Repos : jobs'[r].status = "failed"
  BY <1>1, <1>2 DEF JobsTaken
<1>8. JobsTaken'
  <2>1. \A r \in Repos : jobs'[r].status = "running" => hasFailed
    BY <1>1, <1>2, <1>5 DEF JobsTaken
  <2>2. \A w \in Workers : cursor > NumRepos \/ hasFailed
    BY <1>0, <1>1 DEF JobsTaken
  <2> QED
    BY <2>1, <2>2, <1>0, <1>3, <1>7 DEF JobsTaken
<1>9. Reported'
  <2> SUFFICES ASSUME outcome' = "succeeded", Workers # {}, NEW r \in Repos
               PROVE  jobs'[r].status = "succeeded"
    BY <1>5 DEF Reported
  <2>1. ~hasFailed
    BY <1>0, <1>7
  <2>2. PICK w \in Workers : TRUE
    OBVIOUS
  <2>3. cursor > NumRepos /\ r <= NumRepos /\ r \in Nat /\ cursor \in Nat
    BY <1>0, <1>1, <2>1, <2>2, PoolAssumption DEF JobsTaken, TypeOK, Repos
  <2>4. jobs[r].status # "pending"
    BY <2>3, <1>0, <1>1, PoolAssumption DEF JobsTaken
  <2>5. jobs[r].status \notin {"running", "failed"}
    BY <2>1, <1>1, <1>5 DEF JobsTaken
  <2>6. jobs[r].status \in JobStatus
    BY <1>1 DEF Job
  <2> QED
    BY <2>1, <2>4, <2>5, <2>6, <1>2 DEF JobStatus
<1>10. AllOrNothing'
  <2>1. \A r \in Repos : /\ Untouched(r)' <=> Untouched(r)
                         /\ Published(r)' <=> Published(r)
    BY <1>0, <1>2 DEF Untouched, Published
  <2> QED
    BY <2>1, <1>1, <1>2, <1>5 DEF AllOrNothing
<1>11. \A w \in Workers : OnConnection(w)'
  BY <1>0, <1>5, OthersOnConnection DEF IInv
<1> QED
  BY <1>4, <1>6, <1>8, <1>9, <1>10, <1>11 DEF IInv

LEMMA PoolIInv == ASSUME IInv, NEW w \in Workers, Pool(w) PROVE IInv'
<1>0. /\ TypeOK /\ work \in [Workers -> WorkType] /\ jobs \in [Repos -> Job]
      /\ hasFailed \in BOOLEAN /\ Current(w) \in Repos
  BY Types DEF IInv, TypeOK
<1>1. CASE TakeJob(w)
  BY <1>1, TakeJobIInv
<1>2. CASE Retry(w)
  BY <1>2, RetryIInv
<1>a. ASSUME NEW step \in {"free", "stopped"}, Goto(w, step),
             work[w].pc \in {"free", "returned", "thrown"},
             UNCHANGED <<conn, durable, outcome, faults>>
      PROVE  PoolStep(w) /\ work'[w].pc = step
  <2>1. /\ work' \in [Workers -> WorkType] /\ work'[w].pc = step
        /\ \A v \in Workers \ {w} : work'[v] = work[v]
    BY <1>0, <1>a, GotoEffect DEF Steps
  <2> QED
    BY <2>1, <1>a DEF PoolStep
<1>b. ASSUME NEW status \in JobStatus, jobs' = [jobs EXCEPT ![Current(w)].status = status]
      PROVE  /\ jobs' \in [Repos -> Job]
             /\ \A r \in Repos : jobs'[r] # jobs[r] => r = Current(w)
             /\ jobs'[Current(w)].status = status
             /\ jobs'[Current(w)].attempts = jobs[Current(w)].attempts
  <2>1. [jobs[Current(w)] EXCEPT !.status = status] \in Job
    BY <1>0 DEF Job
  <2> QED
    BY <2>1, <1>0, <1>b DEF Job
<1>3. CASE Stop(w)
  <2>1. /\ PoolStep(w) /\ work'[w].pc = "stopped" /\ ~Busy(w)
        /\ UNCHANGED <<jobs, cursor, hasFailed>> /\ (cursor > NumRepos \/ hasFailed)
    BY <1>3, <1>a DEF Stop, NoFault, Busy
  <2> QED
    BY <2>1, <1>0, LeaveIInv
<1>4. CASE Succeed(w)
  <2>1. /\ PoolStep(w) /\ work'[w].pc = "free" /\ Busy(w) /\ work[w].pc = "returned"
        /\ UNCHANGED <<cursor, hasFailed>>
        /\ jobs' = [jobs EXCEPT ![Current(w)].status = "succeeded"]
    BY <1>4, <1>a DEF Succeed, NoFault, Busy
  <2>2. /\ jobs' \in [Repos -> Job]
        /\ \A r \in Repos : jobs'[r] # jobs[r] => r = Current(w)
        /\ jobs'[Current(w)].status = "succeeded"
        /\ jobs'[Current(w)].attempts = jobs[Current(w)].attempts
    BY <2>1, <1>b DEF JobStatus
  <2> QED
    BY <2>1, <2>2, <1>0, LeaveIInv
<1>5. CASE FailJob(w)
  <2>1. /\ PoolStep(w) /\ work'[w].pc = "free" /\ Busy(w) /\ cursor' = cursor /\ hasFailed' = TRUE
        /\ jobs' = [jobs EXCEPT ![Current(w)].status = "failed"]
    BY <1>5, <1>a DEF FailJob, NoFault, Busy
  <2>2. /\ jobs' \in [Repos -> Job]
        /\ \A r \in Repos : jobs'[r] # jobs[r] => r = Current(w)
        /\ jobs'[Current(w)].status = "failed"
        /\ jobs'[Current(w)].attempts = jobs[Current(w)].attempts
    BY <2>1, <1>b DEF JobStatus
  <2> QED
    BY <2>1, <2>2, <1>0, LeaveIInv
<1>6. CASE LeaveJob(w)
  <2>1. /\ PoolStep(w) /\ work'[w].pc = "free" /\ Busy(w) /\ hasFailed
        /\ UNCHANGED <<jobs, cursor, hasFailed>>
    BY <1>6, <1>a DEF LeaveJob, NoFault, Busy
  <2>2. jobs[Current(w)].status = "running"
    BY <2>1 DEF IInv, JobsApart
  <2> QED
    BY <2>1, <2>2, <1>0, LeaveIInv
<1> QED
  BY <1>1, <1>2, <1>3, <1>4, <1>5, <1>6 DEF Pool

-----------------------------------------------------------------------------
(***************************************************************************)
(* The theorems.                                                           *)
(***************************************************************************)
LEMMA InitIInv == Init => IInv
<1> SUFFICES ASSUME Init PROVE IInv
  OBVIOUS
<1>1. /\ \A r \in Repos : jobs[r].status = "pending" /\ jobs[r].attempts = 0
      /\ cursor = 1 /\ hasFailed = FALSE /\ outcome = "running"
      /\ \A w \in Workers : work[w].pc = "free" /\ Conn(w) = NoTransaction
      /\ \A r \in Repos : durable[r] = NoRow
  BY ConnectionAssumption DEF Init, Conn
<1>2. TypeOK
  <2>1. jobs \in [Repos -> Job] /\ durable \in [Repos -> Row]
        /\ conn \in [Connections -> Transaction]
    BY NoTransactionType DEF Init, Job, JobStatus, MaxAttempts
  <2>2. work \in [Workers -> WorkType]
    BY PoolAssumption DEF Init, WorkType, Steps, Repos
  <2>3. cursor \in 1..NumRepos + 1 /\ faults \in 0..MaxFaults
    BY PoolAssumption DEF Init
  <2>4. hasFailed \in BOOLEAN /\ outcome = "running"
    BY <1>1
  <2> QED
    BY <2>1, <2>2, <2>3, <2>4 DEF TypeOK, WorkType
<1>3. JobsApart /\ Reported
  BY <1>1 DEF JobsApart, Reported, Busy
<1>4. JobsTaken
  BY <1>1, PoolAssumption DEF JobsTaken, Repos
<1>5. AllOrNothing
  BY <1>1 DEF AllOrNothing, Untouched, NoRow, Busy
<1>6. \A w \in Workers : OnConnection(w)
  BY <1>1 DEF OnConnection
<1> QED
  BY <1>2, <1>3, <1>4, <1>5, <1>6 DEF IInv

LEMMA IInvStep == ASSUME IInv, OwnConnections, [Next]_vars PROVE IInv'
<1>1. CASE UNCHANGED vars
  <2> USE <1>1 DEF vars
  <2>1. /\ \A w \in Workers : /\ Current(w)' = Current(w) /\ Attempt(w)' = Attempt(w)
                              /\ Busy(w)' <=> Busy(w)
        /\ \A r \in Repos : /\ Untouched(r)' <=> Untouched(r)
                            /\ Published(r)' <=> Published(r)
    BY DEF Current, Attempt, Busy, Untouched, Published
  <2>2. TypeOK' /\ Reported'
    BY DEF IInv, TypeOK, Reported
  <2>3. JobsApart' /\ JobsTaken'
    BY <2>1 DEF IInv, JobsApart, JobsTaken
  <2>4. AllOrNothing'
    BY <2>1 DEF IInv, AllOrNothing, Untouched, Published
  <2>5. \A w \in Workers : OnConnection(w)'
    BY OthersOnConnection DEF IInv
  <2> QED
    BY <2>2, <2>3, <2>4, <2>5 DEF IInv
<1>2. CASE \E w \in Workers : Pool(w) \/ Run(w)
  BY <1>2, PoolIInv, RunIInv
<1>3. CASE Finish
  BY <1>3, FinishIInv
<1> QED
  BY <1>1, <1>2, <1>3 DEF Next, Over

LEMMA Invariance == ASSUME OwnConnections PROVE Spec => []IInv
<1>1. Init => IInv
  BY InitIInv
<1>2. IInv /\ [Next]_vars => IInv'
  BY IInvStep
<1> QED
  BY <1>1, <1>2, PTL DEF Spec

\* A job counted as succeeded has its graph and its index state committed and
\* keeps them, and a run that succeeds has indexed every repository: whatever
\* fails meanwhile, and however the workers interleave.
THEOREM SuccessesAreReal ==
    ASSUME OwnConnections, Workers # {} PROVE Spec => []SuccessIsReal
<1>1. IInv => SuccessIsReal
  BY DEF IInv, AllOrNothing, Reported, SuccessIsReal, SucceededMeansDurable, SuccessIsComplete
<1> QED
  BY <1>1, Invariance, PTL

\* At no moment is the graph of an attempt durable without its succeeded
\* state, or the state without the graph.
THEOREM AttemptsAreUnits ==
    ASSUME OwnConnections PROVE Spec => []CommittedAsAUnit
<1>1. IInv => CommittedAsAUnit
  <2> SUFFICES ASSUME IInv, NEW r \in Repos, NEW a \in 1..MaxAttempts
               PROVE  durable[r].graph = a
                          <=> durable[r].state = [status |-> "succeeded", attempt |-> a]
    BY DEF CommittedAsAUnit
  <2>1. CASE Untouched(r)
    BY <2>1 DEF Untouched
  <2>2. CASE Published(r)
    <3>1. durable[r].graph = jobs[r].attempts
      BY <2>2 DEF Published
    <3>2. durable[r].state = [status |-> "succeeded", attempt |-> jobs[r].attempts]
      BY <2>2 DEF Published
    <3> QED
      BY <3>1, <3>2
  <2> QED
    BY <2>1, <2>2 DEF IInv, AllOrNothing
<1> QED
  BY <1>1, Invariance, PTL

=============================================================================

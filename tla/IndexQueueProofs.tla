-------------------------- MODULE IndexQueueProofs --------------------------
(***************************************************************************)
(* Proofs about IndexQueue, for every number of jobs and of onIdle()       *)
(* callers.  The inductive invariant says that the promises form one       *)
(* chain: job j is chained on job j-1, the tail is the newest job, and a   *)
(* job that has begun has only ended jobs before it.                       *)
(***************************************************************************)
EXTENDS IndexQueue, SequenceTheorems, TLAPS

\* The jobs born so far are the ids below nextId, chained one on the other.
Chain ==
    /\ tail = nextId - 1
    /\ \A j \in Jobs : j >= nextId <=> status[j] = "unborn"
    /\ \A j \in Jobs : j < nextId => after[j] = j - 1

\* Whoever has begun was preceded by jobs that have all ended.
InOrder ==
    \A j \in Jobs : status[j] \in {"running"} \union Terminal =>
        \A k \in 1..(j - 1) : status[k] \in Terminal

\* this.runningJob is the job whose status says so.
RunningNamed ==
    /\ \A j \in Jobs : status[j] = "running" => runningJob = j
    /\ runningJob # NoJob => status[runningJob] = "running"

\* A caller of onIdle() waits for the newest job of its time.
IdleOnTail ==
    \A w \in Waiters :
        /\ idle[w].before <= nextId
        /\ idle[w].pc = "waiting" => idle[w].on = idle[w].before - 1

\* The pending list ends with the newest job and has no gap.
PendingIsSuffix ==
    /\ Len(pending) < nextId
    /\ \A i \in 1..Len(pending) : pending[i] = nextId - 1 - Len(pending) + i
    /\ \A j \in Jobs : status[j] = "pending"
                         <=> (j < nextId /\ j >= nextId - Len(pending))

\* Every job born is counted once: ended, running, or pending.
Counted ==
    completedJobs + failedJobs + Len(pending)
        + (IF runningJob = NoJob THEN 0 ELSE 1) = nextId - 1

IInv ==
    /\ TypeOK
    /\ Chain
    /\ InOrder
    /\ RunningNamed
    /\ IdleOnTail
    /\ IdleMeansDrained
    /\ PendingIsSuffix
    /\ Counted
-----------------------------------------------------------------------------
USE MaxJobsAssumption DEF Jobs, NoJob, Terminal, Statuses

LEMMA InitIInv == Init => IInv
  BY DEF Init, IInv, TypeOK, Chain, InOrder, RunningNamed, IdleOnTail,
         IdleMeansDrained, PendingIsSuffix, Counted

\* Enqueue adds the newest job at both ends of the chain: tail and list.
LEMMA EnqueueIInv == IInv /\ Enqueue => IInv'
  <1> SUFFICES ASSUME IInv, Enqueue PROVE IInv'
    OBVIOUS
  <1> USE DEF IInv, Enqueue
  <1>1. TypeOK'
    BY DEF TypeOK, Counted
  <1>2. Chain'
    <2>1. /\ nextId \in Jobs
          /\ nextId' = nextId + 1
          /\ tail' = nextId
          /\ status' = [status EXCEPT ![nextId] = "pending"]
          /\ after' = [after EXCEPT ![nextId] = tail]
          /\ status \in [Jobs -> Statuses]
          /\ DOMAIN after = Jobs
          /\ Chain
      BY DEF TypeOK
    <2> HIDE DEF IInv, Enqueue
    <2> QED
      BY <2>1, SMTT(30) DEF Chain
  <1>3. InOrder'
    BY DEF TypeOK, Chain, InOrder
  <1>4. RunningNamed'
    BY DEF TypeOK, Chain, RunningNamed
  <1>5. IdleOnTail'
    BY DEF TypeOK, IdleOnTail
  <1>6. IdleMeansDrained'
    BY DEF TypeOK, Chain, IdleMeansDrained, IdleOnTail
  <1>7. PendingIsSuffix'
    <2>1. /\ pending \in Seq(Jobs)
          /\ nextId \in Jobs
          /\ pending' = Append(pending, nextId)
          /\ nextId' = nextId + 1
          /\ status \in [Jobs -> Statuses]
          /\ status' = [status EXCEPT ![nextId] = "pending"]
      BY DEF TypeOK
    <2>2. /\ Len(pending) \in Nat
          /\ Len(pending') = Len(pending) + 1
          /\ \A i \in 1..Len(pending) : pending'[i] = pending[i]
          /\ pending'[Len(pending) + 1] = nextId
      BY <2>1
    <2> HIDE DEF IInv, Enqueue
    <2>3. PendingIsSuffix
      BY DEF IInv
    <2>4. \A i \in 1..Len(pending') : pending'[i] = nextId' - 1 - Len(pending') + i
      BY <2>1, <2>2, <2>3 DEF PendingIsSuffix
    <2>5. \A j \in Jobs : j >= nextId <=> status[j] = "unborn"
      BY DEF IInv, Chain
    <2>6. \A j \in Jobs : status'[j] = "pending"
                              <=> (j < nextId' /\ j >= nextId' - Len(pending'))
      BY <2>1, <2>2, <2>3, <2>5 DEF PendingIsSuffix
    <2> QED
      BY <2>1, <2>2, <2>3, <2>4, <2>6 DEF PendingIsSuffix
  <1>8. Counted'
    BY DEF TypeOK, Counted
  <1> QED
    BY <1>1, <1>2, <1>3, <1>4, <1>5, <1>6, <1>7, <1>8

\* The job that may start is the first of the pending list, and removing it
\* leaves the rest of the list; nothing else can be running then.
LEMMA StartIsHead ==
  ASSUME IInv, NEW j \in Jobs, StartJob(j)
  PROVE  /\ runningJob = NoJob
         /\ pending # <<>>
         /\ j = Head(pending)
         /\ pending' = Tail(pending)
         /\ Len(pending') = Len(pending) - 1
         /\ \A i \in 1..Len(pending') : pending'[i] = pending[i + 1]
  <1>0. /\ pending \in Seq(Jobs)
        /\ Len(pending) \in Nat
        /\ DOMAIN pending = 1..Len(pending)
        /\ nextId \in Nat
        /\ runningJob \in 0..MaxJobs
        /\ status[j] = "pending"
        /\ pending' = Without(pending, j)
        /\ PendingIsSuffix
    BY DEF IInv, TypeOK, StartJob
  <1>1. /\ j < nextId
        /\ j >= nextId - Len(pending)
    BY <1>0 DEF PendingIsSuffix
  <1>2. j - 1 # 0 => status[j - 1] \in Terminal
    BY <1>1 DEF IInv, Chain, StartJob, Settled
  <1>3. runningJob = NoJob
    <2> SUFFICES ASSUME runningJob \in Jobs, status[runningJob] = "running"
                 PROVE  FALSE
      BY <1>0 DEF IInv, RunningNamed
    <2>1. runningJob <= j - 1 \/ j < runningJob
      BY <1>0
    <2>2. CASE j < runningJob
      BY <1>0, <2>2 DEF IInv, InOrder
    <2>3. CASE runningJob = j - 1
      BY <1>2, <2>3
    <2>4. CASE runningJob < j - 1
      <3>1. j - 1 \in Jobs /\ runningJob \in 1..(j - 1 - 1)
        BY <2>4
      <3>2. status[j - 1] \in Terminal
        BY <3>1, <1>2
      <3> QED
        BY <3>1, <3>2 DEF IInv, InOrder
    <2> QED
      BY <2>1, <2>2, <2>3, <2>4, <1>0
  <1>4. j = nextId - Len(pending)
    <2>1. SUFFICES ASSUME j > nextId - Len(pending) PROVE FALSE
      BY <1>0, <1>1
    <2> DEFINE i == j - nextId + 1 + Len(pending)
    <2>2. i \in 1..Len(pending) /\ j = nextId - 1 - Len(pending) + i
      BY <1>0, <1>1
    <2> HIDE DEF i
    <2>3. j - 1 \in Jobs
      <3>1. i - 1 \in 1..Len(pending)
        BY <2>1, <2>2, <1>0
      <3>2. pending[i - 1] = j - 1 /\ pending[i - 1] \in Jobs
        BY <3>1, <2>2, <1>0 DEF PendingIsSuffix
      <3> QED
        BY <3>2
    <2>4. status[j - 1] = "pending"
      BY <2>1, <2>3, <1>0, <1>1 DEF PendingIsSuffix
    <2> QED
      BY <1>2, <2>3, <2>4
  <1>5. /\ 1 \in 1..Len(pending)
        /\ pending[1] = j
    BY <1>0, <1>1, <1>4 DEF PendingIsSuffix
  <1>6. \A i \in 1..Len(pending) : pending[i] = j => i = 1
    BY <1>0, <1>4 DEF PendingIsSuffix
  <1>7. (CHOOSE i \in DOMAIN pending : pending[i] = j) = 1
    BY <1>0, <1>5, <1>6
  <1>8. pending' = [i \in 1..(Len(pending) - 1) |->
                       IF i < 1 THEN pending[i] ELSE pending[i + 1]]
    BY <1>0, <1>5, <1>7 DEF Without
  <1>9. /\ Len(pending') = Len(pending) - 1
        /\ \A i \in 1..(Len(pending) - 1) : pending'[i] = pending[i + 1]
        /\ pending' \in Seq(Jobs)
    <2>1. Len(pending) - 1 \in Nat
      BY <1>0, <1>5
    <2>2. \A i \in 1..(Len(pending) - 1) : pending'[i] = pending[i + 1]
                                           /\ pending'[i] \in Jobs
      BY <1>0, <1>8
    <2> QED
      BY <2>1, <2>2, <1>8, <1>0
  <1>10. /\ pending # <<>>
         /\ Head(pending) = j
         /\ Tail(pending) \in Seq(Jobs)
         /\ Len(Tail(pending)) = Len(pending) - 1
         /\ \A i \in 1..(Len(pending) - 1) : Tail(pending)[i] = pending[i + 1]
    BY <1>0, <1>5
  <1>11. pending' = Tail(pending)
    BY <1>9, <1>10, SeqEqual
  <1> QED
    BY <1>3, <1>9, <1>10, <1>11

LEMMA StartIInv == ASSUME IInv, NEW j \in Jobs, StartJob(j) PROVE IInv'
  <1>0. /\ runningJob = NoJob
        /\ pending # <<>>
        /\ j = Head(pending)
        /\ pending' = Tail(pending)
        /\ Len(pending') = Len(pending) - 1
        /\ \A i \in 1..Len(pending') : pending'[i] = pending[i + 1]
    BY StartIsHead
  <1>1. /\ TypeOK /\ Chain /\ InOrder /\ RunningNamed /\ IdleOnTail
        /\ IdleMeansDrained /\ PendingIsSuffix /\ Counted
    BY DEF IInv
  <1>2. /\ status \in [Jobs -> Statuses]
        /\ status' = [status EXCEPT ![j] = "running"]
        /\ runningJob' = j
        /\ status[j] = "pending"
        /\ pending \in Seq(Jobs)
        /\ Len(pending) \in Nat
        /\ Len(pending) >= 1
        /\ nextId \in Nat
        /\ UNCHANGED <<nextId, tail, after, stuck, completedJobs, failedJobs,
                       lastCompletedJob, lastFailedJob, idle>>
    BY <1>0, <1>1 DEF TypeOK, StartJob
  <1>3. j = nextId - Len(pending)
    BY <1>0, <1>1, <1>2 DEF PendingIsSuffix
  <1>4. TypeOK'
    <2>1. pending' \in Seq(Jobs)
      BY <1>0, <1>2, HeadTailProperties
    <2> QED
      BY <1>1, <1>2, <2>1 DEF TypeOK
  <1>5. Chain'
    BY <1>1, <1>2 DEF Chain
  <1>6. InOrder'
    <2>0. Settled(after[j]) /\ after[j] = j - 1
      BY <1>1, <1>2, <1>3 DEF Chain, StartJob
    <2>1. j - 1 # 0 => j - 1 \in Jobs /\ status[j - 1] \in Terminal
      BY <2>0 DEF Settled
    <2>2. \A k \in 1..(j - 1) : status[k] \in Terminal
      BY <1>1, <2>1 DEF InOrder
    <2> QED
      BY <1>1, <1>2, <2>2 DEF InOrder
  <1>7. RunningNamed'
    BY <1>0, <1>1, <1>2 DEF RunningNamed
  <1>8. IdleOnTail'
    BY <1>1, <1>2 DEF IdleOnTail
  <1>9. IdleMeansDrained'
    <2> SUFFICES ASSUME NEW w \in Waiters, idle'[w].pc = "back",
                        NEW k \in 1..(idle'[w].before - 1)
                 PROVE  status'[k] \in Terminal
      BY DEF IdleMeansDrained
    <2>1. status[k] \in Terminal
      BY <1>1, <1>2 DEF IdleMeansDrained
    <2>2. k \in Jobs
      BY <1>1, <1>2 DEF TypeOK
    <2> QED
      BY <1>2, <2>1, <2>2
  <1>10. PendingIsSuffix'
    <2>1. \A i \in 1..Len(pending') :
             pending'[i] = nextId' - 1 - Len(pending') + i
      BY <1>0, <1>1, <1>2 DEF PendingIsSuffix
    <2>2. \A k \in Jobs : status'[k] = "pending"
                            <=> (k < nextId' /\ k >= nextId' - Len(pending'))
      BY <1>0, <1>1, <1>2, <1>3 DEF PendingIsSuffix
    <2> QED
      BY <1>0, <1>1, <1>2, <2>1, <2>2 DEF PendingIsSuffix
  <1>11. Counted'
    <2>1. /\ completedJobs \in Nat /\ failedJobs \in Nat
          /\ completedJobs + failedJobs + Len(pending) + 0 = nextId - 1
      BY <1>0, <1>1 DEF TypeOK, Counted
    <2>2. completedJobs + failedJobs + (Len(pending) - 1) + 1 = nextId - 1
      BY <1>2, <2>1
    <2> QED
      BY <1>0, <1>2, <2>2 DEF Counted
  <1> QED
    BY <1>4, <1>5, <1>6, <1>7, <1>8, <1>9, <1>10, <1>11 DEF IInv

LEMMA FinishIInv ==
  ASSUME IInv, NEW j \in Jobs, NEW outcome \in Terminal, FinishJob(j, outcome)
  PROVE  IInv'
  <1>1. /\ TypeOK /\ Chain /\ InOrder /\ RunningNamed /\ IdleOnTail
        /\ IdleMeansDrained /\ PendingIsSuffix /\ Counted
    BY DEF IInv
  <1>2. /\ status \in [Jobs -> Statuses]
        /\ status' = [status EXCEPT ![j] = outcome]
        /\ runningJob = j
        /\ runningJob' = NoJob
        /\ status[j] = "running"
        /\ UNCHANGED <<nextId, pending, tail, after, stuck, idle>>
    BY <1>1 DEF TypeOK, FinishJob, RunningNamed
  <1>3. /\ completedJobs' \in Nat
        /\ failedJobs' \in Nat
        /\ \/ /\ completedJobs' = completedJobs + 1
              /\ failedJobs' = failedJobs
           \/ /\ completedJobs' = completedJobs
              /\ failedJobs' = failedJobs + 1
    BY <1>1 DEF TypeOK, FinishJob
  <1>4. Counted'
    <2>1. /\ completedJobs \in Nat /\ failedJobs \in Nat
          /\ Len(pending) \in Nat /\ nextId \in Nat
      BY <1>1 DEF TypeOK
    <2>2. completedJobs + failedJobs + Len(pending) + 1 = nextId - 1
      <3>1. runningJob # NoJob
        BY <1>2
      <3> QED
        BY <1>1, <3>1 DEF Counted
    <2>3. completedJobs' + failedJobs' + Len(pending) + 0 = nextId - 1
      BY <1>3, <2>1, <2>2
    <2> QED
      BY <1>2, <2>3 DEF Counted
  <1>5. TypeOK'
    <2>1. completedJobs' \in 0..MaxJobs /\ failedJobs' \in 0..MaxJobs
      <3>1. Len(pending') \in Nat /\ nextId' \in 1..(MaxJobs + 1)
        BY <1>1, <1>2 DEF TypeOK
      <3> QED
        BY <1>2, <1>3, <1>4, <3>1 DEF Counted
    <2>2. lastCompletedJob' \in 0..MaxJobs /\ lastFailedJob' \in 0..MaxJobs
      BY <1>1 DEF TypeOK, FinishJob, Snapshot
    <2> QED
      BY <1>1, <1>2, <2>1, <2>2 DEF TypeOK
  <1>6. Chain'
    BY <1>1, <1>2 DEF Chain
  <1>7. InOrder'
    BY <1>1, <1>2 DEF InOrder
  <1>8. RunningNamed'
    BY <1>1, <1>2 DEF RunningNamed
  <1>9. IdleOnTail'
    BY <1>1, <1>2 DEF IdleOnTail
  <1>10. IdleMeansDrained'
    <2> SUFFICES ASSUME NEW w \in Waiters, idle'[w].pc = "back",
                        NEW k \in 1..(idle'[w].before - 1)
                 PROVE  status'[k] \in Terminal
      BY DEF IdleMeansDrained
    <2>1. status[k] \in Terminal
      BY <1>1, <1>2 DEF IdleMeansDrained
    <2>2. k \in Jobs
      BY <1>1, <1>2 DEF TypeOK
    <2> QED
      BY <1>2, <2>1, <2>2
  <1>11. PendingIsSuffix'
    BY <1>1, <1>2 DEF PendingIsSuffix
  <1> QED
    BY <1>4, <1>5, <1>6, <1>7, <1>8, <1>9, <1>10, <1>11 DEF IInv

\* The steps of onIdle() and of the timer move no job.
LEMMA IdleIInv ==
  ASSUME IInv, NEW w \in Waiters, CallOnIdle(w) \/ ReturnFromOnIdle(w)
  PROVE  IInv'
  <1> USE DEF IInv, CallOnIdle, ReturnFromOnIdle
  <1>0. TypeOK /\ Chain /\ IdleOnTail
    BY DEF IInv
  <1>t. /\ idle \in [Waiters -> [pc : {"out", "waiting", "back"},
                                 on : 0..MaxJobs, before : 1..(MaxJobs + 1)]]
        /\ idle' \in [Waiters -> [pc : {"out", "waiting", "back"},
                                  on : 0..MaxJobs, before : 1..(MaxJobs + 1)]]
    <2>1. tail \in 0..MaxJobs /\ nextId \in 1..(MaxJobs + 1)
          /\ idle \in [Waiters -> [pc : {"out", "waiting", "back"},
                                   on : 0..MaxJobs, before : 1..(MaxJobs + 1)]]
      BY <1>0 DEF TypeOK
    <2> HIDE DEF IInv
    <2>2. CASE CallOnIdle(w)
      BY <2>1, <2>2
    <2>3. CASE ReturnFromOnIdle(w)
      BY <2>1, <2>3
    <2> QED
      BY <2>1, <2>2, <2>3
  <1> HIDE DEF IInv
  <1>1. TypeOK'
    BY <1>0, <1>t DEF TypeOK
  <1>2. IdleOnTail'
    <2>1. CASE CallOnIdle(w)
      BY <2>1, <1>0, <1>t DEF IdleOnTail, Chain, TypeOK
    <2>2. CASE ReturnFromOnIdle(w)
      BY <2>2, <1>0, <1>t DEF IdleOnTail
    <2> QED
      BY <2>1, <2>2
  <1> USE DEF IInv
  <1>3. IdleMeansDrained'
    <2> SUFFICES ASSUME NEW v \in Waiters, idle'[v].pc = "back",
                        NEW j \in 1..(idle'[v].before - 1)
                 PROVE  status[j] \in Terminal
      BY DEF IdleMeansDrained
    <2>1. CASE idle[v].pc = "back" /\ idle'[v].before = idle[v].before
      BY <2>1 DEF IdleMeansDrained
    <2>2. CASE v = w /\ ReturnFromOnIdle(w)
      <3>1. /\ idle[v].on = idle[v].before - 1
            /\ idle'[v].before = idle[v].before
            /\ idle[v].on # 0 => status[idle[v].on] \in Terminal
        BY <2>2 DEF IdleOnTail, Settled, TypeOK
      <3>2. /\ idle[v].before \in 1..(MaxJobs + 1)
            /\ idle[v].on \in 0..MaxJobs
        BY <1>t
      <3>3. idle[v].on \in Jobs /\ j \in 1..idle[v].on
        BY <3>1, <3>2
      <3>4. status[idle[v].on] \in Terminal
        BY <3>1, <3>3
      <3>5. InOrder
        OBVIOUS
      <3> HIDE DEF IInv
      <3>6. CASE j = idle[v].on
        BY <3>4, <3>6
      <3>7. CASE j # idle[v].on
        <4>1. j \in 1..(idle[v].on - 1)
          BY <3>2, <3>3, <3>7
        <4> QED
          BY <3>3, <3>4, <3>5, <4>1 DEF InOrder
      <3> QED
        BY <3>6, <3>7
    <2> QED
      BY <2>1, <2>2 DEF TypeOK
  <1>4. (Chain /\ InOrder /\ RunningNamed /\ PendingIsSuffix /\ Counted)'
    BY DEF Chain, InOrder, RunningNamed, PendingIsSuffix, Counted
  <1> QED
    BY <1>1, <1>2, <1>3, <1>4

LEMMA StuckIInv == ASSUME IInv, NEW j \in Jobs, MarkStuck(j) PROVE IInv'
  BY DEF IInv, MarkStuck, TypeOK, Chain, InOrder, RunningNamed, IdleOnTail,
         IdleMeansDrained, PendingIsSuffix, Counted

LEMMA StutterIInv == IInv /\ UNCHANGED vars => IInv'
  BY DEF IInv, vars, TypeOK, Chain, InOrder, RunningNamed, IdleOnTail,
         IdleMeansDrained, PendingIsSuffix, Counted

LEMMA Inductive == Spec => []IInv
  <1>1. IInv /\ [Next]_vars => IInv'
    BY EnqueueIInv, StartIInv, FinishIInv, IdleIInv, StuckIInv, StutterIInv
       DEF Next
  <1> QED
    BY InitIInv, <1>1, PTL DEF Spec

\* Type correctness, for every number of jobs.
THEOREM TypeCorrect == Spec => []TypeOK
  BY Inductive, PTL DEF IInv

\* At most one index run executes at a time, in the order of enqueueing.
THEOREM OneAtATime == Spec => []SerialExecution
  <1>1. IInv => SerialExecution
    <2> SUFFICES ASSUME IInv, NEW j \in Jobs, status[j] = "running"
                 PROVE  /\ runningJob = j
                        /\ \A k \in 1..(j - 1) : status[k] \in Terminal
                        /\ \A k \in (j + 1)..MaxJobs :
                              status[k] \in {"unborn", "pending"}
      BY DEF SerialExecution
    <2>1. runningJob = j
      BY DEF IInv, RunningNamed
    <2>2. \A k \in 1..(j - 1) : status[k] \in Terminal
      BY DEF IInv, InOrder
    <2>3. ASSUME NEW k \in (j + 1)..MaxJobs
          PROVE  status[k] \in {"unborn", "pending"}
      <3>1. status[k] \in Statuses /\ j \in 1..(k - 1) /\ k \in Jobs
        BY DEF IInv, TypeOK
      <3> QED
        BY <3>1 DEF IInv, InOrder
    <2> QED
      BY <2>1, <2>2, <2>3
  <1> QED
    BY Inductive, <1>1, PTL

\* onIdle() returns only when the jobs enqueued before the call have ended.
THEOREM IdleDrained == Spec => []IdleMeansDrained
  BY Inductive, PTL DEF IInv

\* The promise chain implements SerialQueue: a job begins when nothing is
\* active, and it is the one that has waited longest.
THEOREM Refinement == Spec => ImplementsSerialQueue
  <1>1. Init => Serial!Init
    BY DEF Init, Serial!Init
  <1>2. IInv /\ [Next]_vars => [Serial!Next]_<<pending, runningJob>>
    <2> SUFFICES ASSUME IInv, [Next]_vars
                 PROVE  Serial!Next \/ UNCHANGED <<pending, runningJob>>
      OBVIOUS
    <2>1. CASE Enqueue
      <3>1. nextId \in Jobs
        BY <2>1 DEF Enqueue, IInv, TypeOK
      <3>2. nextId # runningJob
        BY <3>1 DEF IInv, Chain, RunningNamed, TypeOK
      <3>3. \A i \in DOMAIN pending : pending[i] # nextId
        <4>1. /\ DOMAIN pending = 1..Len(pending)
              /\ Len(pending) \in Nat
              /\ nextId \in Nat
          BY DEF IInv, TypeOK
        <4> QED
          BY <4>1 DEF IInv, PendingIsSuffix
      <3>4. Serial!Submit(nextId)
        BY <2>1, <3>2, <3>3 DEF Enqueue, Serial!Submit, Serial!Queued
      <3> QED
        BY <3>1, <3>4 DEF Serial!Next
    <2>2. ASSUME NEW j \in Jobs, StartJob(j) PROVE Serial!Begin
      BY <2>2, StartIsHead DEF StartJob, Serial!Begin
    <2>3. ASSUME NEW j \in Jobs, NEW outcome \in Terminal, FinishJob(j, outcome)
          PROVE  Serial!End
      BY <2>3 DEF FinishJob, Serial!End, IInv, RunningNamed
    <2>4. ASSUME NEW j \in Jobs, MarkStuck(j)
          PROVE  UNCHANGED <<pending, runningJob>>
      BY <2>4 DEF MarkStuck
    <2>5. ASSUME NEW w \in Waiters, CallOnIdle(w) \/ ReturnFromOnIdle(w)
          PROVE  UNCHANGED <<pending, runningJob>>
      BY <2>5 DEF CallOnIdle, ReturnFromOnIdle
    <2>6. CASE UNCHANGED vars
      BY <2>6 DEF vars
    <2> QED
      BY <2>1, <2>2, <2>3, <2>4, <2>5, <2>6 DEF Next, Serial!Next
  <1> QED
    BY <1>1, <1>2, Inductive, PTL
       DEF Spec, Serial!Spec, ImplementsSerialQueue, Serial!vars
=============================================================================

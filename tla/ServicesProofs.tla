--------------------------- MODULE ServicesProofs ----------------------------
(***************************************************************************)
(* Proofs about the clients of the index and the servers that own it, for  *)
(* any values of the constants: the components first, each by itself, then *)
(* the whole of MCServices, whose steps are steps of one component and     *)
(* leave the others alone.                                                 *)
(***************************************************************************)
EXTENDS MCServices, Integers, Sequences, FiniteSetTheorems, TLAPS
-----------------------------------------------------------------------------
(***************************************************************************)
(* The client of ClientSession.                                            *)
(*                                                                         *)
(* The operators of ClientSession take a state and return one, and so does *)
(* everything here: a lemma says that an operator keeps the invariant, and *)
(* a step is a few of them, one after the other.  The invariant has three  *)
(* parts that have little to do with each other: the connection with the   *)
(* jobs that use it and the callers that close it, the memoized answers,   *)
(* and the watcher.                                                        *)
(***************************************************************************)

\* Where a call needs nothing of the client, and where it does.
QuietCall == {"idle", "using", "returning", "discovering"}
Pcs == QuietCall \union {"db", "queued", "indexing", "planning", "gate", "answering",
                     "watching", "draining", "closing"}
Names == Operations \union {"", "index", "read"}
CallType ==
    [pc : Pcs, op : Names, db : Nat, job : Nat, waits : Nat, gate : Nat, planning : Nat,
     watcher : Nat, runs : Nat, repos : Nat, early : BOOLEAN]
LoadType ==
    [of : {"gate", "planning"}, runs : Nat, repos : Nat, state : {"loading", "ready", "failed"}, db : Nat]
ClientState ==
    [conns : Seq(Clients!Opening \union Clients!Heard \union {"failed"}), promise : Nat, instance : Nat,
     closed : BOOLEAN, queue : Seq(Nat), jobs : Nat, loads : Seq(LoadType), gate : Nat,
     planning : Nat, runs : Nat, repos : Nat,
     watchers : Seq(Clients!Live \union {"active", "stopped"}), watcher : Nat,
     calls : [Callers -> CallType], made : Nat,
     closing : BOOLEAN, leaked : BOOLEAN, disturbed : BOOLEAN]

\* A caller whose job is in the queue, and one whose job has begun.
Busy(s, u) ==
    \/ s.calls[u].pc \in {"queued", "indexing"}
    \/ s.calls[u].pc = "db" /\ s.calls[u].op = "index"
RunningJob(s, u) == Busy(s, u) /\ s.calls[u].pc # "queued"
IsHeld(s, c) == s.conns[c] \in Clients!Held

\* What refers to a connection refers to one there is.
References(s) ==
    /\ s.promise \in {0} \union DOMAIN s.conns
    /\ \A u \in Callers : s.calls[u].pc \in {"db", "indexing", "closing"} =>
           s.calls[u].db \in DOMAIN s.conns
    /\ \A l \in DOMAIN s.loads : s.loads[l].db \in {0} \union DOMAIN s.conns

\* One connection is held at a time, and until the client is closed its
\* promise is known.
OneHeld(s) ==
    /\ \A c, d \in DOMAIN s.conns : IsHeld(s, c) /\ IsHeld(s, d) => c = d
    /\ \A c \in DOMAIN s.conns : IsHeld(s, c) => s.closed \/ c = s.promise

\* The instance is the open connection.
InstanceOpen(s) ==
    /\ s.instance # 0 => s.instance \in DOMAIN s.conns /\ s.conns[s.instance] \in {"open", "closing"}
    /\ \A c \in DOMAIN s.conns : s.conns[c] \in {"open", "closing"} => s.instance = c

\* A caller that closes a connection finds it open, or closed by another one,
\* who left nothing open.  Only callers close, and closing ends the client.
Closings(s) ==
    /\ \A u \in Callers : s.calls[u].pc = "closing" =>
          \/ s.conns[s.calls[u].db] \in {"open", "closing"}
          \/ s.conns[s.calls[u].db] = "closed" /\ \A d \in DOMAIN s.conns : ~IsHeld(s, d)
    /\ \A c \in DOMAIN s.conns : s.conns[c] = "closing" =>
          \E u \in Callers : s.calls[u].pc = "closing" /\ s.calls[u].db = c
    /\ \A c \in DOMAIN s.conns : s.conns[c] = "closed" => s.closed

Released(s) == s.closed /\ ~s.leaked => \A c \in DOMAIN s.conns : ~IsHeld(s, c)

Connected(s) == References(s) /\ OneHeld(s) /\ InstanceOpen(s) /\ Closings(s) /\ Released(s)

\* Every busy caller has a job of its own in the queue, the running one the first.
QueueKept(s) ==
    /\ \A u \in Callers : Busy(s, u) =>
          s.calls[u].job <= s.jobs /\ \E k \in DOMAIN s.queue : s.queue[k] = s.calls[u].job
    /\ \A u \in Callers : RunningJob(s, u) => Head(s.queue) = s.calls[u].job
    /\ \A u, v \in Callers : Busy(s, u) /\ Busy(s, v) /\ s.calls[u].job = s.calls[v].job => u = v

\* Who closes waits for the jobs accepted before; so none of them runs when a
\* connection is being closed.
EarlyServed(s) ==
    /\ \A v \in Callers : s.calls[v].pc \in {"draining", "closing"} => s.closing
    /\ s.closed => s.closing
    /\ \A u, v \in Callers :
          Busy(s, u) /\ s.calls[u].early /\ s.calls[v].pc = "draining" =>
              s.calls[u].job <= s.calls[v].waits
    /\ \A u, v \in Callers : Busy(s, u) /\ s.calls[u].early => ~s.closed /\ s.calls[v].pc # "closing"
    /\ \A u \in Callers :
          s.calls[u].pc = "indexing" /\ s.calls[u].early => s.conns[s.calls[u].db] = "open"

\* A memoized answer is of the last index run and configuration, and a caller
\* has got one that is as recent as its call.
AnswersCurrent(s) ==
    /\ s.gate # 0 => s.gate \in DOMAIN s.loads /\ s.loads[s.gate].runs = s.runs
    /\ s.planning # 0 => s.planning \in DOMAIN s.loads /\ s.loads[s.planning].repos = s.repos
    /\ \A u \in Callers : s.calls[u].runs <= s.runs /\ s.calls[u].repos <= s.repos
    /\ \A u \in Callers : s.calls[u].pc \in {"gate", "answering"} =>
          s.calls[u].gate \in DOMAIN s.loads /\ s.loads[s.calls[u].gate].runs >= s.calls[u].runs
    /\ \A u \in Callers :
          s.calls[u].pc = "planning" \/ (s.calls[u].pc \in {"gate", "answering"} /\ s.calls[u].op = "ask") =>
              /\ s.calls[u].planning \in DOMAIN s.loads
              /\ s.loads[s.calls[u].planning].repos >= s.calls[u].repos

\* A watcher that is active or will be is the client's own, and whoever starts
\* one starts another one than the others.
WatcherKnown(s) ==
    /\ s.watcher \in {0} \union DOMAIN s.watchers
    /\ \A u \in Callers : s.calls[u].pc = "watching" =>
          /\ s.calls[u].watcher \in DOMAIN s.watchers
          /\ s.disturbed \/ s.watchers[s.calls[u].watcher] \in Clients!Live
    /\ \A u, v \in Callers :
          s.calls[u].pc = "watching" /\ s.calls[v].pc = "watching" /\ s.calls[u].watcher = s.calls[v].watcher =>
              u = v
    /\ ~s.disturbed => \A w \in DOMAIN s.watchers :
          s.watchers[w] \in {"active"} \union Clients!Live => w = s.watcher

ClientInv(s) ==
    /\ s \in ClientState
    /\ Connected(s) /\ QueueKept(s) /\ EarlyServed(s) /\ AnswersCurrent(s) /\ WatcherKnown(s)
-----------------------------------------------------------------------------
(* What a step leaves alone. *)

SameConnections(s, t) ==
    /\ t.conns = s.conns /\ t.promise = s.promise /\ t.instance = s.instance
    /\ t.closed = s.closed /\ t.leaked = s.leaked
SameJobs(s, t) == t.queue = s.queue /\ t.jobs = s.jobs
SameAnswers(s, t) ==
    /\ t.loads = s.loads /\ t.gate = s.gate /\ t.planning = s.planning
    /\ t.runs = s.runs /\ t.repos = s.repos
SameWatchers(s, t) ==
    t.watchers = s.watchers /\ t.watcher = s.watcher /\ t.disturbed = s.disturbed
SameOthers(s, t, u) == \A v \in Callers \ {u} : t.calls[v] = s.calls[v]

LEMMA ConnectionsKept ==
    ASSUME NEW s, NEW t, Connected(s), SameConnections(s, t),
           \A v \in Callers :
              \/ t.calls[v] = s.calls[v]
              \/ /\ s.calls[v].pc # "closing" /\ t.calls[v].pc # "closing"
                 /\ t.calls[v].pc \in {"db", "indexing"} => t.calls[v].db \in DOMAIN s.conns,
           \A l \in DOMAIN t.loads : t.loads[l].db \in {0} \union DOMAIN s.conns
    PROVE  Connected(t)
  <1>1. References(t)
    BY DEF Connected, References, SameConnections
  <1>2. OneHeld(t) /\ InstanceOpen(t) /\ Released(t)
    BY DEF Connected, OneHeld, InstanceOpen, Released, IsHeld, SameConnections
  <1>3. Closings(t)
    <2>1. \A v \in Callers : t.calls[v].pc = "closing" \/ s.calls[v].pc = "closing" => t.calls[v] = s.calls[v]
      OBVIOUS
    <2>2. \A d \in DOMAIN t.conns : IsHeld(t, d) <=> IsHeld(s, d)
      BY DEF IsHeld, SameConnections
    <2> QED
      BY <2>1, <2>2 DEF Connected, Closings, SameConnections
  <1> QED
    BY <1>1, <1>2, <1>3 DEF Connected

LEMMA JobsKept ==
    ASSUME NEW s, NEW t, QueueKept(s), SameJobs(s, t),
           \A v \in Callers :
              Busy(t, v) =>
                 /\ Busy(s, v) /\ t.calls[v].job = s.calls[v].job
                 /\ RunningJob(t, v) => Head(s.queue) = s.calls[v].job
    PROVE  QueueKept(t)
  <1>1. \A u \in Callers : RunningJob(t, u) => Busy(t, u) /\ Head(t.queue) = t.calls[u].job
    BY DEF RunningJob, SameJobs
  <1> QED
    BY <1>1 DEF QueueKept, SameJobs

LEMMA EarlyKept ==
    ASSUME NEW s, NEW t, EarlyServed(s), t.closing = s.closing, t.closed = s.closed,
           \A v \in Callers : t.calls[v].pc \in {"draining", "closing"} => t.calls[v] = s.calls[v],
           \A v \in Callers :
              Busy(t, v) =>
                 Busy(s, v) /\ t.calls[v].job = s.calls[v].job /\ t.calls[v].early = s.calls[v].early,
           \A v \in Callers :
              t.calls[v].pc = "indexing" /\ t.calls[v].early => t.conns[t.calls[v].db] = "open"
    PROVE  EarlyServed(t)
  BY DEF EarlyServed

LEMMA AnswersKept ==
    ASSUME NEW s, NEW t, AnswersCurrent(s), SameAnswers(s, t),
           \A v \in Callers :
              \/ t.calls[v] = s.calls[v]
              \/ /\ t.calls[v].pc \notin {"planning", "gate", "answering"}
                 /\ t.calls[v].runs <= s.runs /\ t.calls[v].repos <= s.repos
    PROVE  AnswersCurrent(t)
  <1>1. \A v \in Callers :
           /\ t.calls[v].runs <= t.runs /\ t.calls[v].repos <= t.repos
           /\ t.calls[v].pc \in {"planning", "gate", "answering"} => t.calls[v] = s.calls[v]
    BY DEF AnswersCurrent, SameAnswers
  <1> QED
    BY <1>1 DEF AnswersCurrent, SameAnswers

LEMMA WatchersKept ==
    ASSUME NEW s, NEW t, WatcherKnown(s), SameWatchers(s, t),
           \A v \in Callers : t.calls[v].pc = "watching" => t.calls[v] = s.calls[v]
    PROVE  WatcherKnown(t)
  BY DEF WatcherKnown, SameWatchers

\* Of the calls the one of u changes, and it keeps to what was said when it began.
Goes(s, t, u) ==
    /\ s \in ClientState /\ t \in ClientState /\ SameOthers(s, t, u)
    /\ t.calls[u].runs <= s.runs /\ t.calls[u].repos <= s.repos
-----------------------------------------------------------------------------
(* A call goes on, or ends, and nothing else changes. *)

LEMMA Quieted ==
    ASSUME NEW s, ClientInv(s), NEW u \in Callers, NEW t, Goes(s, t, u),
           t.calls[u].pc \in QuietCall, s.calls[u].pc # "closing",
           SameConnections(s, t), SameJobs(s, t), SameAnswers(s, t), SameWatchers(s, t),
           t.closing = s.closing
    PROVE  ClientInv(t)
  <1>1. ~Busy(t, u) /\ \A v \in Callers \ {u} : (Busy(t, v) <=> Busy(s, v)) /\ (RunningJob(t, v) <=> RunningJob(s, v))
    BY DEF Busy, RunningJob, QuietCall, Goes, SameOthers
  <1>2. \A l \in DOMAIN t.loads : t.loads[l].db \in {0} \union DOMAIN s.conns
    BY DEF ClientInv, Connected, References, SameAnswers
  <1>3. Connected(t)
    BY <1>2, ConnectionsKept DEF ClientInv, QuietCall, Goes, SameOthers
  <1>4. QueueKept(t)
    <2>1. \A v \in Callers : Busy(t, v) =>
              /\ Busy(s, v) /\ t.calls[v].job = s.calls[v].job
              /\ RunningJob(t, v) => Head(s.queue) = s.calls[v].job
      BY <1>1 DEF ClientInv, QueueKept, Goes, SameOthers
    <2> QED
      BY <2>1, JobsKept DEF ClientInv
  <1>5. EarlyServed(t)
    <2>1. \A v \in Callers : t.calls[v].pc \in {"draining", "closing"} => t.calls[v] = s.calls[v]
      BY DEF QuietCall, Goes, SameOthers
    <2>2. \A v \in Callers : Busy(t, v) =>
              Busy(s, v) /\ t.calls[v].job = s.calls[v].job /\ t.calls[v].early = s.calls[v].early
      BY <1>1 DEF Goes, SameOthers
    <2>3. \A v \in Callers :
              t.calls[v].pc = "indexing" /\ t.calls[v].early => t.conns[t.calls[v].db] = "open"
      BY DEF ClientInv, EarlyServed, QuietCall, Goes, SameOthers, SameConnections
    <2> QED
      BY <2>1, <2>2, <2>3, EarlyKept DEF ClientInv, SameConnections
  <1>6. AnswersCurrent(t)
    BY AnswersKept DEF ClientInv, QuietCall, Goes, SameOthers
  <1>7. WatcherKnown(t)
    BY WatchersKept DEF ClientInv, QuietCall, Goes, SameOthers
  <1> QED
    BY <1>3, <1>4, <1>5, <1>6, <1>7 DEF ClientInv, Goes

With(s, u, c, m) == [s EXCEPT !.made = m, !.calls = [s.calls EXCEPT ![u] = c]]

LEMMA WithFields ==
    ASSUME NEW s \in ClientState, NEW u \in Callers, NEW c \in CallType, NEW m \in Nat,
           c.runs <= s.runs, c.repos <= s.repos
    PROVE  /\ Goes(s, With(s, u, c, m), u) /\ With(s, u, c, m).calls[u] = c
           /\ SameConnections(s, With(s, u, c, m)) /\ SameJobs(s, With(s, u, c, m))
           /\ SameAnswers(s, With(s, u, c, m)) /\ SameWatchers(s, With(s, u, c, m))
           /\ With(s, u, c, m).closing = s.closing
  BY DEF With, ClientState, Goes, SameConnections, SameJobs, SameAnswers, SameWatchers, SameOthers

LEMMA WithKeeps ==
    ASSUME NEW s, ClientInv(s), NEW u \in Callers, NEW c \in CallType, NEW m \in Nat,
           c.pc \in QuietCall, c.runs <= s.runs, c.repos <= s.repos, s.calls[u].pc # "closing"
    PROVE  ClientInv(With(s, u, c, m)) /\ With(s, u, c, m).calls[u] = c
  <1>1. s \in ClientState
    BY DEF ClientInv
  <1> QED
    BY <1>1, WithFields, Quieted

LEMMA IdleType == Clients!Idle \in CallType /\ Clients!Idle.pc = "idle" /\ Clients!Idle.runs = 0 /\ Clients!Idle.repos = 0
  <1>1. Clients!Idle \in CallType
    BY DEF Clients!Idle, CallType, Pcs, QuietCall, Names
  <1>2. Clients!Idle.pc = "idle" /\ Clients!Idle.runs = 0 /\ Clients!Idle.repos = 0
    BY DEF Clients!Idle
  <1> QED
    BY <1>1, <1>2

LEMMA EndedKeeps ==
    ASSUME NEW s, ClientInv(s), NEW u \in Callers, s.calls[u].pc # "closing"
    PROVE  ClientInv(Clients!Ended(s, u))
  <1>1. s \in ClientState /\ s.made \in Nat /\ s.runs \in Nat /\ s.repos \in Nat
    BY DEF ClientInv, ClientState
  <1>2. Clients!Ended(s, u) = With(s, u, Clients!Idle, s.made)
    BY <1>1 DEF Clients!Ended, With, ClientState
  <1>3. Clients!Idle \in CallType /\ Clients!Idle.pc \in QuietCall /\ Clients!Idle.runs <= s.runs
            /\ Clients!Idle.repos <= s.repos
    BY <1>1, IdleType DEF QuietCall
  <1> QED
    BY <1>1, <1>2, <1>3, WithKeeps

\* A caller goes to a place of rest.
LEMMA RestKeeps ==
    ASSUME NEW s, ClientInv(s), NEW u \in Callers, s.calls[u].pc # "closing", NEW pc \in QuietCall
    PROVE  /\ ClientInv([s EXCEPT !.calls[u].pc = pc])
           /\ [s EXCEPT !.calls[u].pc = pc].calls[u].pc = pc
           /\ [s EXCEPT !.calls[u].pc = pc].calls[u].op = s.calls[u].op
  <1> DEFINE c == [s.calls[u] EXCEPT !.pc = pc]
  <1>1. s \in ClientState /\ s.made \in Nat /\ s.calls \in [Callers -> CallType] /\ s.calls[u] \in CallType
    BY DEF ClientInv, ClientState
  <1>2. c \in CallType /\ c.pc = pc /\ c.runs = s.calls[u].runs /\ c.repos = s.calls[u].repos /\ c.op = s.calls[u].op
    BY <1>1 DEF CallType, Pcs
  <1>3. c.runs <= s.runs /\ c.repos <= s.repos
    BY <1>2 DEF ClientInv, AnswersCurrent
  <1>4. [s EXCEPT !.calls[u].pc = pc] = With(s, u, c, s.made)
    BY <1>1 DEF With, ClientState
  <1> HIDE DEF c
  <1> QED
    BY <1>1, <1>2, <1>3, <1>4, WithKeeps

\* The call of a caller that is idle.
LEMMA CalledKeeps ==
    ASSUME ClientInv(client), NEW u \in Callers, Clients!At(u, "idle"), NEW op \in Names
    PROVE  /\ ClientInv(Clients!Called(op, u))
           /\ Clients!Called(op, u).calls[u].pc = "idle" /\ Clients!Called(op, u).calls[u].op = op
  <1> DEFINE c == [Clients!Idle EXCEPT !.op = op, !.runs = client.runs, !.repos = client.repos]
  <1>1. client \in ClientState /\ client.made + 1 \in Nat /\ client.runs \in Nat /\ client.repos \in Nat
    BY DEF ClientInv, ClientState
  <1>2. c \in CallType /\ c.pc = "idle" /\ c.op = op /\ c.runs = client.runs /\ c.repos = client.repos
    BY <1>1, IdleType DEF CallType
  <1>3. Clients!Called(op, u) = With(client, u, c, client.made + 1)
    BY <1>1 DEF Clients!Called, With, ClientState
  <1> HIDE DEF c
  <1>4. client.calls[u].pc # "closing"
    BY DEF Clients!At, Clients!call
  <1>5. c.pc \in QuietCall /\ c.runs <= client.runs /\ c.repos <= client.repos
    BY <1>1, <1>2 DEF QuietCall
  <1> QED
    BY <1>1, <1>2, <1>3, <1>4, <1>5, WithKeeps
-----------------------------------------------------------------------------
(* Opening the connection. *)

SameCalls(s, t) == t.calls = s.calls
Opened(s) == [s EXCEPT !.conns = Append(@, "opening"), !.promise = Len(s.conns) + 1]
Connecting(s, u) == [s EXCEPT !.calls[u].pc = "db", !.calls[u].db = s.promise]

LEMMA OpenedFields ==
    ASSUME NEW s \in ClientState
    PROVE  /\ Opened(s) \in ClientState
           /\ Opened(s).conns = Append(s.conns, "opening") /\ Opened(s).promise = Len(s.conns) + 1
           /\ Opened(s).instance = s.instance /\ Opened(s).closed = s.closed
           /\ Opened(s).leaked = s.leaked /\ Opened(s).closing = s.closing
           /\ SameCalls(s, Opened(s)) /\ SameJobs(s, Opened(s)) /\ SameAnswers(s, Opened(s))
           /\ SameWatchers(s, Opened(s))
  <1>1. Append(s.conns, "opening") \in Seq(Clients!Opening \union Clients!Heard \union {"failed"})
            /\ Len(s.conns) + 1 \in Nat
    BY DEF ClientState, Clients!Opening
  <1> QED
    BY <1>1 DEF Opened, ClientState, SameCalls, SameJobs, SameAnswers, SameWatchers

\* As long as the client is not closed, no connection is held without promise,
\* and none is being closed.
LEMMA NoneHeld ==
    ASSUME NEW s, ClientInv(s), ~s.closed, s.promise = 0
    PROVE  /\ \A c \in DOMAIN s.conns : ~IsHeld(s, c)
           /\ \A u \in Callers : s.calls[u].pc # "closing"
           /\ s.instance = 0
  <1>1. \A c \in DOMAIN s.conns : ~IsHeld(s, c) /\ s.conns[c] # "closed"
    <2>1. 0 \notin DOMAIN s.conns
      BY DEF ClientInv, ClientState
    <2> QED
      BY <2>1 DEF ClientInv, Connected, OneHeld, Closings
  <1>2. ASSUME NEW u \in Callers, s.calls[u].pc = "closing" PROVE FALSE
    BY <1>1, <1>2 DEF ClientInv, Connected, References, Closings, IsHeld, Clients!Held
  <1>3. s.instance = 0
    BY <1>1 DEF ClientInv, Connected, InstanceOpen, IsHeld, Clients!Held
  <1> QED
    BY <1>1, <1>2, <1>3

LEMMA SameCallsKeep ==
    ASSUME NEW s, NEW t, ClientInv(s), SameCalls(s, t), SameJobs(s, t), SameWatchers(s, t)
    PROVE  /\ QueueKept(t) /\ WatcherKnown(t)
           /\ SameAnswers(s, t) => AnswersCurrent(t)
           /\ t.closing = s.closing /\ t.closed = s.closed
              /\ (\A c \in DOMAIN s.conns : s.conns[c] = "open" => t.conns[c] = "open") => EarlyServed(t)
  <1>1. \A v \in Callers : t.calls[v] = s.calls[v] /\ (Busy(t, v) <=> Busy(s, v)) /\ (RunningJob(t, v) <=> RunningJob(s, v))
    BY DEF SameCalls, Busy, RunningJob
  <1>2. QueueKept(t)
    <2>1. \A v \in Callers : Busy(t, v) =>
              /\ Busy(s, v) /\ t.calls[v].job = s.calls[v].job
              /\ RunningJob(t, v) => Head(s.queue) = s.calls[v].job
      BY <1>1 DEF ClientInv, QueueKept
    <2> QED
      BY <2>1, JobsKept DEF ClientInv
  <1>3. WatcherKnown(t)
    BY <1>1, WatchersKept DEF ClientInv
  <1>4. SameAnswers(s, t) => AnswersCurrent(t)
    BY <1>1, AnswersKept DEF ClientInv
  <1>5. ASSUME t.closing = s.closing, t.closed = s.closed,
               \A c \in DOMAIN s.conns : s.conns[c] = "open" => t.conns[c] = "open"
        PROVE  EarlyServed(t)
    <2>1. \A v \in Callers :
              t.calls[v].pc = "indexing" /\ t.calls[v].early => t.conns[t.calls[v].db] = "open"
      BY <1>1, <1>5 DEF ClientInv, EarlyServed, Connected, References
    <2> QED
      BY <1>1, <1>5, <2>1, EarlyKept DEF ClientInv
  <1> QED
    BY <1>2, <1>3, <1>4, <1>5

LEMMA OpenedKeeps ==
    ASSUME NEW s, ClientInv(s), ~s.closed, s.promise = 0
    PROVE  ClientInv(Opened(s)) /\ Opened(s).promise # 0 /\ SameCalls(s, Opened(s))
  <1> DEFINE t == Opened(s)
             n == Len(s.conns) + 1
  <1>1. /\ s \in ClientState /\ s.conns \in Seq(Clients!Opening \union Clients!Heard \union {"failed"}) /\ n \in Nat
    BY DEF ClientInv, ClientState
  <1>2. /\ t \in ClientState
        /\ t.conns = Append(s.conns, "opening") /\ t.promise = n
        /\ t.instance = s.instance /\ t.closed = s.closed
        /\ t.leaked = s.leaked /\ t.closing = s.closing
        /\ SameCalls(s, t) /\ SameJobs(s, t) /\ SameAnswers(s, t) /\ SameWatchers(s, t)
    BY <1>1, OpenedFields
  <1>3. /\ DOMAIN t.conns = DOMAIN s.conns \union {n} /\ n \notin DOMAIN s.conns /\ n # 0
        /\ t.conns[n] = "opening" /\ \A c \in DOMAIN s.conns : t.conns[c] = s.conns[c]
    BY <1>1, <1>2
  <1> HIDE DEF t, n
  <1>4. /\ \A c \in DOMAIN s.conns : ~IsHeld(s, c)
        /\ \A u \in Callers : t.calls[u].pc # "closing"
        /\ t.instance = 0
    BY <1>2, NoneHeld DEF SameCalls
  <1>5. \A c \in DOMAIN t.conns : IsHeld(t, c) <=> c = n
    BY <1>3, <1>4 DEF IsHeld, Clients!Held, Clients!Opening
  <1>6. References(t)
    BY <1>2, <1>3 DEF ClientInv, Connected, References, SameCalls, SameAnswers
  <1>7. OneHeld(t) /\ InstanceOpen(t) /\ Released(t)
    BY <1>2, <1>3, <1>4, <1>5 DEF OneHeld, InstanceOpen, Released, IsHeld, Clients!Held
  <1>8. Closings(t)
    BY <1>2, <1>3, <1>4, <1>5 DEF ClientInv, Connected, Closings, IsHeld, Clients!Held
  <1>9. QueueKept(t) /\ WatcherKnown(t) /\ AnswersCurrent(t) /\ EarlyServed(t)
    BY <1>2, <1>3, SameCallsKeep
  <1> QED
    BY <1>2, <1>3, <1>6, <1>7, <1>8, <1>9 DEF ClientInv, Connected, t

LEMMA ConnectingKeeps ==
    ASSUME NEW s, ClientInv(s), NEW u \in Callers, s.promise # 0,
           s.calls[u].pc \in QuietCall \union {"queued"},
           s.calls[u].op = "index" => s.calls[u].pc = "queued" /\ Head(s.queue) = s.calls[u].job
    PROVE  ClientInv(Connecting(s, u))
  <1> DEFINE c == [s.calls[u] EXCEPT !.pc = "db", !.db = s.promise]
             t == With(s, u, c, s.made)
  <1>1. s \in ClientState /\ s.made \in Nat /\ s.promise \in Nat /\ s.calls \in [Callers -> CallType]
            /\ s.calls[u] \in CallType
    BY DEF ClientInv, ClientState
  <1>2. /\ c \in CallType /\ c.pc = "db" /\ c.db = s.promise
        /\ c.runs = s.calls[u].runs /\ c.repos = s.calls[u].repos
        /\ c.op = s.calls[u].op /\ c.job = s.calls[u].job /\ c.early = s.calls[u].early
    BY <1>1 DEF CallType, Pcs
  <1>3. c.runs <= s.runs /\ c.repos <= s.repos
    BY <1>2 DEF ClientInv, AnswersCurrent
  <1>4. Connecting(s, u) = t
    BY <1>1 DEF Connecting, With, ClientState
  <1> HIDE DEF c
  <1>5. /\ Goes(s, t, u) /\ t.calls[u] = c
        /\ SameConnections(s, t) /\ SameJobs(s, t) /\ SameAnswers(s, t) /\ SameWatchers(s, t)
        /\ t.closing = s.closing
    BY <1>1, <1>2, <1>3, WithFields
  <1> HIDE DEF t
  <1>6. \A v \in Callers \ {u} : t.calls[v] = s.calls[v] /\ (Busy(t, v) <=> Busy(s, v))
            /\ (RunningJob(t, v) <=> RunningJob(s, v))
    BY <1>5 DEF Busy, RunningJob, Goes, SameOthers
  <1>7. Busy(t, u) => Busy(s, u) /\ Head(s.queue) = s.calls[u].job
    BY <1>2, <1>5 DEF Busy
  <1>8. Connected(t)
    <2>1. s.calls[u].pc # "closing" /\ t.calls[u].pc = "db" /\ t.calls[u].db \in DOMAIN s.conns
      BY <1>2, <1>5 DEF QuietCall, ClientInv, Connected, References
    <2>2. \A l \in DOMAIN t.loads : t.loads[l].db \in {0} \union DOMAIN s.conns
      BY <1>5 DEF ClientInv, Connected, References, SameAnswers
    <2> QED
      BY <1>5, <1>6, <2>1, <2>2, ConnectionsKept DEF ClientInv
  <1>9. QueueKept(t)
    <2>1. \A v \in Callers : Busy(t, v) =>
              /\ Busy(s, v) /\ t.calls[v].job = s.calls[v].job
              /\ RunningJob(t, v) => Head(s.queue) = s.calls[v].job
      BY <1>2, <1>5, <1>6, <1>7 DEF ClientInv, QueueKept
    <2> QED
      BY <1>5, <2>1, JobsKept DEF ClientInv
  <1>10. EarlyServed(t)
    <2>1. \A v \in Callers : t.calls[v].pc \in {"draining", "closing"} => t.calls[v] = s.calls[v]
      BY <1>2, <1>5, <1>6
    <2>2. \A v \in Callers : Busy(t, v) =>
              Busy(s, v) /\ t.calls[v].job = s.calls[v].job /\ t.calls[v].early = s.calls[v].early
      BY <1>2, <1>5, <1>6, <1>7
    <2>3. \A v \in Callers :
              t.calls[v].pc = "indexing" /\ t.calls[v].early => t.conns[t.calls[v].db] = "open"
      BY <1>2, <1>5, <1>6 DEF ClientInv, EarlyServed, SameConnections
    <2> QED
      BY <1>5, <2>1, <2>2, <2>3, EarlyKept DEF ClientInv, SameConnections
  <1>11. AnswersCurrent(t) /\ WatcherKnown(t)
    BY <1>2, <1>3, <1>5, <1>6, AnswersKept, WatchersKept DEF ClientInv
  <1> QED
    BY <1>4, <1>5, <1>8, <1>9, <1>10, <1>11 DEF ClientInv, Goes

\* getDb, of a caller at rest or whose job begins.
LEMMA GetDbKeeps ==
    ASSUME NEW s, ClientInv(s), NEW u \in Callers, s.calls[u].pc \in QuietCall \union {"queued"},
           s.calls[u].op = "index" => s.calls[u].pc = "queued" /\ Head(s.queue) = s.calls[u].job
    PROVE  ClientInv(Clients!GetDb(s, u))
  <1>1. CASE s.closed
    BY <1>1, EndedKeeps DEF Clients!GetDb, QuietCall
  <1>2. CASE ~s.closed /\ s.promise # 0
    BY <1>2, ConnectingKeeps DEF Clients!GetDb, Connecting
  <1>3. CASE ~s.closed /\ s.promise = 0
    <2>1. ClientInv(Opened(s)) /\ Opened(s).promise # 0 /\ SameCalls(s, Opened(s))
      BY <1>3, OpenedKeeps
    <2>2. SameJobs(s, Opened(s)) /\ Opened(s).promise = Len(s.conns) + 1 /\ s \in ClientState
      BY OpenedFields DEF ClientInv
    <2>3. ClientInv(Connecting(Opened(s), u))
      BY <2>1, <2>2, ConnectingKeeps DEF SameCalls, SameJobs
    <2>4. Clients!GetDb(s, u) = Connecting(Opened(s), u)
      BY <1>3, <2>2 DEF Clients!GetDb, Connecting, Opened, ClientState
    <2> QED
      BY <2>3, <2>4
  <1> QED
    BY <1>1, <1>2, <1>3

\* The status of a connection changes.
ConnectionStatus == Clients!Opening \union Clients!Heard \union {"failed"}
Conn(s, c, status, promise, instance) ==
    [s EXCEPT !.conns = [s.conns EXCEPT ![c] = status], !.promise = promise, !.instance = instance]

LEMMA ConnFields ==
    ASSUME NEW s \in ClientState, NEW c \in DOMAIN s.conns, NEW status \in ConnectionStatus,
           NEW promise \in Nat, NEW instance \in Nat
    PROVE  LET t == Conn(s, c, status, promise, instance)
           IN /\ t \in ClientState
              /\ t.promise = promise /\ t.instance = instance
              /\ DOMAIN t.conns = DOMAIN s.conns /\ t.conns[c] = status
              /\ \A d \in DOMAIN s.conns \ {c} : t.conns[d] = s.conns[d]
              /\ t.closed = s.closed /\ t.leaked = s.leaked /\ t.closing = s.closing
              /\ SameCalls(s, t) /\ SameJobs(s, t) /\ SameAnswers(s, t) /\ SameWatchers(s, t)
  <1>1. [s.conns EXCEPT ![c] = status] \in Seq(ConnectionStatus)
    BY DEF ClientState, ConnectionStatus
  <1> QED
    BY <1>1 DEF Conn, ClientState, SameCalls, SameJobs, SameAnswers, SameWatchers, ConnectionStatus

\* A step of an opening: on to the next stage, open, or failed and forgotten.
LEMMA OpeningKeeps ==
    ASSUME NEW s, ClientInv(s), NEW c \in DOMAIN s.conns, s.conns[c] \in Clients!Opening,
           NEW status, NEW promise, NEW instance,
           \/ status = "failed" /\ promise = 0 /\ instance = 0
           \/ status \in {"created", "failing"} /\ promise = s.promise /\ instance = s.instance
           \/ status = "open" /\ promise = s.promise /\ instance = c
    PROVE  ClientInv(Conn(s, c, status, promise, instance))
  <1> DEFINE t == Conn(s, c, status, promise, instance)
  <1>1. s \in ClientState /\ s.promise \in Nat /\ s.instance \in Nat /\ DOMAIN s.conns \subseteq Nat \ {0}
    BY DEF ClientInv, ClientState
  <1>2. status \in ConnectionStatus /\ promise \in Nat /\ instance \in Nat
    BY <1>1 DEF ConnectionStatus, Clients!Opening, Clients!Heard
  <1>3. /\ t \in ClientState
        /\ t.promise = promise /\ t.instance = instance
        /\ DOMAIN t.conns = DOMAIN s.conns /\ t.conns[c] = status
        /\ \A d \in DOMAIN s.conns \ {c} : t.conns[d] = s.conns[d]
        /\ t.closed = s.closed /\ t.leaked = s.leaked /\ t.closing = s.closing
        /\ SameCalls(s, t) /\ SameJobs(s, t) /\ SameAnswers(s, t) /\ SameWatchers(s, t)
    BY <1>1, <1>2, ConnFields
  <1> HIDE DEF t
  <1>4. IsHeld(s, c) /\ s.conns[c] \notin {"open", "closing", "closed"}
    BY DEF IsHeld, Clients!Held, Clients!Opening
  <1>5. \A d \in DOMAIN s.conns : IsHeld(s, d) => d = c
    BY <1>4 DEF ClientInv, Connected, OneHeld
  <1>6. s.instance = 0
    BY <1>4, <1>5 DEF ClientInv, Connected, InstanceOpen, IsHeld, Clients!Held
  <1>7. ASSUME NEW u \in Callers, s.calls[u].pc = "closing" PROVE FALSE
    BY <1>4, <1>5, <1>7 DEF ClientInv, Connected, References, Closings, IsHeld, Clients!Held
  <1>8. \A d \in DOMAIN t.conns : IsHeld(t, d) => d = c /\ status # "failed"
    BY <1>3, <1>5 DEF IsHeld, Clients!Held, Clients!Opening
  <1>9. References(t)
    BY <1>3 DEF ClientInv, Connected, References, SameCalls, SameAnswers
  <1>10. OneHeld(t)
    BY <1>3, <1>4, <1>8 DEF ClientInv, Connected, OneHeld
  <1>11. InstanceOpen(t)
    BY <1>1, <1>3, <1>6, <1>8 DEF InstanceOpen, IsHeld, Clients!Held
  <1>12. Closings(t)
    <2>1. \A d \in DOMAIN t.conns : t.conns[d] # "closing"
      BY <1>3, <1>8 DEF IsHeld, Clients!Held
    <2>2. \A d \in DOMAIN t.conns : t.conns[d] = "closed" => s.conns[d] = "closed"
      BY <1>3
    <2> QED
      BY <1>3, <1>7, <2>1, <2>2 DEF ClientInv, Connected, Closings, SameCalls
  <1>13. Released(t)
    BY <1>3, <1>4 DEF ClientInv, Connected, Released
  <1>14. QueueKept(t) /\ WatcherKnown(t) /\ AnswersCurrent(t) /\ EarlyServed(t)
    BY <1>3, <1>4, SameCallsKeep
  <1> QED
    BY <1>3, <1>9, <1>10, <1>11, <1>12, <1>13, <1>14 DEF ClientInv, Connected, t

LEMMA OpenStep ==
    ASSUME ClientInv(client), NEW c \in DOMAIN client.conns, Clients!Open(c) PROVE ClientInv(client')
  <1>1. client \in ClientState
    BY DEF ClientInv
  <1>2. client.conns[c] \in Clients!Opening
    BY DEF Clients!Open, Clients!Opening
  <1>3. client.instance = 0
    <2>1. IsHeld(client, c) /\ client.conns[c] \notin {"open", "closing"}
      BY <1>2 DEF IsHeld, Clients!Held, Clients!Opening
    <2> QED
      BY <2>1 DEF ClientInv, Connected, OneHeld, InstanceOpen, IsHeld, Clients!Held
  <1>4. Clients!Forget(client, c) = Conn(client, c, "failed", 0, 0)
    BY <1>1, <1>3 DEF Clients!Forget, Conn, ClientState
  <1>5. [Clients!Forget(client, c) EXCEPT !.instance = 0] = Conn(client, c, "failed", 0, 0)
    BY <1>1 DEF Clients!Forget, Conn, ClientState
  <1>6. \A status : [client EXCEPT !.conns[c] = status] = Conn(client, c, status, client.promise, client.instance)
    BY <1>1 DEF Conn, ClientState
  <1>7. [client EXCEPT !.conns[c] = "open", !.instance = c] = Conn(client, c, "open", client.promise, c)
    BY <1>1 DEF Conn, ClientState
  <1>8. \/ client' = Conn(client, c, "failed", 0, 0)
        \/ \E status \in {"created", "failing"} : client' = Conn(client, c, status, client.promise, client.instance)
        \/ client' = Conn(client, c, "open", client.promise, c)
    BY <1>4, <1>5, <1>6, <1>7 DEF Clients!Open
  <1> QED
    BY <1>2, <1>8, OpeningKeeps
-----------------------------------------------------------------------------
(* The jobs. *)

\* The connections, the answers and the watcher when a call goes to the queue,
\* runs or leaves it.
LEMMA JobLeaves ==
    ASSUME NEW s, NEW t, NEW u \in Callers, ClientInv(s), Goes(s, t, u),
           SameConnections(s, t), SameAnswers(s, t), SameWatchers(s, t),
           t.calls[u].pc \in {"queued", "indexing", "returning", "draining"}, s.calls[u].pc # "closing",
           t.calls[u].pc = "indexing" => t.calls[u].db \in DOMAIN s.conns
    PROVE  Connected(t) /\ AnswersCurrent(t) /\ WatcherKnown(t)
  <1>1. \A v \in Callers \ {u} : t.calls[v] = s.calls[v]
    BY DEF Goes, SameOthers
  <1>2. \A l \in DOMAIN t.loads : t.loads[l].db \in {0} \union DOMAIN s.conns
    BY DEF ClientInv, Connected, References, SameAnswers
  <1>3. Connected(t)
    BY <1>1, <1>2, ConnectionsKept DEF ClientInv
  <1>4. AnswersCurrent(t) /\ WatcherKnown(t)
    BY <1>1, AnswersKept, WatchersKept DEF ClientInv, Goes
  <1> QED
    BY <1>3, <1>4

LEMMA EnqueuedFields ==
    ASSUME NEW s \in ClientState, NEW u \in Callers
    PROVE  LET t == Clients!Enqueued(s, u)
           IN /\ t \in ClientState /\ SameOthers(s, t, u)
              /\ t.queue = Append(s.queue, s.jobs + 1) /\ t.jobs = s.jobs + 1
              /\ t.calls[u].pc = "queued" /\ t.calls[u].job = s.jobs + 1
              /\ t.calls[u].early => ~s.closing
              /\ t.calls[u].runs = s.calls[u].runs /\ t.calls[u].repos = s.calls[u].repos
              /\ SameConnections(s, t) /\ SameAnswers(s, t) /\ SameWatchers(s, t)
              /\ t.closing = s.closing
  <1> DEFINE q == Append(s.queue, s.jobs + 1)
             j == s.jobs + 1
             e == ~s.closing
  <1>1. /\ s.calls \in [Callers -> CallType] /\ s.calls[u] \in CallType
        /\ j \in Nat /\ q \in Seq(Nat) /\ e \in BOOLEAN
    BY DEF ClientState
  <1>3. e => ~s.closing
    OBVIOUS
  <1> HIDE DEF q, j, e
  <1> DEFINE c == [s.calls[u] EXCEPT !.pc = "queued", !.job = j, !.early = e]
             t == [s EXCEPT !.queue = q, !.jobs = j, !.calls = [s.calls EXCEPT ![u] = c]]
  <1>4. /\ c \in CallType /\ c.pc = "queued" /\ c.job = j /\ c.early = e
        /\ c.runs = s.calls[u].runs /\ c.repos = s.calls[u].repos
    BY <1>1 DEF CallType, Pcs
  <1>5. Clients!Enqueued(s, u) = t
    BY <1>1 DEF Clients!Enqueued, q, j, e, ClientState
  <1> HIDE DEF c
  <1>6. /\ t \in ClientState /\ SameOthers(s, t, u) /\ t.calls[u] = c
        /\ t.queue = q /\ t.jobs = j
        /\ SameConnections(s, t) /\ SameAnswers(s, t) /\ SameWatchers(s, t)
        /\ t.closing = s.closing
    BY <1>1, <1>4 DEF ClientState, SameOthers, SameConnections, SameAnswers, SameWatchers
  <1> HIDE DEF t
  <1>7. t.calls[u].early => ~s.closing
    BY <1>3, <1>4, <1>6
  <1> QED
    BY <1>4, <1>5, <1>6, <1>7 DEF q, j

LEMMA EnqueuedKeeps ==
    ASSUME NEW s, ClientInv(s), NEW u \in Callers, s.calls[u].pc \in QuietCall
    PROVE  ClientInv(Clients!Enqueued(s, u))
  <1> DEFINE t == Clients!Enqueued(s, u)
  <1>1. /\ s \in ClientState /\ s.queue \in Seq(Nat) /\ s.jobs \in Nat
        /\ s.calls[u].runs <= s.runs /\ s.calls[u].repos <= s.repos
        /\ \A v \in Callers : s.calls[v].job \in Nat
    BY DEF ClientInv, ClientState, CallType, AnswersCurrent
  <1>2. /\ t \in ClientState /\ SameOthers(s, t, u)
        /\ t.queue = Append(s.queue, s.jobs + 1) /\ t.jobs = s.jobs + 1
        /\ t.calls[u].pc = "queued" /\ t.calls[u].job = s.jobs + 1
        /\ t.calls[u].early => ~s.closing
        /\ t.calls[u].runs = s.calls[u].runs /\ t.calls[u].repos = s.calls[u].repos
        /\ SameConnections(s, t) /\ SameAnswers(s, t) /\ SameWatchers(s, t)
        /\ t.closing = s.closing
    BY <1>1, EnqueuedFields
  <1> HIDE DEF t
  <1>3. Goes(s, t, u)
    BY <1>1, <1>2 DEF Goes
  <1>4. Connected(t) /\ AnswersCurrent(t) /\ WatcherKnown(t)
    BY <1>2, <1>3, JobLeaves DEF QuietCall
  <1>5. \A v \in Callers \ {u} : t.calls[v] = s.calls[v] /\ (Busy(t, v) <=> Busy(s, v))
            /\ (RunningJob(t, v) <=> RunningJob(s, v))
    BY <1>2 DEF Busy, RunningJob, SameOthers
  <1>6. /\ DOMAIN s.queue = 1..Len(s.queue) /\ Len(s.queue) \in Nat
        /\ DOMAIN t.queue = 1..(Len(s.queue) + 1) /\ t.queue[Len(s.queue) + 1] = s.jobs + 1
        /\ \A k \in DOMAIN s.queue : k \in DOMAIN t.queue /\ t.queue[k] = s.queue[k]
        /\ DOMAIN s.queue # {} => Head(t.queue) = Head(s.queue)
    BY <1>1, <1>2
  <1>7. QueueKept(t)
    <2>1. \A v \in Callers \ {u} : Busy(t, v) =>
             /\ t.calls[v].job <= s.jobs /\ t.calls[v].job \in Nat
             /\ \E k \in DOMAIN t.queue : t.queue[k] = t.calls[v].job
             /\ DOMAIN s.queue # {}
      BY <1>1, <1>5, <1>6 DEF ClientInv, QueueKept
    <2>2. \A v \in Callers : Busy(t, v) =>
             t.calls[v].job <= t.jobs /\ \E k \in DOMAIN t.queue : t.queue[k] = t.calls[v].job
      <3>1. t.calls[u].job <= t.jobs /\ \E k \in DOMAIN t.queue : t.queue[k] = t.calls[u].job
        <4>1. Len(s.queue) + 1 \in DOMAIN t.queue
          BY <1>6
        <4> QED
          BY <1>1, <1>2, <1>6, <4>1
      <3>2. ASSUME NEW v \in Callers \ {u}, Busy(t, v) PROVE t.calls[v].job <= t.jobs
        BY <1>1, <1>2, <2>1, <3>2
      <3> QED
        BY <2>1, <3>1, <3>2
    <2>3. ASSUME NEW v \in Callers, RunningJob(t, v) PROVE Head(t.queue) = t.calls[v].job
      <3>1. v # u
        BY <1>2, <2>3 DEF RunningJob
      <3>2. Busy(t, v) /\ RunningJob(s, v) /\ Head(s.queue) = s.calls[v].job
        BY <1>5, <2>3, <3>1 DEF ClientInv, QueueKept, RunningJob
      <3> QED
        BY <1>5, <1>6, <2>1, <3>1, <3>2
    <2>4. ASSUME NEW v \in Callers, NEW w \in Callers,
                 Busy(t, v), Busy(t, w), t.calls[v].job = t.calls[w].job
          PROVE  v = w
      <3>1. CASE v = u \/ w = u
        BY <1>1, <1>2, <2>1, <2>4, <3>1
      <3>2. CASE v # u /\ w # u
        BY <1>5, <2>4, <3>2 DEF ClientInv, QueueKept
      <3> QED
        BY <3>1, <3>2
    <2> QED
      BY <2>2, <2>3, <2>4 DEF QueueKept
  <1>8. EarlyServed(t)
    <2>1. t.closed = s.closed /\ t.conns = s.conns /\ (s.closed => s.closing)
      BY <1>2 DEF SameConnections, ClientInv, EarlyServed
    <2>2. \A v \in Callers : t.calls[v].pc \in {"draining", "closing"} => v # u /\ s.closing
      BY <1>2, <1>5 DEF ClientInv, EarlyServed
    <2>3. ASSUME NEW v \in Callers, NEW w \in Callers, Busy(t, v), t.calls[v].early
          PROVE  /\ t.calls[w].pc = "draining" => t.calls[v].job <= t.calls[w].waits
                 /\ ~t.closed /\ t.calls[w].pc # "closing"
      <3>1. CASE v = u
        BY <1>2, <2>1, <2>2, <2>3, <3>1
      <3>2. CASE v # u
        BY <1>2, <1>5, <2>1, <2>3, <3>2 DEF ClientInv, EarlyServed
      <3> QED
        BY <3>1, <3>2
    <2>4. \A v \in Callers : t.calls[v].pc = "indexing" /\ t.calls[v].early => t.conns[t.calls[v].db] = "open"
      BY <1>2, <1>5, <2>1 DEF ClientInv, EarlyServed
    <2> QED
      BY <1>2, <2>1, <2>2, <2>3, <2>4 DEF EarlyServed
  <1> QED
    BY <1>2, <1>4, <1>7, <1>8 DEF ClientInv, t

\* The running job ends.
Dequeued(s, u) == [s EXCEPT !.queue = Tail(@), !.calls[u].pc = "returning"]

LEMMA DequeuedFields ==
    ASSUME NEW s \in ClientState, NEW u \in Callers, s.queue # <<>>
    PROVE  LET t == Dequeued(s, u)
           IN /\ t \in ClientState /\ SameOthers(s, t, u)
              /\ t.queue = Tail(s.queue) /\ t.jobs = s.jobs
              /\ t.calls[u].pc = "returning"
              /\ t.calls[u].runs = s.calls[u].runs /\ t.calls[u].repos = s.calls[u].repos
              /\ SameConnections(s, t) /\ SameAnswers(s, t) /\ SameWatchers(s, t)
              /\ t.closing = s.closing
  <1> DEFINE q == Tail(s.queue)
             c == [s.calls[u] EXCEPT !.pc = "returning"]
             t == [s EXCEPT !.queue = q, !.calls = [s.calls EXCEPT ![u] = c]]
  <1>1. s.calls \in [Callers -> CallType] /\ s.calls[u] \in CallType /\ q \in Seq(Nat)
    BY DEF ClientState
  <1>2. /\ c \in CallType /\ c.pc = "returning"
        /\ c.runs = s.calls[u].runs /\ c.repos = s.calls[u].repos
    BY <1>1 DEF CallType, Pcs, QuietCall
  <1>3. Dequeued(s, u) = t
    BY <1>1 DEF Dequeued, ClientState
  <1> HIDE DEF c, q
  <1>4. /\ t \in ClientState /\ SameOthers(s, t, u) /\ t.calls[u] = c
        /\ t.queue = q /\ t.jobs = s.jobs
        /\ SameConnections(s, t) /\ SameAnswers(s, t) /\ SameWatchers(s, t)
        /\ t.closing = s.closing
    BY <1>1, <1>2 DEF ClientState, SameOthers, SameConnections, SameAnswers, SameWatchers
  <1> HIDE DEF t
  <1> QED
    BY <1>2, <1>3, <1>4 DEF q

LEMMA DequeuedKeeps ==
    ASSUME NEW s, ClientInv(s), NEW u \in Callers, Busy(s, u), Head(s.queue) = s.calls[u].job
    PROVE  ClientInv(Dequeued(s, u))
  <1> DEFINE t == Dequeued(s, u)
  <1>1. /\ s \in ClientState /\ s.queue \in Seq(Nat)
        /\ s.calls[u].runs <= s.runs /\ s.calls[u].repos <= s.repos
    BY DEF ClientInv, ClientState, AnswersCurrent
  <1>2. s.queue # <<>>
    <2>1. \E k \in DOMAIN s.queue : s.queue[k] = s.calls[u].job
      BY DEF ClientInv, QueueKept
    <2> QED
      BY <1>1, <2>1
  <1>3. /\ t \in ClientState /\ SameOthers(s, t, u)
        /\ t.queue = Tail(s.queue) /\ t.jobs = s.jobs
        /\ t.calls[u].pc = "returning"
        /\ t.calls[u].runs = s.calls[u].runs /\ t.calls[u].repos = s.calls[u].repos
        /\ SameConnections(s, t) /\ SameAnswers(s, t) /\ SameWatchers(s, t)
        /\ t.closing = s.closing
    BY <1>1, <1>2, DequeuedFields
  <1> HIDE DEF t
  <1>4. Goes(s, t, u)
    BY <1>1, <1>3 DEF Goes
  <1>5. Connected(t) /\ AnswersCurrent(t) /\ WatcherKnown(t)
    <2>1. s.calls[u].pc # "closing"
      BY DEF Busy
    <2> QED
      BY <1>3, <1>4, <2>1, JobLeaves
  <1>6. /\ ~Busy(t, u)
        /\ \A v \in Callers \ {u} : t.calls[v] = s.calls[v] /\ (Busy(t, v) <=> Busy(s, v))
                  /\ (RunningJob(t, v) <=> RunningJob(s, v))
    BY <1>3 DEF Busy, RunningJob, SameOthers
  <1>7. QueueKept(t)
    <2>1. ASSUME NEW v \in Callers, Busy(t, v)
          PROVE  /\ t.calls[v].job <= t.jobs /\ \E k \in DOMAIN t.queue : t.queue[k] = t.calls[v].job
                 /\ ~RunningJob(t, v)
      <3>1. v # u /\ Busy(s, v)
        BY <1>6, <2>1
      <3>2. s.calls[v].job # s.calls[u].job
        BY <3>1 DEF ClientInv, QueueKept
      <3>3. PICK k \in DOMAIN s.queue : s.queue[k] = s.calls[v].job
        BY <3>1 DEF ClientInv, QueueKept
      <3>4. k # 1 /\ k - 1 \in DOMAIN t.queue /\ t.queue[k - 1] = s.queue[k]
        BY <1>1, <1>2, <1>3, <3>2, <3>3
      <3>5. ~RunningJob(s, v)
        BY <3>2 DEF ClientInv, QueueKept
      <3> QED
        BY <1>3, <1>6, <3>1, <3>3, <3>4, <3>5 DEF ClientInv, QueueKept
    <2>2. \A v \in Callers : ~RunningJob(t, v)
      BY <2>1 DEF RunningJob
    <2>3. \A v, w \in Callers : Busy(t, v) /\ Busy(t, w) /\ t.calls[v].job = t.calls[w].job => v = w
      BY <1>6 DEF ClientInv, QueueKept
    <2> QED
      BY <2>1, <2>2, <2>3 DEF QueueKept
  <1>8. EarlyServed(t)
    <2>1. \A v \in Callers : t.calls[v].pc \in {"draining", "closing"} => t.calls[v] = s.calls[v]
      BY <1>3, <1>6
    <2>2. \A v \in Callers : Busy(t, v) =>
              Busy(s, v) /\ t.calls[v].job = s.calls[v].job /\ t.calls[v].early = s.calls[v].early
      BY <1>6
    <2>3. \A v \in Callers :
              t.calls[v].pc = "indexing" /\ t.calls[v].early => t.conns[t.calls[v].db] = "open"
      BY <1>3, <1>6 DEF ClientInv, EarlyServed, SameConnections
    <2> QED
      BY <1>3, <2>1, <2>2, <2>3, EarlyKept DEF ClientInv, SameConnections
  <1> QED
    BY <1>3, <1>5, <1>7, <1>8 DEF ClientInv, t

\* The running job has its connection, and nobody closes it as long as jobs are
\* served that were accepted before.
Indexing(s, u) == [s EXCEPT !.calls[u].pc = "indexing"]

LEMMA IndexingKeeps ==
    ASSUME NEW s, ClientInv(s), NEW u \in Callers, s.calls[u].pc = "db", s.calls[u].op = "index",
           s.conns[s.calls[u].db] \in Clients!Heard
    PROVE  ClientInv(Indexing(s, u))
  <1> DEFINE c == [s.calls[u] EXCEPT !.pc = "indexing"]
             t == With(s, u, c, s.made)
  <1>1. s \in ClientState /\ s.made \in Nat /\ s.calls \in [Callers -> CallType] /\ s.calls[u] \in CallType
    BY DEF ClientInv, ClientState
  <1>2. /\ c \in CallType /\ c.pc = "indexing" /\ c.db = s.calls[u].db
        /\ c.runs = s.calls[u].runs /\ c.repos = s.calls[u].repos
        /\ c.op = "index" /\ c.job = s.calls[u].job /\ c.early = s.calls[u].early
    BY <1>1 DEF CallType, Pcs
  <1>3. c.runs <= s.runs /\ c.repos <= s.repos
    BY <1>2 DEF ClientInv, AnswersCurrent
  <1>4. Indexing(s, u) = t
    BY <1>1 DEF Indexing, With, ClientState
  <1> HIDE DEF c
  <1>5. /\ Goes(s, t, u) /\ t.calls[u] = c
        /\ SameConnections(s, t) /\ SameJobs(s, t) /\ SameAnswers(s, t) /\ SameWatchers(s, t)
        /\ t.closing = s.closing
    BY <1>1, <1>2, <1>3, WithFields
  <1> HIDE DEF t
  <1>6. \A v \in Callers \ {u} : t.calls[v] = s.calls[v] /\ (Busy(t, v) <=> Busy(s, v))
            /\ (RunningJob(t, v) <=> RunningJob(s, v))
    BY <1>5 DEF Busy, RunningJob, Goes, SameOthers
  <1>7. Busy(s, u) /\ RunningJob(s, u) /\ s.calls[u].db \in DOMAIN s.conns
    BY DEF Busy, RunningJob, ClientInv, Connected, References
  <1>8. Connected(t) /\ AnswersCurrent(t) /\ WatcherKnown(t)
    BY <1>2, <1>5, <1>7, JobLeaves
  <1>9. QueueKept(t)
    <2>1. \A v \in Callers : Busy(t, v) =>
              /\ Busy(s, v) /\ t.calls[v].job = s.calls[v].job
              /\ RunningJob(t, v) => Head(s.queue) = s.calls[v].job
      BY <1>2, <1>5, <1>6, <1>7 DEF ClientInv, QueueKept
    <2> QED
      BY <1>5, <2>1, JobsKept DEF ClientInv
  <1>10. EarlyServed(t)
    <2>1. \A v \in Callers : t.calls[v].pc \in {"draining", "closing"} => t.calls[v] = s.calls[v]
      BY <1>2, <1>5, <1>6
    <2>2. \A v \in Callers : Busy(t, v) =>
              Busy(s, v) /\ t.calls[v].job = s.calls[v].job /\ t.calls[v].early = s.calls[v].early
      BY <1>2, <1>5, <1>6, <1>7
    <2>3. s.calls[u].early => s.conns[s.calls[u].db] = "open"
      <3>1. SUFFICES ASSUME s.calls[u].early PROVE s.conns[s.calls[u].db] = "open"
        OBVIOUS
      <3>2. ~s.closed /\ \A v \in Callers : s.calls[v].pc # "closing"
        BY <1>7, <3>1 DEF ClientInv, EarlyServed
      <3>3. s.conns[s.calls[u].db] \notin {"closing", "closed"}
        BY <1>7, <3>2 DEF ClientInv, Connected, Closings
      <3> QED
        BY <3>3 DEF Clients!Heard
    <2>4. \A v \in Callers :
              t.calls[v].pc = "indexing" /\ t.calls[v].early => t.conns[t.calls[v].db] = "open"
      BY <1>2, <1>5, <1>6, <2>3 DEF ClientInv, EarlyServed, SameConnections
    <2> QED
      BY <1>5, <2>1, <2>2, <2>4, EarlyKept DEF ClientInv, SameConnections
  <1> QED
    BY <1>4, <1>5, <1>8, <1>9, <1>10 DEF ClientInv, Goes

LEMMA RunStep == ASSUME ClientInv(client), NEW u \in Callers, Clients!Run(u) PROVE ClientInv(client')
  <1>1. client.calls[u].pc = "queued" /\ Head(client.queue) = client.calls[u].job
    BY DEF Clients!Run, Clients!At, Clients!call
  <1>2. Busy(client, u)
    BY <1>1 DEF Busy
  <1>3. CASE client.closed
    BY <1>1, <1>2, <1>3, DequeuedKeeps DEF Clients!Run, Dequeued
  <1>4. CASE ~client.closed
    BY <1>1, <1>4, GetDbKeeps DEF Clients!Run
  <1> QED
    BY <1>3, <1>4

LEMMA RunEndsStep == ASSUME ClientInv(client), NEW u \in Callers, Clients!RunEnds(u)
                     PROVE  ClientInv(client')
  <1>1. Busy(client, u) /\ RunningJob(client, u)
    BY DEF Clients!RunEnds, Clients!At, Clients!call, Busy, RunningJob
  <1>2. Head(client.queue) = client.calls[u].job
    BY <1>1 DEF ClientInv, QueueKept
  <1> QED
    BY <1>1, <1>2, DequeuedKeeps DEF Clients!RunEnds, Dequeued
-----------------------------------------------------------------------------
(* The memoized answers. *)

AnswersOf(s, loads, gate, planning, runs, repos) ==
    [s EXCEPT !.loads = loads, !.gate = gate, !.planning = planning, !.runs = runs, !.repos = repos]

LEMMA AnswersFields ==
    ASSUME NEW s \in ClientState, NEW loads \in Seq(LoadType), NEW gate \in Nat, NEW planning \in Nat,
           NEW runs \in Nat, NEW repos \in Nat
    PROVE  LET t == AnswersOf(s, loads, gate, planning, runs, repos)
           IN /\ t \in ClientState
              /\ t.loads = loads /\ t.gate = gate /\ t.planning = planning
              /\ t.runs = runs /\ t.repos = repos /\ t.closing = s.closing
              /\ SameCalls(s, t) /\ SameConnections(s, t) /\ SameJobs(s, t) /\ SameWatchers(s, t)
  BY DEF AnswersOf, ClientState, SameCalls, SameConnections, SameJobs, SameWatchers

\* An answer is asked for, comes, is forgotten, or gets old.
LEMMA AnswersChange ==
    ASSUME NEW s, ClientInv(s), NEW loads \in Seq(LoadType), NEW gate \in Nat, NEW planning \in Nat,
           NEW runs \in Nat, NEW repos \in Nat, s.runs <= runs, s.repos <= repos,
           \A l \in DOMAIN s.loads :
              l \in DOMAIN loads /\ loads[l].runs = s.loads[l].runs /\ loads[l].repos = s.loads[l].repos,
           \A l \in DOMAIN loads : loads[l].db \in {0} \union DOMAIN s.conns,
           gate # 0 => gate \in DOMAIN loads /\ loads[gate].runs = runs,
           planning # 0 => planning \in DOMAIN loads /\ loads[planning].repos = repos
    PROVE  LET t == AnswersOf(s, loads, gate, planning, runs, repos)
           IN ClientInv(t) /\ SameCalls(s, t)
  <1> DEFINE t == AnswersOf(s, loads, gate, planning, runs, repos)
  <1>1. /\ s \in ClientState /\ s.runs \in Nat /\ s.repos \in Nat
        /\ \A v \in Callers : s.calls[v].runs \in Nat /\ s.calls[v].repos \in Nat
    BY DEF ClientInv, ClientState, CallType
  <1>2. /\ t \in ClientState
        /\ t.loads = loads /\ t.gate = gate /\ t.planning = planning
        /\ t.runs = runs /\ t.repos = repos /\ t.closing = s.closing
        /\ SameCalls(s, t) /\ SameConnections(s, t) /\ SameJobs(s, t) /\ SameWatchers(s, t)
    BY <1>1, AnswersFields
  <1> HIDE DEF t
  <1>3. \A v \in Callers : t.calls[v] = s.calls[v]
    BY <1>2 DEF SameCalls
  <1>4. Connected(t)
    BY <1>2, <1>3, ConnectionsKept DEF ClientInv
  <1>5. QueueKept(t) /\ WatcherKnown(t) /\ EarlyServed(t)
    <2>1. t.closed = s.closed /\ t.conns = s.conns
      BY <1>2 DEF SameConnections
    <2> QED
      BY <1>2, <2>1, SameCallsKeep
  <1>6. AnswersCurrent(t)
    <2>1. \A v \in Callers : s.calls[v].runs <= s.runs /\ s.calls[v].repos <= s.repos
      BY DEF ClientInv, AnswersCurrent
    <2>2. ASSUME NEW v \in Callers PROVE t.calls[v].runs <= t.runs /\ t.calls[v].repos <= t.repos
      <3>1. s.calls[v].runs <= runs /\ s.calls[v].repos <= repos
        BY <1>1, <2>1
      <3> QED
        BY <1>2, <1>3, <3>1
    <2> QED
      BY <1>2, <1>3, <2>2 DEF ClientInv, AnswersCurrent
  <1> QED
    BY <1>2, <1>4, <1>5, <1>6 DEF ClientInv, t

\* A caller gets an answer that is as recent as its call.
LEMMA AskingKeeps ==
    ASSUME NEW s, ClientInv(s), NEW u \in Callers, s.calls[u].pc # "closing",
           NEW c \in CallType, c.pc \in {"planning", "gate", "answering"},
           c.runs <= s.runs, c.repos <= s.repos,
           c.pc # "planning" => c.gate \in DOMAIN s.loads /\ s.loads[c.gate].runs >= c.runs,
           c.pc = "planning" \/ c.op = "ask" =>
               c.planning \in DOMAIN s.loads /\ s.loads[c.planning].repos >= c.repos
    PROVE  ClientInv(With(s, u, c, s.made)) /\ With(s, u, c, s.made).calls[u] = c
  <1> DEFINE t == With(s, u, c, s.made)
  <1>1. s \in ClientState /\ s.made \in Nat
    BY DEF ClientInv, ClientState
  <1>2. /\ Goes(s, t, u) /\ t.calls[u] = c
        /\ SameConnections(s, t) /\ SameJobs(s, t) /\ SameAnswers(s, t) /\ SameWatchers(s, t)
        /\ t.closing = s.closing
    BY <1>1, WithFields
  <1> HIDE DEF t
  <1>3. /\ ~Busy(t, u)
        /\ \A v \in Callers \ {u} : t.calls[v] = s.calls[v] /\ (Busy(t, v) <=> Busy(s, v))
                  /\ (RunningJob(t, v) <=> RunningJob(s, v))
    BY <1>2 DEF Busy, RunningJob, Goes, SameOthers
  <1>4. Connected(t)
    <2>1. \A l \in DOMAIN t.loads : t.loads[l].db \in {0} \union DOMAIN s.conns
      BY <1>2 DEF ClientInv, Connected, References, SameAnswers
    <2> QED
      BY <1>2, <1>3, <2>1, ConnectionsKept DEF ClientInv
  <1>5. QueueKept(t)
    <2>1. \A v \in Callers : Busy(t, v) =>
              /\ Busy(s, v) /\ t.calls[v].job = s.calls[v].job
              /\ RunningJob(t, v) => Head(s.queue) = s.calls[v].job
      BY <1>3 DEF ClientInv, QueueKept
    <2> QED
      BY <1>2, <2>1, JobsKept DEF ClientInv
  <1>6. EarlyServed(t)
    <2>1. \A v \in Callers : t.calls[v].pc \in {"draining", "closing"} => t.calls[v] = s.calls[v]
      BY <1>2, <1>3
    <2>2. \A v \in Callers : Busy(t, v) =>
              Busy(s, v) /\ t.calls[v].job = s.calls[v].job /\ t.calls[v].early = s.calls[v].early
      BY <1>3
    <2>3. \A v \in Callers :
              t.calls[v].pc = "indexing" /\ t.calls[v].early => t.conns[t.calls[v].db] = "open"
      BY <1>2, <1>3 DEF ClientInv, EarlyServed, SameConnections
    <2> QED
      BY <1>2, <2>1, <2>2, <2>3, EarlyKept DEF ClientInv, SameConnections
  <1>7. AnswersCurrent(t)
    BY <1>2, <1>3 DEF ClientInv, AnswersCurrent, SameAnswers
  <1>8. WatcherKnown(t)
    BY <1>2, <1>3, WatchersKept DEF ClientInv
  <1> QED
    BY <1>2, <1>4, <1>5, <1>6, <1>7, <1>8 DEF ClientInv, Goes, t

WithLoad(s, of) == Append(s.loads, Clients!NewLoad(s, of))

LEMMA WithLoadFields ==
    ASSUME NEW s, ClientInv(s), NEW of \in {"gate", "planning"}
    PROVE  LET loads == WithLoad(s, of)
               n == Len(s.loads) + 1
           IN /\ loads \in Seq(LoadType) /\ n \in Nat \ {0} /\ n \in DOMAIN loads
              /\ loads[n].runs = s.runs /\ loads[n].repos = s.repos
              /\ \A l \in DOMAIN s.loads : l \in DOMAIN loads /\ loads[l] = s.loads[l]
              /\ \A l \in DOMAIN loads : loads[l].db \in {0} \union DOMAIN s.conns
  <1> DEFINE x == Clients!NewLoad(s, of)
             loads == WithLoad(s, of)
             n == Len(s.loads) + 1
  <1>1. s.loads \in Seq(LoadType) /\ s.runs \in Nat /\ s.repos \in Nat
    BY DEF ClientInv, ClientState
  <1>2. x \in LoadType /\ x.runs = s.runs /\ x.repos = s.repos /\ x.db = 0
    BY <1>1 DEF Clients!NewLoad, LoadType
  <1>3. loads = Append(s.loads, x)
    BY DEF WithLoad
  <1> HIDE DEF x, loads
  <1>4. /\ loads \in Seq(LoadType) /\ n \in Nat \ {0} /\ DOMAIN loads = DOMAIN s.loads \union {n}
        /\ loads[n] = x /\ \A l \in DOMAIN s.loads : loads[l] = s.loads[l]
    BY <1>1, <1>2, <1>3
  <1> HIDE DEF n
  <1>5. \A l \in DOMAIN loads : loads[l].db \in {0} \union DOMAIN s.conns
    BY <1>2, <1>4 DEF ClientInv, Connected, References
  <1> QED
    BY <1>2, <1>4, <1>5 DEF n, loads

PlanningAsked(s) ==
    AnswersOf(s, WithLoad(s, "planning"), s.gate, Len(s.loads) + 1, s.runs, s.repos)
GateAsked(s) ==
    AnswersOf(s, WithLoad(s, "gate"), Len(s.loads) + 1, s.planning, s.runs, s.repos)

LEMMA PlanningAskedKeeps ==
    ASSUME NEW s, ClientInv(s)
    PROVE  LET t == PlanningAsked(s)
           IN ClientInv(t) /\ SameCalls(s, t) /\ t.planning = Len(s.loads) + 1 /\ t.planning # 0
  <1> DEFINE loads == WithLoad(s, "planning")
             n == Len(s.loads) + 1
             t == PlanningAsked(s)
  <1>1. s \in ClientState /\ s.gate \in Nat /\ s.runs \in Nat /\ s.repos \in Nat
    BY DEF ClientInv, ClientState
  <1>2. /\ loads \in Seq(LoadType) /\ n \in Nat \ {0} /\ n \in DOMAIN loads
        /\ loads[n].runs = s.runs /\ loads[n].repos = s.repos
        /\ \A l \in DOMAIN s.loads : l \in DOMAIN loads /\ loads[l] = s.loads[l]
        /\ \A l \in DOMAIN loads : loads[l].db \in {0} \union DOMAIN s.conns
    BY WithLoadFields
  <1>3. t = AnswersOf(s, loads, s.gate, n, s.runs, s.repos)
    BY DEF PlanningAsked
  <1> HIDE DEF t, n, loads
  <1>4. s.gate # 0 => s.gate \in DOMAIN s.loads /\ s.loads[s.gate].runs = s.runs
    BY DEF ClientInv, AnswersCurrent
  <1>5. ClientInv(t) /\ SameCalls(s, t)
    <2>1. /\ n \in Nat /\ s.runs <= s.runs /\ s.repos <= s.repos
          /\ \A l \in DOMAIN s.loads :
                l \in DOMAIN loads /\ loads[l].runs = s.loads[l].runs /\ loads[l].repos = s.loads[l].repos
      BY <1>1, <1>2
    <2>2. s.gate # 0 => s.gate \in DOMAIN loads /\ loads[s.gate].runs = s.runs
      BY <1>2, <1>4
    <2>3. n # 0 => n \in DOMAIN loads /\ loads[n].repos = s.repos
      BY <1>2, <1>4
    <2> QED
      BY <1>1, <1>2, <1>3, <2>1, <2>2, <2>3, AnswersChange
  <1>6. t.planning = n
    BY <1>1, <1>3 DEF AnswersOf, ClientState
  <1> QED
    BY <1>2, <1>5, <1>6 DEF t, n

LEMMA GateAskedKeeps ==
    ASSUME NEW s, ClientInv(s)
    PROVE  LET t == GateAsked(s)
           IN /\ ClientInv(t) /\ SameCalls(s, t) /\ t.gate = Len(s.loads) + 1 /\ t.gate # 0
              /\ \A l \in DOMAIN s.loads : l \in DOMAIN t.loads /\ t.loads[l] = s.loads[l]
  <1> DEFINE loads == WithLoad(s, "gate")
             n == Len(s.loads) + 1
             t == GateAsked(s)
  <1>1. s \in ClientState /\ s.planning \in Nat /\ s.runs \in Nat /\ s.repos \in Nat
    BY DEF ClientInv, ClientState
  <1>2. /\ loads \in Seq(LoadType) /\ n \in Nat \ {0} /\ n \in DOMAIN loads
        /\ loads[n].runs = s.runs /\ loads[n].repos = s.repos
        /\ \A l \in DOMAIN s.loads : l \in DOMAIN loads /\ loads[l] = s.loads[l]
        /\ \A l \in DOMAIN loads : loads[l].db \in {0} \union DOMAIN s.conns
    BY WithLoadFields
  <1>3. t = AnswersOf(s, loads, n, s.planning, s.runs, s.repos)
    BY DEF GateAsked
  <1> HIDE DEF t, n, loads
  <1>4. s.planning # 0 => s.planning \in DOMAIN s.loads /\ s.loads[s.planning].repos = s.repos
    BY DEF ClientInv, AnswersCurrent
  <1>5. ClientInv(t) /\ SameCalls(s, t)
    <2>1. /\ n \in Nat /\ s.runs <= s.runs /\ s.repos <= s.repos
          /\ \A l \in DOMAIN s.loads :
                l \in DOMAIN loads /\ loads[l].runs = s.loads[l].runs /\ loads[l].repos = s.loads[l].repos
      BY <1>1, <1>2
    <2>2. n # 0 => n \in DOMAIN loads /\ loads[n].runs = s.runs
      BY <1>2, <1>4
    <2>3. s.planning # 0 => s.planning \in DOMAIN loads /\ loads[s.planning].repos = s.repos
      BY <1>2, <1>4
    <2> QED
      BY <1>1, <1>2, <1>3, <2>1, <2>2, <2>3, AnswersChange
  <1>6. t.gate = n /\ t.loads = loads
    BY <1>1, <1>3 DEF AnswersOf, ClientState
  <1> QED
    BY <1>2, <1>5, <1>6 DEF t, n

\* Waiting for the answer there is.
AwaitPlanning(s, u) == [s EXCEPT !.calls[u].pc = "planning", !.calls[u].planning = s.planning]
AwaitGate(s, u) == [s EXCEPT !.calls[u].pc = "gate", !.calls[u].gate = s.gate]

LEMMA AwaitPlanningKeeps ==
    ASSUME NEW s, ClientInv(s), NEW u \in Callers, s.planning # 0, s.calls[u].pc # "closing"
    PROVE  ClientInv(AwaitPlanning(s, u))
  <1> DEFINE c == [s.calls[u] EXCEPT !.pc = "planning", !.planning = s.planning]
  <1>1. /\ s \in ClientState /\ s.calls \in [Callers -> CallType] /\ s.calls[u] \in CallType
        /\ s.planning \in Nat /\ s.runs \in Nat /\ s.repos \in Nat
    BY DEF ClientInv, ClientState
  <1>2. /\ c \in CallType /\ c.pc = "planning" /\ c.planning = s.planning
        /\ c.runs = s.calls[u].runs /\ c.repos = s.calls[u].repos
    BY <1>1 DEF CallType, Pcs
  <1>3. AwaitPlanning(s, u) = With(s, u, c, s.made)
    BY <1>1 DEF AwaitPlanning, With, ClientState
  <1> HIDE DEF c
  <1>4. /\ c.runs <= s.runs /\ c.repos <= s.repos
        /\ s.planning \in DOMAIN s.loads /\ s.loads[s.planning].repos = s.repos
        /\ c.repos \in Nat
    BY <1>2 DEF ClientInv, AnswersCurrent, CallType
  <1>5. s.loads[c.planning].repos >= c.repos
    BY <1>1, <1>2, <1>4
  <1> QED
    BY <1>2, <1>3, <1>4, <1>5, AskingKeeps

LEMMA AwaitGateKeeps ==
    ASSUME NEW s, ClientInv(s), NEW u \in Callers, s.gate # 0, s.calls[u].pc # "closing",
           s.calls[u].op = "ask" => s.calls[u].pc = "planning"
    PROVE  ClientInv(AwaitGate(s, u))
  <1> DEFINE c == [s.calls[u] EXCEPT !.pc = "gate", !.gate = s.gate]
  <1>1. /\ s \in ClientState /\ s.calls \in [Callers -> CallType] /\ s.calls[u] \in CallType
        /\ s.gate \in Nat /\ s.runs \in Nat /\ s.repos \in Nat
    BY DEF ClientInv, ClientState
  <1>2. /\ c \in CallType /\ c.pc = "gate" /\ c.gate = s.gate /\ c.planning = s.calls[u].planning
        /\ c.runs = s.calls[u].runs /\ c.repos = s.calls[u].repos /\ c.op = s.calls[u].op
    BY <1>1 DEF CallType, Pcs
  <1>3. AwaitGate(s, u) = With(s, u, c, s.made)
    BY <1>1 DEF AwaitGate, With, ClientState
  <1> HIDE DEF c
  <1>4. /\ c.runs <= s.runs /\ c.repos <= s.repos
        /\ s.gate \in DOMAIN s.loads /\ s.loads[s.gate].runs = s.runs
        /\ c.runs \in Nat
    BY <1>2 DEF ClientInv, AnswersCurrent, CallType
  <1>5. s.loads[c.gate].runs >= c.runs
    BY <1>1, <1>2, <1>4
  <1>6. c.op = "ask" => c.planning \in DOMAIN s.loads /\ s.loads[c.planning].repos >= c.repos
    BY <1>2 DEF ClientInv, AnswersCurrent
  <1> QED
    BY <1>2, <1>3, <1>4, <1>5, <1>6, AskingKeeps

LEMMA GetPlanningKeeps ==
    ASSUME NEW s, ClientInv(s), NEW u \in Callers, s.calls[u].pc # "closing"
    PROVE  ClientInv(Clients!GetPlanning(s, u))
  <1>1. CASE s.planning # 0
    BY <1>1, AwaitPlanningKeeps DEF Clients!GetPlanning, AwaitPlanning
  <1>2. CASE s.planning = 0
    <2> DEFINE t == PlanningAsked(s)
    <2>1. ClientInv(t) /\ SameCalls(s, t) /\ t.planning = Len(s.loads) + 1 /\ t.planning # 0
      BY PlanningAskedKeeps
    <2>2. s \in ClientState
      BY DEF ClientInv
    <2>3. t = [s EXCEPT !.loads = Append(s.loads, Clients!NewLoad(s, "planning")), !.planning = Len(s.loads) + 1]
      BY <2>2 DEF PlanningAsked, AnswersOf, WithLoad, ClientState
    <2>4. Clients!GetPlanning(s, u) = AwaitPlanning(t, u)
      BY <1>2, <2>2, <2>3 DEF Clients!GetPlanning, AwaitPlanning, ClientState
    <2> HIDE DEF t
    <2> QED
      BY <2>1, <2>4, AwaitPlanningKeeps DEF SameCalls
  <1> QED
    BY <1>1, <1>2

LEMMA GetGateKeeps ==
    ASSUME NEW s, ClientInv(s), NEW u \in Callers, s.calls[u].pc # "closing",
           s.calls[u].op = "ask" => s.calls[u].pc = "planning"
    PROVE  ClientInv(Clients!GetGate(s, u))
  <1>1. CASE s.closed
    BY <1>1, EndedKeeps DEF Clients!GetGate
  <1>2. CASE ~s.closed /\ s.gate # 0
    BY <1>2, AwaitGateKeeps DEF Clients!GetGate, AwaitGate
  <1>3. CASE ~s.closed /\ s.gate = 0
    <2> DEFINE t == GateAsked(s)
    <2>1. ClientInv(t) /\ SameCalls(s, t) /\ t.gate = Len(s.loads) + 1 /\ t.gate # 0
      BY GateAskedKeeps
    <2>2. s \in ClientState
      BY DEF ClientInv
    <2>3. t = [s EXCEPT !.loads = Append(s.loads, Clients!NewLoad(s, "gate")), !.gate = Len(s.loads) + 1]
      BY <2>2 DEF GateAsked, AnswersOf, WithLoad, ClientState
    <2>4. Clients!GetGate(s, u) = AwaitGate(t, u)
      BY <1>3, <2>2, <2>3 DEF Clients!GetGate, AwaitGate, ClientState
    <2> HIDE DEF t
    <2> QED
      BY <2>1, <2>4, AwaitGateKeeps DEF SameCalls
  <1> QED
    BY <1>1, <1>2, <1>3

\* A load goes on, and its answer may be forgotten.
LEMMA LoadChange ==
    ASSUME NEW s, ClientInv(s), NEW l \in DOMAIN s.loads, NEW x \in LoadType,
           x.runs = s.loads[l].runs, x.repos = s.loads[l].repos, x.db \in {0} \union DOMAIN s.conns,
           NEW gate \in {0, s.gate}, NEW planning \in {0, s.planning}
    PROVE  ClientInv(AnswersOf(s, [s.loads EXCEPT ![l] = x], gate, planning, s.runs, s.repos))
  <1> DEFINE loads == [s.loads EXCEPT ![l] = x]
  <1>1. /\ s \in ClientState /\ s.loads \in Seq(LoadType) /\ s.gate \in Nat /\ s.planning \in Nat
        /\ s.runs \in Nat /\ s.repos \in Nat
    BY DEF ClientInv, ClientState
  <1>2. /\ loads \in Seq(LoadType) /\ DOMAIN loads = DOMAIN s.loads /\ loads[l] = x
        /\ \A k \in DOMAIN s.loads \ {l} : loads[k] = s.loads[k]
    BY <1>1
  <1> HIDE DEF loads
  <1>3. /\ gate \in Nat /\ planning \in Nat /\ s.runs <= s.runs /\ s.repos <= s.repos
        /\ \A k \in DOMAIN s.loads :
              k \in DOMAIN loads /\ loads[k].runs = s.loads[k].runs /\ loads[k].repos = s.loads[k].repos
    BY <1>1, <1>2
  <1>4. \A k \in DOMAIN loads : loads[k].db \in {0} \union DOMAIN s.conns
    BY <1>2 DEF ClientInv, Connected, References
  <1>5. /\ gate # 0 => gate \in DOMAIN loads /\ loads[gate].runs = s.runs
        /\ planning # 0 => planning \in DOMAIN loads /\ loads[planning].repos = s.repos
    BY <1>2, <1>3 DEF ClientInv, AnswersCurrent
  <1>6. ClientInv(AnswersOf(s, loads, gate, planning, s.runs, s.repos))
    BY <1>1, <1>2, <1>3, <1>4, <1>5, AnswersChange
  <1> QED
    BY <1>6 DEF loads

LEMMA RejectedKeeps == ASSUME NEW s, ClientInv(s), NEW l \in DOMAIN s.loads
                       PROVE  ClientInv(Clients!Rejected(s, l))
  <1> DEFINE x == [s.loads[l] EXCEPT !.state = "failed"]
             gate == IF s.loads[l].of = "gate" /\ s.gate = l THEN 0 ELSE s.gate
             planning == IF s.loads[l].of = "planning" THEN 0 ELSE s.planning
  <1>1. s \in ClientState /\ s.loads \in Seq(LoadType) /\ s.loads[l] \in LoadType
    BY DEF ClientInv, ClientState
  <1>2. /\ x \in LoadType /\ x.runs = s.loads[l].runs /\ x.repos = s.loads[l].repos
        /\ x.db = s.loads[l].db
    BY <1>1 DEF LoadType
  <1>3. Clients!Rejected(s, l) = AnswersOf(s, [s.loads EXCEPT ![l] = x], gate, planning, s.runs, s.repos)
    BY <1>1 DEF Clients!Rejected, AnswersOf, ClientState
  <1>4. x.db \in {0} \union DOMAIN s.conns
    BY <1>2 DEF ClientInv, Connected, References
  <1> HIDE DEF x
  <1> QED
    BY <1>2, <1>3, <1>4, LoadChange

LEMMA ReadyKeeps ==
    ASSUME NEW s, ClientInv(s), NEW l \in DOMAIN s.loads
    PROVE  ClientInv([s EXCEPT !.loads[l].state = "ready"])
  <1> DEFINE x == [s.loads[l] EXCEPT !.state = "ready"]
  <1>1. s \in ClientState /\ s.loads \in Seq(LoadType) /\ s.loads[l] \in LoadType
    BY DEF ClientInv, ClientState
  <1>2. /\ x \in LoadType /\ x.runs = s.loads[l].runs /\ x.repos = s.loads[l].repos
        /\ x.db = s.loads[l].db
    BY <1>1 DEF LoadType
  <1>3. [s EXCEPT !.loads[l].state = "ready"] =
            AnswersOf(s, [s.loads EXCEPT ![l] = x], s.gate, s.planning, s.runs, s.repos)
    BY <1>1 DEF AnswersOf, ClientState
  <1>4. x.db \in {0} \union DOMAIN s.conns
    BY <1>2 DEF ClientInv, Connected, References
  <1> HIDE DEF x
  <1> QED
    BY <1>2, <1>3, <1>4, LoadChange

LoadAwaits(s, l) == [s EXCEPT !.loads[l].db = s.promise]

LEMMA LoadAwaitsKeeps ==
    ASSUME NEW s, ClientInv(s), NEW l \in DOMAIN s.loads PROVE ClientInv(LoadAwaits(s, l))
  <1> DEFINE x == [s.loads[l] EXCEPT !.db = s.promise]
  <1>1. s \in ClientState /\ s.loads \in Seq(LoadType) /\ s.loads[l] \in LoadType /\ s.promise \in Nat
    BY DEF ClientInv, ClientState
  <1>2. /\ x \in LoadType /\ x.runs = s.loads[l].runs /\ x.repos = s.loads[l].repos
        /\ x.db = s.promise
    BY <1>1 DEF LoadType
  <1>3. LoadAwaits(s, l) =
            AnswersOf(s, [s.loads EXCEPT ![l] = x], s.gate, s.planning, s.runs, s.repos)
    BY <1>1 DEF LoadAwaits, AnswersOf, ClientState
  <1>4. x.db \in {0} \union DOMAIN s.conns
    BY <1>2 DEF ClientInv, Connected, References
  <1> HIDE DEF x
  <1> QED
    BY <1>2, <1>3, <1>4, LoadChange

LEMMA LoadStep ==
    ASSUME ClientInv(client), NEW l \in DOMAIN client.loads, Clients!Load(l) PROVE ClientInv(client')
  <1>1. CASE client' = Clients!AskDb(client, l)
    <2>1. CASE client.closed
      BY <1>1, <2>1, RejectedKeeps DEF Clients!AskDb
    <2>2. CASE ~client.closed /\ client.promise # 0
      BY <1>1, <2>2, LoadAwaitsKeeps DEF Clients!AskDb, LoadAwaits
    <2>3. CASE ~client.closed /\ client.promise = 0
      <3> DEFINE t == Opened(client)
      <3>1. ClientInv(t) /\ client \in ClientState
        BY <2>3, OpenedKeeps DEF ClientInv
      <3>2. t.promise = Len(client.conns) + 1 /\ t.loads = client.loads
        BY <3>1, OpenedFields DEF SameAnswers
      <3>3. Clients!AskDb(client, l) = LoadAwaits(t, l)
        BY <2>3, <3>1, <3>2 DEF Clients!AskDb, LoadAwaits, Opened, ClientState
      <3> HIDE DEF t
      <3> QED
        BY <1>1, <3>1, <3>2, <3>3, LoadAwaitsKeeps
    <2> QED
      BY <2>1, <2>2, <2>3
  <1>2. CASE \E failed \in BOOLEAN : client' = Clients!Settled(client, l, failed)
    BY <1>2, RejectedKeeps, ReadyKeeps DEF Clients!Settled
  <1> QED
    BY <1>1, <1>2 DEF Clients!Load
-----------------------------------------------------------------------------
(* Calls that use the connection and the answers. *)

LEMMA GotDbStep == ASSUME ClientInv(client), NEW u \in Callers, Clients!GotDb(u) PROVE ClientInv(client')
  <1>1. client.calls[u].pc = "db"
    BY DEF Clients!GotDb, Clients!At, Clients!call
  <1>2. CASE client.calls[u].op = "index"
    <2>1. Busy(client, u) /\ RunningJob(client, u)
      BY <1>1, <1>2 DEF Busy, RunningJob
    <2>2. Head(client.queue) = client.calls[u].job
      BY <2>1 DEF ClientInv, QueueKept
    <2>3. \/ client' = Dequeued(client, u)
          \/ client.conns[client.calls[u].db] \in Clients!Heard /\ client' = Indexing(client, u)
      BY <1>2 DEF Clients!GotDb, Clients!call, Dequeued, Indexing
    <2> QED
      BY <1>1, <1>2, <2>1, <2>2, <2>3, DequeuedKeeps, IndexingKeeps
  <1>3. CASE client.calls[u].op # "index"
    <2>1. \/ client' = Clients!Ended(client, u)
          \/ client' = Clients!GetPlanning(client, u)
          \/ client' = [client EXCEPT !.calls[u].pc = "using"]
      BY <1>3 DEF Clients!GotDb, Clients!call
    <2>2. "using" \in QuietCall
      BY DEF QuietCall
    <2> QED
      BY <1>1, <2>1, <2>2, EndedKeeps, GetPlanningKeeps, RestKeeps
  <1> QED
    BY <1>2, <1>3

Renamed(s, u) == [s EXCEPT !.calls[u].op = "read"]

LEMMA RenamedKeeps ==
    ASSUME NEW s, ClientInv(s), NEW u \in Callers, s.calls[u].pc \in {"idle", "db"}, s.calls[u].op # "index"
    PROVE  ClientInv(Renamed(s, u))
  <1> DEFINE c == [s.calls[u] EXCEPT !.op = "read"]
             t == With(s, u, c, s.made)
  <1>1. s \in ClientState /\ s.made \in Nat /\ s.calls \in [Callers -> CallType] /\ s.calls[u] \in CallType
    BY DEF ClientInv, ClientState
  <1>2. /\ c \in CallType /\ c.pc = s.calls[u].pc /\ c.db = s.calls[u].db /\ c.op = "read"
        /\ c.runs = s.calls[u].runs /\ c.repos = s.calls[u].repos
    BY <1>1 DEF CallType, Names
  <1>3. c.runs <= s.runs /\ c.repos <= s.repos
    BY <1>2 DEF ClientInv, AnswersCurrent
  <1>4. Renamed(s, u) = t
    BY <1>1 DEF Renamed, With, ClientState
  <1> HIDE DEF c
  <1>5. /\ Goes(s, t, u) /\ t.calls[u] = c
        /\ SameConnections(s, t) /\ SameJobs(s, t) /\ SameAnswers(s, t) /\ SameWatchers(s, t)
        /\ t.closing = s.closing
    BY <1>1, <1>2, <1>3, WithFields
  <1> HIDE DEF t
  <1>6. /\ ~Busy(t, u)
        /\ \A v \in Callers \ {u} : t.calls[v] = s.calls[v] /\ (Busy(t, v) <=> Busy(s, v))
                  /\ (RunningJob(t, v) <=> RunningJob(s, v))
    BY <1>2, <1>5 DEF Busy, RunningJob, Goes, SameOthers
  <1>7. Connected(t)
    <2>1. \A l \in DOMAIN t.loads : t.loads[l].db \in {0} \union DOMAIN s.conns
      BY <1>5 DEF ClientInv, Connected, References, SameAnswers
    <2>2. /\ s.calls[u].pc # "closing" /\ t.calls[u].pc # "closing"
          /\ t.calls[u].pc \in {"db", "indexing"} => t.calls[u].db \in DOMAIN s.conns
      BY <1>2, <1>5 DEF ClientInv, Connected, References
    <2> QED
      BY <1>5, <1>6, <2>1, <2>2, ConnectionsKept DEF ClientInv
  <1>8. QueueKept(t)
    <2>1. \A v \in Callers : Busy(t, v) =>
              /\ Busy(s, v) /\ t.calls[v].job = s.calls[v].job
              /\ RunningJob(t, v) => Head(s.queue) = s.calls[v].job
      BY <1>6 DEF ClientInv, QueueKept
    <2> QED
      BY <1>5, <2>1, JobsKept DEF ClientInv
  <1>9. EarlyServed(t)
    <2>1. \A v \in Callers : t.calls[v].pc \in {"draining", "closing"} => t.calls[v] = s.calls[v]
      BY <1>2, <1>5, <1>6
    <2>2. \A v \in Callers : Busy(t, v) =>
              Busy(s, v) /\ t.calls[v].job = s.calls[v].job /\ t.calls[v].early = s.calls[v].early
      BY <1>6
    <2>3. \A v \in Callers :
              t.calls[v].pc = "indexing" /\ t.calls[v].early => t.conns[t.calls[v].db] = "open"
      BY <1>2, <1>5, <1>6 DEF ClientInv, EarlyServed, SameConnections
    <2> QED
      BY <1>5, <2>1, <2>2, <2>3, EarlyKept DEF ClientInv, SameConnections
  <1>10. AnswersCurrent(t) /\ WatcherKnown(t)
    BY <1>2, <1>3, <1>5, <1>6, AnswersKept, WatchersKept DEF ClientInv
  <1> QED
    BY <1>4, <1>5, <1>7, <1>8, <1>9, <1>10 DEF ClientInv, Goes

LEMMA UsedStep == ASSUME ClientInv(client), NEW u \in Callers, Clients!Used(u) PROVE ClientInv(client')
  <1>1. client.calls[u].pc = "using" /\ client \in ClientState
    BY DEF Clients!Used, Clients!At, Clients!call, ClientInv
  <1>2. CASE client' = Clients!Ended(client, u)
    BY <1>1, <1>2, EndedKeeps
  <1>3. CASE client.calls[u].op = "impact" /\ client' = Renamed(Clients!GetDb(client, u), u)
    <2> DEFINE t == Clients!GetDb(client, u)
    <2>1. ClientInv(t)
      BY <1>1, <1>3, GetDbKeeps DEF QuietCall
    <2>2. t.calls[u].pc \in {"idle", "db"} /\ t.calls[u].op # "index"
      <3>1. client.calls \in [Callers -> CallType] /\ client.calls[u] \in CallType
        BY <1>1 DEF ClientState
      <3>2. t.calls[u] = Clients!Idle \/ (t.calls[u].pc = "db" /\ t.calls[u].op = "impact")
        BY <1>1, <1>3, <3>1 DEF Clients!GetDb, Clients!Ended, ClientState, CallType
      <3>3. Clients!Idle.pc = "idle" /\ Clients!Idle.op = ""
        BY DEF Clients!Idle
      <3> HIDE DEF t
      <3> QED
        BY <3>2, <3>3
    <2> HIDE DEF t
    <2>3. client' = Renamed(t, u)
      BY <1>3 DEF t
    <2> QED
      BY <2>1, <2>2, <2>3, RenamedKeeps
  <1> QED
    BY <1>2, <1>3 DEF Clients!Used, Clients!call, Renamed

LEMMA PlannedStep == ASSUME ClientInv(client), NEW u \in Callers, Clients!Planned(u)
                     PROVE  ClientInv(client')
  <1>1. client.calls[u].pc = "planning"
    BY DEF Clients!Planned, Clients!At, Clients!call
  <1>2. client' = Clients!Ended(client, u) \/ client' = Clients!GetGate(client, u)
    BY DEF Clients!Planned, Clients!LoadEnds
  <1> QED
    BY <1>1, <1>2, EndedKeeps, GetGateKeeps

LEMMA GatedStep == ASSUME ClientInv(client), NEW u \in Callers, Clients!Gated(u) PROVE ClientInv(client')
  <1> DEFINE s == client
             c == [s.calls[u] EXCEPT !.pc = "answering"]
  <1>1. s.calls[u].pc = "gate"
    BY DEF Clients!Gated, Clients!At, Clients!call
  <1>2. s' = Clients!Ended(s, u) \/ s' = [s EXCEPT !.calls[u].pc = "answering"]
    BY DEF Clients!Gated, Clients!LoadEnds
  <1>3. s \in ClientState /\ s.calls \in [Callers -> CallType] /\ s.calls[u] \in CallType
    BY DEF ClientInv, ClientState
  <1>4. /\ c \in CallType /\ c.pc = "answering" /\ c.gate = s.calls[u].gate /\ c.planning = s.calls[u].planning
        /\ c.runs = s.calls[u].runs /\ c.repos = s.calls[u].repos /\ c.op = s.calls[u].op
    BY <1>3 DEF CallType, Pcs
  <1>5. [s EXCEPT !.calls[u].pc = "answering"] = With(s, u, c, s.made)
    BY <1>3 DEF With, ClientState
  <1> HIDE DEF c
  <1>6. c.runs <= s.runs /\ c.repos <= s.repos
    BY <1>4 DEF ClientInv, AnswersCurrent
  <1>7. /\ c.gate \in DOMAIN s.loads /\ s.loads[c.gate].runs >= c.runs
        /\ c.op = "ask" => c.planning \in DOMAIN s.loads /\ s.loads[c.planning].repos >= c.repos
    BY <1>1, <1>4 DEF ClientInv, AnswersCurrent
  <1>8. ClientInv(With(s, u, c, s.made))
    BY <1>1, <1>4, <1>6, <1>7, AskingKeeps
  <1> QED
    BY <1>1, <1>2, <1>5, <1>8, EndedKeeps

LEMMA AnsweredStep == ASSUME ClientInv(client), NEW u \in Callers, Clients!Answered(u)
                      PROVE  ClientInv(client')
  BY EndedKeeps DEF Clients!Answered, Clients!At, Clients!call

LEMMA Forgotten ==
    ASSUME NEW s, ClientInv(s), NEW gate \in {0, s.gate}, NEW planning \in {0, s.planning}
    PROVE  /\ ClientInv(AnswersOf(s, s.loads, gate, planning, s.runs, s.repos))
           /\ SameCalls(s, AnswersOf(s, s.loads, gate, planning, s.runs, s.repos))
           /\ ClientInv(AnswersOf(s, s.loads, 0, planning, s.runs + 1, s.repos))
           /\ SameCalls(s, AnswersOf(s, s.loads, 0, planning, s.runs + 1, s.repos))
           /\ ClientInv(AnswersOf(s, s.loads, gate, 0, s.runs, s.repos + 1))
           /\ SameCalls(s, AnswersOf(s, s.loads, gate, 0, s.runs, s.repos + 1))
  <1>0. /\ s.loads \in Seq(LoadType) /\ s.gate \in Nat /\ s.planning \in Nat
        /\ s.runs \in Nat /\ s.repos \in Nat
    BY DEF ClientInv, ClientState
  <1>1. /\ s.loads \in Seq(LoadType) /\ gate \in Nat /\ planning \in Nat /\ 0 \in Nat
        /\ s.runs \in Nat /\ s.repos \in Nat /\ s.runs + 1 \in Nat /\ s.repos + 1 \in Nat
        /\ s.runs <= s.runs /\ s.repos <= s.repos /\ s.runs <= s.runs + 1 /\ s.repos <= s.repos + 1
    BY <1>0
  <1>2. /\ \A l \in DOMAIN s.loads :
              l \in DOMAIN s.loads /\ s.loads[l].runs = s.loads[l].runs /\ s.loads[l].repos = s.loads[l].repos
        /\ \A l \in DOMAIN s.loads : s.loads[l].db \in {0} \union DOMAIN s.conns
    BY DEF ClientInv, Connected, References
  <1>3. /\ gate # 0 => gate \in DOMAIN s.loads /\ s.loads[gate].runs = s.runs
        /\ planning # 0 => planning \in DOMAIN s.loads /\ s.loads[planning].repos = s.repos
    BY DEF ClientInv, AnswersCurrent
  <1>4. /\ ClientInv(AnswersOf(s, s.loads, gate, planning, s.runs, s.repos))
        /\ SameCalls(s, AnswersOf(s, s.loads, gate, planning, s.runs, s.repos))
    BY <1>1, <1>2, <1>3, AnswersChange
  <1>5. /\ ClientInv(AnswersOf(s, s.loads, 0, planning, s.runs + 1, s.repos))
        /\ SameCalls(s, AnswersOf(s, s.loads, 0, planning, s.runs + 1, s.repos))
    BY <1>1, <1>2, <1>3, AnswersChange
  <1>6. /\ ClientInv(AnswersOf(s, s.loads, gate, 0, s.runs, s.repos + 1))
        /\ SameCalls(s, AnswersOf(s, s.loads, gate, 0, s.runs, s.repos + 1))
    BY <1>1, <1>2, <1>3, AnswersChange
  <1> QED
    BY <1>4, <1>5, <1>6

LEMMA ConfiguredKeeps ==
    ASSUME NEW s, ClientInv(s) PROVE ClientInv(Clients!Configured(s)) /\ SameCalls(s, Clients!Configured(s))
  <1>1. s \in ClientState
    BY DEF ClientInv
  <1>2. Clients!Configured(s) = AnswersOf(s, s.loads, s.gate, 0, s.runs, s.repos + 1)
    BY <1>1 DEF Clients!Configured, AnswersOf, ClientState
  <1> QED
    BY <1>2, Forgotten

LEMMA InvalidatedKeeps ==
    ASSUME NEW s, ClientInv(s)
    PROVE  ClientInv(Clients!Invalidated(s)) /\ SameCalls(s, Clients!Invalidated(s))
  <1>1. s \in ClientState
    BY DEF ClientInv
  <1>2. Clients!Invalidated(s) = AnswersOf(s, s.loads, 0, 0, s.runs + 1, s.repos)
    BY <1>1 DEF Clients!Invalidated, AnswersOf, ClientState
  <1> QED
    BY <1>2, Forgotten

LEMMA ReturnStep == ASSUME ClientInv(client), NEW u \in Callers, Clients!Return(u) PROVE ClientInv(client')
  BY InvalidatedKeeps, EndedKeeps DEF Clients!Return, Clients!At, Clients!call, SameCalls

LEMMA DiscoveredStep == ASSUME ClientInv(client), NEW u \in Callers, Clients!Discovered(u)
                        PROVE  ClientInv(client')
  <1>1. client.calls[u].pc = "discovering"
    BY DEF Clients!Discovered, Clients!At, Clients!call
  <1>2. ClientInv(Clients!Configured(client)) /\ Clients!Configured(client).calls[u].pc = "discovering"
    BY <1>1, ConfiguredKeeps DEF SameCalls
  <1>3. "discovering" \in QuietCall
    BY DEF QuietCall
  <1> QED
    BY <1>1, <1>2, <1>3, EndedKeeps, EnqueuedKeeps DEF Clients!Discovered
-----------------------------------------------------------------------------
(* The watcher. *)

WatcherStatus == Clients!Live \union {"active", "stopped"}
WatchersOf(s, watchers, watcher, disturbed) ==
    [s EXCEPT !.watchers = watchers, !.watcher = watcher, !.disturbed = disturbed]

LEMMA WatchersFields ==
    ASSUME NEW s \in ClientState, NEW watchers \in Seq(WatcherStatus), NEW watcher \in Nat,
           NEW disturbed \in BOOLEAN
    PROVE  LET t == WatchersOf(s, watchers, watcher, disturbed)
           IN /\ t \in ClientState
              /\ t.watchers = watchers /\ t.watcher = watcher /\ t.disturbed = disturbed
              /\ t.closing = s.closing
              /\ SameCalls(s, t) /\ SameConnections(s, t) /\ SameJobs(s, t) /\ SameAnswers(s, t)
  BY DEF WatchersOf, ClientState, WatcherStatus, SameCalls, SameConnections, SameJobs, SameAnswers

LEMMA WatchersChange ==
    ASSUME NEW s, ClientInv(s), NEW watchers \in Seq(WatcherStatus),
           NEW watcher \in {0} \union DOMAIN watchers,
           NEW disturbed \in BOOLEAN, DOMAIN s.watchers \subseteq DOMAIN watchers,
           \A v \in Callers : s.calls[v].pc = "watching" =>
               disturbed \/ watchers[s.calls[v].watcher] \in Clients!Live,
           ~disturbed => \A w \in DOMAIN watchers : watchers[w] \in {"active"} \union Clients!Live => w = watcher
    PROVE  LET t == WatchersOf(s, watchers, watcher, disturbed)
           IN /\ ClientInv(t) /\ SameCalls(s, t)
              /\ t.watchers = watchers /\ t.watcher = watcher /\ t.disturbed = disturbed
  <1> DEFINE t == WatchersOf(s, watchers, watcher, disturbed)
  <1>1. s \in ClientState /\ watcher \in Nat
    BY DEF ClientInv
  <1>2. /\ t \in ClientState
        /\ t.watchers = watchers /\ t.watcher = watcher /\ t.disturbed = disturbed
        /\ t.closing = s.closing
        /\ SameCalls(s, t) /\ SameConnections(s, t) /\ SameJobs(s, t) /\ SameAnswers(s, t)
    BY <1>1, WatchersFields
  <1> HIDE DEF t
  <1>3. \A v \in Callers :
            t.calls[v] = s.calls[v] /\ (Busy(t, v) <=> Busy(s, v)) /\ (RunningJob(t, v) <=> RunningJob(s, v))
    BY <1>2 DEF SameCalls, Busy, RunningJob
  <1>4. Connected(t)
    <2>1. \A l \in DOMAIN t.loads : t.loads[l].db \in {0} \union DOMAIN s.conns
      BY <1>2 DEF ClientInv, Connected, References, SameAnswers
    <2> QED
      BY <1>2, <1>3, <2>1, ConnectionsKept DEF ClientInv
  <1>5. QueueKept(t)
    <2>1. \A v \in Callers : Busy(t, v) =>
              /\ Busy(s, v) /\ t.calls[v].job = s.calls[v].job
              /\ RunningJob(t, v) => Head(s.queue) = s.calls[v].job
      BY <1>3 DEF ClientInv, QueueKept
    <2> QED
      BY <1>2, <2>1, JobsKept DEF ClientInv
  <1>6. EarlyServed(t)
    <2>1. \A v \in Callers :
              t.calls[v].pc = "indexing" /\ t.calls[v].early => t.conns[t.calls[v].db] = "open"
      BY <1>2, <1>3 DEF ClientInv, EarlyServed, SameConnections
    <2> QED
      BY <1>2, <1>3, <2>1, EarlyKept DEF ClientInv, SameConnections
  <1>7. AnswersCurrent(t)
    BY <1>2, <1>3, AnswersKept DEF ClientInv
  <1>8. WatcherKnown(t)
    BY <1>2, <1>3 DEF ClientInv, WatcherKnown
  <1> QED
    BY <1>2, <1>4, <1>5, <1>6, <1>7, <1>8 DEF ClientInv, t

\* FileWatcher.stop: what was starting without being stopped before is what is
\* disturbed now.
LEMMA StopWatcherKeeps ==
    ASSUME NEW s, ClientInv(s)
    PROVE  ClientInv(Clients!StopWatcher(s)) /\ SameCalls(s, Clients!StopWatcher(s))
              /\ Clients!StopWatcher(s).closed = s.closed
           /\ Clients!StopWatcher(s).jobs = s.jobs
  <1>1. CASE s.watcher = 0
    BY <1>1 DEF Clients!StopWatcher, SameCalls
  <1>2. CASE s.watcher # 0
    <2> DEFINE was == s.watchers[s.watcher]
               is == CASE was = "active" -> "stopped" [] was = "installed" -> "starting" [] OTHER -> was
               watchers == [s.watchers EXCEPT ![s.watcher] = is]
               disturbed == s.disturbed \/ was \in Clients!Live
               t == WatchersOf(s, watchers, 0, disturbed)
    <2>1. s \in ClientState /\ s.watchers \in Seq(WatcherStatus) /\ s.watcher \in DOMAIN s.watchers /\ was \in WatcherStatus
      BY <1>2 DEF ClientInv, ClientState, WatcherKnown, WatcherStatus
    <2>2. Clients!StopWatcher(s) = t
      BY <1>2, <2>1 DEF Clients!StopWatcher, WatchersOf, ClientState
    <2>3. /\ is \in WatcherStatus /\ is # "active"
          /\ was \notin Clients!Live => is = "stopped"
      BY <2>1 DEF WatcherStatus, Clients!Live
    <2> HIDE DEF is
    <2>4. /\ watchers \in Seq(WatcherStatus) /\ DOMAIN watchers = DOMAIN s.watchers
          /\ watchers[s.watcher] = is
          /\ \A w \in DOMAIN s.watchers \ {s.watcher} : watchers[w] = s.watchers[w]
      BY <2>1, <2>3
    <2>5. disturbed \in BOOLEAN /\ (~disturbed => ~s.disturbed /\ was \notin Clients!Live)
      BY <2>1 DEF ClientState
    <2> HIDE DEF watchers, disturbed
    <2>6. ASSUME NEW v \in Callers, s.calls[v].pc = "watching" PROVE disturbed
      <3>1. ~s.disturbed => s.watchers[s.calls[v].watcher] \in Clients!Live /\ s.calls[v].watcher = s.watcher
        BY <2>6 DEF ClientInv, WatcherKnown
      <3> QED
        BY <2>5, <3>1
    <2>7. ASSUME ~disturbed, NEW w \in DOMAIN watchers, watchers[w] \in {"active"} \union Clients!Live
          PROVE  FALSE
      <3>1. w # s.watcher
        BY <2>3, <2>4, <2>5, <2>7 DEF Clients!Live
      <3> QED
        BY <2>4, <2>5, <2>7, <3>1 DEF ClientInv, WatcherKnown
    <2>8. ClientInv(t) /\ SameCalls(s, t)
      BY <2>4, <2>5, <2>6, <2>7, WatchersChange
    <2>9. t.closed = s.closed /\ t.jobs = s.jobs
      BY <2>1 DEF WatchersOf, ClientState
    <2> HIDE DEF t
    <2> QED
      BY <2>2, <2>8, <2>9
  <1> QED
    BY <1>1, <1>2

\* A watcher that nobody else starts is the one of this call.
LEMMA WatchingKeeps ==
    ASSUME NEW s, ClientInv(s), NEW u \in Callers, s.calls[u].pc \in QuietCall,
           NEW w \in DOMAIN s.watchers, s.watchers[w] \in Clients!Live,
           \A v \in Callers : s.calls[v].pc = "watching" => s.calls[v].watcher # w
    PROVE  ClientInv([s EXCEPT !.calls[u].pc = "watching", !.calls[u].watcher = w])
  <1> DEFINE c == [s.calls[u] EXCEPT !.pc = "watching", !.watcher = w]
             t == With(s, u, c, s.made)
  <1>1. s \in ClientState /\ s.made \in Nat /\ s.calls \in [Callers -> CallType] /\ s.calls[u] \in CallType /\ w \in Nat
    BY DEF ClientInv, ClientState
  <1>2. /\ c \in CallType /\ c.pc = "watching" /\ c.watcher = w
        /\ c.runs = s.calls[u].runs /\ c.repos = s.calls[u].repos
    BY <1>1 DEF CallType, Pcs
  <1>3. c.runs <= s.runs /\ c.repos <= s.repos
    BY <1>2 DEF ClientInv, AnswersCurrent
  <1>4. [s EXCEPT !.calls[u].pc = "watching", !.calls[u].watcher = w] = t
    BY <1>1 DEF With, ClientState
  <1> HIDE DEF c
  <1>5. /\ Goes(s, t, u) /\ t.calls[u] = c
        /\ SameConnections(s, t) /\ SameJobs(s, t) /\ SameAnswers(s, t) /\ SameWatchers(s, t)
        /\ t.closing = s.closing
    BY <1>1, <1>2, <1>3, WithFields
  <1> HIDE DEF t
  <1>6. /\ ~Busy(t, u)
        /\ \A v \in Callers \ {u} : t.calls[v] = s.calls[v] /\ (Busy(t, v) <=> Busy(s, v))
                  /\ (RunningJob(t, v) <=> RunningJob(s, v))
    BY <1>2, <1>5 DEF Busy, RunningJob, Goes, SameOthers
  <1>7. Connected(t)
    <2>1. \A l \in DOMAIN t.loads : t.loads[l].db \in {0} \union DOMAIN s.conns
      BY <1>5 DEF ClientInv, Connected, References, SameAnswers
    <2>2. s.calls[u].pc # "closing"
      BY DEF QuietCall
    <2> QED
      BY <1>2, <1>5, <1>6, <2>1, <2>2, ConnectionsKept DEF ClientInv
  <1>8. QueueKept(t)
    <2>1. \A v \in Callers : Busy(t, v) =>
              /\ Busy(s, v) /\ t.calls[v].job = s.calls[v].job
              /\ RunningJob(t, v) => Head(s.queue) = s.calls[v].job
      BY <1>6 DEF ClientInv, QueueKept
    <2> QED
      BY <1>5, <2>1, JobsKept DEF ClientInv
  <1>9. EarlyServed(t)
    <2>1. \A v \in Callers : t.calls[v].pc \in {"draining", "closing"} => t.calls[v] = s.calls[v]
      BY <1>2, <1>5, <1>6
    <2>2. \A v \in Callers : Busy(t, v) =>
              Busy(s, v) /\ t.calls[v].job = s.calls[v].job /\ t.calls[v].early = s.calls[v].early
      BY <1>6
    <2>3. \A v \in Callers :
              t.calls[v].pc = "indexing" /\ t.calls[v].early => t.conns[t.calls[v].db] = "open"
      BY <1>2, <1>5, <1>6 DEF ClientInv, EarlyServed, SameConnections
    <2> QED
      BY <1>5, <2>1, <2>2, <2>3, EarlyKept DEF ClientInv, SameConnections
  <1>10. AnswersCurrent(t)
    BY <1>2, <1>3, <1>5, <1>6, AnswersKept DEF ClientInv
  <1>11. WatcherKnown(t)
    BY <1>2, <1>5, <1>6 DEF ClientInv, WatcherKnown, SameWatchers
  <1> QED
    BY <1>4, <1>5, <1>7, <1>8, <1>9, <1>10, <1>11 DEF ClientInv, Goes

LEMMA WatchKeeps ==
    ASSUME NEW s, ClientInv(s), NEW u \in Callers, s.calls[u].pc \in QuietCall, s.watcher = 0
    PROVE  ClientInv(Clients!Watch(s, u))
  <1> DEFINE watchers == Append(s.watchers, "starting")
             w == Len(s.watchers) + 1
             t == WatchersOf(s, watchers, w, s.disturbed)
  <1>1. s \in ClientState /\ s.watchers \in Seq(WatcherStatus) /\ s.disturbed \in BOOLEAN
    BY DEF ClientInv, ClientState, WatcherStatus
  <1>2. /\ watchers \in Seq(WatcherStatus) /\ w \in DOMAIN watchers /\ watchers[w] = "starting"
        /\ w \notin DOMAIN s.watchers /\ DOMAIN watchers = DOMAIN s.watchers \union {w}
        /\ \A x \in DOMAIN s.watchers : watchers[x] = s.watchers[x]
    BY <1>1 DEF WatcherStatus, Clients!Live
  <1>3. t = [s EXCEPT !.watchers = Append(s.watchers, "starting"), !.watcher = Len(s.watchers) + 1]
    BY <1>1 DEF WatchersOf, ClientState
  <1>4. Clients!Watch(s, u) = [t EXCEPT !.calls[u].pc = "watching", !.calls[u].watcher = Len(s.watchers) + 1]
    BY <1>1, <1>3 DEF Clients!Watch, ClientState
  <1> HIDE DEF watchers, w, t
  <1>5. 0 \notin DOMAIN s.watchers
    BY <1>1
  <1>6. ~s.disturbed => \A x \in DOMAIN s.watchers : s.watchers[x] \notin {"active"} \union Clients!Live
    BY <1>5 DEF ClientInv, WatcherKnown
  <1>7. \A v \in Callers : s.calls[v].pc = "watching" =>
            s.disturbed /\ s.calls[v].watcher \in DOMAIN s.watchers
    BY <1>6 DEF ClientInv, WatcherKnown
  <1>8. ClientInv(t) /\ SameCalls(s, t) /\ t.watchers = watchers
    <2>1. ~s.disturbed => \A x \in DOMAIN watchers : watchers[x] \in {"active"} \union Clients!Live => x = w
      BY <1>2, <1>6
    <2> QED
      BY <1>1, <1>2, <1>7, <2>1, WatchersChange DEF t
  <1>9. /\ t.calls[u].pc \in QuietCall /\ w \in DOMAIN t.watchers /\ t.watchers[w] \in Clients!Live
        /\ \A v \in Callers : t.calls[v].pc = "watching" => t.calls[v].watcher # w
    BY <1>2, <1>7, <1>8 DEF SameCalls, Clients!Live
  <1>10. ClientInv([t EXCEPT !.calls[u].pc = "watching", !.calls[u].watcher = w])
    BY <1>8, <1>9, WatchingKeeps
  <1> QED
    BY <1>4, <1>10 DEF w

WatcherGoes(s, w, status) == WatchersOf(s, [s.watchers EXCEPT ![w] = status], s.watcher, s.disturbed)

LEMMA InstallStep == ASSUME ClientInv(client), NEW u \in Callers, Clients!Install(u)
                     PROVE  ClientInv(client')
  <1> DEFINE w == client.calls[u].watcher
             watchers == [client.watchers EXCEPT ![w] = "installed"]
  <1>1. /\ client \in ClientState /\ client.watchers \in Seq(WatcherStatus) /\ client.disturbed \in BOOLEAN
        /\ client.calls[u].pc = "watching" /\ client.watchers[w] = "starting"
    BY DEF ClientInv, ClientState, WatcherStatus, Clients!Install, Clients!At, Clients!call
  <1>2. w \in DOMAIN client.watchers /\ client.watcher \in {0} \union DOMAIN client.watchers
    BY <1>1 DEF ClientInv, WatcherKnown
  <1>3. client' = WatchersOf(client, watchers, client.watcher, client.disturbed)
    BY <1>1 DEF Clients!Install, Clients!call, WatchersOf, ClientState
  <1>4. /\ watchers \in Seq(WatcherStatus) /\ DOMAIN watchers = DOMAIN client.watchers
        /\ \A x \in DOMAIN client.watchers : watchers[x] \in Clients!Live <=> client.watchers[x] \in Clients!Live
        /\ \A x \in DOMAIN client.watchers : watchers[x] = "active" => client.watchers[x] = "active"
    BY <1>1, <1>2 DEF WatcherStatus, Clients!Live
  <1> HIDE DEF watchers
  <1>5. \A v \in Callers : client.calls[v].pc = "watching" =>
            client.disturbed \/ watchers[client.calls[v].watcher] \in Clients!Live
    BY <1>4 DEF ClientInv, WatcherKnown
  <1>6. ~client.disturbed =>
            \A x \in DOMAIN watchers : watchers[x] \in {"active"} \union Clients!Live => x = client.watcher
    BY <1>4 DEF ClientInv, WatcherKnown
  <1> QED
    BY <1>1, <1>2, <1>3, <1>4, <1>5, <1>6, WatchersChange

\* A start is over, and its watcher active or stopped.
LEMMA StartedKeeps ==
    ASSUME ClientInv(client), NEW u \in Callers, client.calls[u].pc = "watching",
           NEW status \in {"active", "stopped"}
    PROVE  ClientInv(WatcherGoes(Clients!Ended(client, u), client.calls[u].watcher, status))
  <1> DEFINE s == Clients!Ended(client, u)
             w == client.calls[u].watcher
             watchers == [s.watchers EXCEPT ![w] = status]
  <1>1. client \in ClientState /\ w \in DOMAIN client.watchers
    BY DEF ClientInv, WatcherKnown
  <1>2. ClientInv(s)
    BY EndedKeeps
  <1>3. /\ s.watchers = client.watchers /\ s.watcher = client.watcher /\ s.disturbed = client.disturbed
        /\ s.calls[u] = Clients!Idle /\ \A v \in Callers \ {u} : s.calls[v] = client.calls[v]
    BY <1>1 DEF Clients!Ended, ClientState
  <1>4. s.calls[u].pc # "watching"
    BY <1>3, IdleType
  <1> HIDE DEF s, w
  <1>5. /\ s.watchers \in Seq(WatcherStatus) /\ s.disturbed \in BOOLEAN
        /\ s.watcher \in {0} \union DOMAIN s.watchers /\ w \in DOMAIN s.watchers
    BY <1>1, <1>2, <1>3 DEF ClientInv, ClientState, WatcherStatus, WatcherKnown, w
  <1>6. /\ watchers \in Seq(WatcherStatus) /\ DOMAIN watchers = DOMAIN s.watchers
        /\ \A x \in DOMAIN s.watchers \ {w} : watchers[x] = s.watchers[x]
    BY <1>5 DEF WatcherStatus
  <1> HIDE DEF watchers
  <1>7. \A v \in Callers : s.calls[v].pc = "watching" => s.disturbed \/ watchers[s.calls[v].watcher] \in Clients!Live
    <2>1. \A v \in Callers : s.calls[v].pc = "watching" => s.calls[v].watcher # w
      BY <1>3, <1>4 DEF ClientInv, WatcherKnown, w
    <2> QED
      BY <1>2, <1>6, <2>1 DEF ClientInv, WatcherKnown
  <1>8. ~s.disturbed => \A x \in DOMAIN watchers : watchers[x] \in {"active"} \union Clients!Live => x = s.watcher
    <2>1. ~s.disturbed => w = s.watcher
      BY <1>3 DEF ClientInv, WatcherKnown, w
    <2> QED
      BY <1>2, <1>6, <2>1 DEF ClientInv, WatcherKnown
  <1>9. ClientInv(WatchersOf(s, watchers, s.watcher, s.disturbed))
    BY <1>2, <1>5, <1>6, <1>7, <1>8, WatchersChange
  <1> QED
    BY <1>9 DEF WatcherGoes, s, w, watchers

LEMMA StartedStep == ASSUME ClientInv(client), NEW u \in Callers, Clients!Started(u)
                     PROVE  ClientInv(client')
  <1> DEFINE w == client.calls[u].watcher
             active == WatcherGoes(Clients!Ended(client, u), w, "active")
             stopped == WatcherGoes(Clients!Ended(client, u), w, "stopped")
  <1>1. client.calls[u].pc = "watching" /\ client \in ClientState /\ w \in DOMAIN client.watchers
    BY DEF ClientInv, Clients!Started, Clients!At, Clients!call, WatcherKnown
  <1>2. ClientInv(active) /\ ClientInv(stopped)
    BY <1>1, StartedKeeps
  <1>3. Clients!Ended([client EXCEPT !.watchers[w] = "active"], u) = active
    BY <1>1 DEF WatcherGoes, WatchersOf, Clients!Ended, ClientState
  <1>4. Clients!Ended(Clients!StopWatcher([client EXCEPT !.watchers[w] = "stopped"]), u) = Clients!StopWatcher(stopped)
    <2> DEFINE x == [client EXCEPT !.watchers[w] = "stopped"]
    <2>1. stopped = Clients!Ended(x, u)
      BY <1>1 DEF WatcherGoes, WatchersOf, Clients!Ended, ClientState
    <2>2. x \in ClientState
      <3> DEFINE watchers == [client.watchers EXCEPT ![w] = "stopped"]
      <3>1. watchers \in Seq(Clients!Live \union {"active", "stopped"})
        BY <1>1 DEF ClientState
      <3>2. x = [client EXCEPT !.watchers = watchers]
        BY <1>1 DEF ClientState
      <3> HIDE DEF watchers, x
      <3> QED
        BY <1>1, <3>1, <3>2 DEF ClientState
    <2> HIDE DEF x
    <2>3. Clients!Ended(Clients!StopWatcher(x), u) = Clients!StopWatcher(Clients!Ended(x, u))
      BY <2>2 DEF Clients!Ended, Clients!StopWatcher, ClientState
    <2> QED
      BY <2>1, <2>3 DEF x
  <1>5. ClientInv(Clients!StopWatcher(stopped))
    BY <1>2, StopWatcherKeeps
  <1> QED
    BY <1>2, <1>3, <1>4, <1>5 DEF Clients!Started, Clients!call
-----------------------------------------------------------------------------
(* Closing. *)

Draining(s, u) == [s EXCEPT !.calls[u].pc = "draining", !.calls[u].waits = s.jobs, !.closing = TRUE]

LEMMA DrainingKeeps ==
    ASSUME NEW s, ClientInv(s), NEW u \in Callers, s.calls[u].pc \in QuietCall, ~s.closed
    PROVE  ClientInv(Draining(s, u))
  <1> DEFINE c == [s.calls[u] EXCEPT !.pc = "draining", !.waits = s.jobs]
             t == [s EXCEPT !.calls = [s.calls EXCEPT ![u] = c], !.closing = TRUE]
  <1>1. s \in ClientState /\ s.jobs \in Nat /\ s.calls \in [Callers -> CallType] /\ s.calls[u] \in CallType
    BY DEF ClientInv, ClientState
  <1>2. /\ c \in CallType /\ c.pc = "draining" /\ c.waits = s.jobs
        /\ c.runs = s.calls[u].runs /\ c.repos = s.calls[u].repos
    BY <1>1 DEF CallType, Pcs
  <1>3. c.runs <= s.runs /\ c.repos <= s.repos
    BY <1>2 DEF ClientInv, AnswersCurrent
  <1>4. Draining(s, u) = t
    BY <1>1 DEF Draining, ClientState
  <1> HIDE DEF c
  <1>5. /\ t \in ClientState /\ SameOthers(s, t, u) /\ t.calls[u] = c
        /\ SameConnections(s, t) /\ SameJobs(s, t) /\ SameAnswers(s, t) /\ SameWatchers(s, t)
        /\ t.closing = TRUE
    BY <1>1, <1>2 DEF ClientState, SameOthers, SameConnections, SameJobs, SameAnswers, SameWatchers
  <1> HIDE DEF t
  <1>6. Goes(s, t, u)
    BY <1>1, <1>2, <1>3, <1>5 DEF Goes
  <1>7. /\ ~Busy(t, u)
        /\ \A v \in Callers \ {u} : t.calls[v] = s.calls[v] /\ (Busy(t, v) <=> Busy(s, v))
                  /\ (RunningJob(t, v) <=> RunningJob(s, v))
    BY <1>2, <1>5 DEF Busy, RunningJob, SameOthers
  <1>8. Connected(t) /\ AnswersCurrent(t) /\ WatcherKnown(t)
    BY <1>2, <1>5, <1>6, JobLeaves DEF QuietCall
  <1>9. QueueKept(t)
    <2>1. \A v \in Callers : Busy(t, v) =>
              /\ Busy(s, v) /\ t.calls[v].job = s.calls[v].job
              /\ RunningJob(t, v) => Head(s.queue) = s.calls[v].job
      BY <1>7 DEF ClientInv, QueueKept
    <2> QED
      BY <1>5, <2>1, JobsKept DEF ClientInv
  <1>10. EarlyServed(t)
    <2>1. \A v \in Callers : Busy(t, v) => v # u /\ Busy(s, v) /\ s.calls[v].job <= s.jobs
      BY <1>7 DEF ClientInv, QueueKept
    <2>2. ASSUME NEW v \in Callers, NEW w \in Callers, Busy(t, v), t.calls[v].early
          PROVE  /\ t.calls[w].pc = "draining" => t.calls[v].job <= t.calls[w].waits
                 /\ ~t.closed /\ t.calls[w].pc # "closing"
      <3>1. t.calls[v] = s.calls[v] /\ Busy(s, v) /\ s.calls[v].job <= s.jobs
        BY <1>7, <2>1, <2>2
      <3>2. CASE w = u
        BY <1>2, <1>5, <2>2, <3>1, <3>2 DEF SameConnections
      <3>3. CASE w # u
        BY <1>5, <1>7, <2>2, <3>1, <3>3 DEF ClientInv, EarlyServed, SameConnections
      <3> QED
        BY <3>2, <3>3
    <2>3. \A v \in Callers :
              t.calls[v].pc = "indexing" /\ t.calls[v].early => t.conns[t.calls[v].db] = "open"
      BY <1>2, <1>5, <1>7 DEF ClientInv, EarlyServed, SameConnections
    <2> QED
      BY <1>5, <2>2, <2>3 DEF EarlyServed
  <1> QED
    BY <1>4, <1>5, <1>8, <1>9, <1>10 DEF ClientInv

\* Nobody whose run was accepted before waits any more.
NoneEarly(s) == \A v \in Callers : ~(Busy(s, v) /\ s.calls[v].early)

LEMMA DrainedMeansServed ==
    ASSUME NEW s, ClientInv(s), NEW u \in Callers, s.calls[u].pc = "draining", Clients!Drained(s, u)
    PROVE  NoneEarly(s)
  <1> SUFFICES ASSUME NEW v \in Callers, Busy(s, v), s.calls[v].early PROVE FALSE
    BY DEF NoneEarly
  <1>1. PICK k \in DOMAIN s.queue : s.queue[k] = s.calls[v].job
    BY DEF ClientInv, QueueKept
  <1>2. s.calls[v].job <= s.calls[u].waits
    BY DEF ClientInv, EarlyServed
  <1>3. s.queue[k] > s.calls[u].waits
    BY DEF Clients!Drained
  <1>4. s.calls[v].job \in Nat /\ s.calls[u].waits \in Nat
    BY DEF ClientInv, ClientState, CallType
  <1> QED
    BY <1>1, <1>2, <1>3, <1>4

\* The state of a caller and the connections change together.
Shuts(s, t, u) ==
    /\ s \in ClientState /\ t \in ClientState /\ SameOthers(s, t, u)
    /\ t.calls[u].pc \in {"idle", "closing"}
    /\ t.calls[u].runs <= s.runs /\ t.calls[u].repos <= s.repos
    /\ t.closing = s.closing /\ t.loads = s.loads /\ t.planning = s.planning
    /\ t.runs = s.runs /\ t.repos = s.repos /\ t.gate \in {0, s.gate}
    /\ SameJobs(s, t) /\ SameWatchers(s, t)

\* What does not depend on the connections.
LEMMA ShutKeeps ==
    ASSUME NEW s, ClientInv(s), s.closing, NoneEarly(s), NEW u \in Callers, NEW t, Shuts(s, t, u)
    PROVE  QueueKept(t) /\ EarlyServed(t) /\ AnswersCurrent(t) /\ WatcherKnown(t)
  <1>1. /\ ~Busy(t, u)
        /\ \A v \in Callers \ {u} : t.calls[v] = s.calls[v] /\ (Busy(t, v) <=> Busy(s, v))
                  /\ (RunningJob(t, v) <=> RunningJob(s, v))
    BY DEF Busy, RunningJob, Shuts, SameOthers
  <1>2. QueueKept(t)
    <2>1. \A v \in Callers : Busy(t, v) =>
              /\ Busy(s, v) /\ t.calls[v].job = s.calls[v].job
              /\ RunningJob(t, v) => Head(s.queue) = s.calls[v].job
      BY <1>1 DEF ClientInv, QueueKept
    <2> QED
      BY <2>1, JobsKept DEF ClientInv, Shuts
  <1>3. EarlyServed(t)
    <2>1. \A v \in Callers : ~(Busy(t, v) /\ t.calls[v].early)
      BY <1>1 DEF NoneEarly
    <2>2. \A v \in Callers : t.calls[v].pc = "indexing" => Busy(t, v)
      BY DEF Busy
    <2> QED
      BY <2>1, <2>2 DEF EarlyServed, Shuts
  <1>4. AnswersCurrent(t)
    BY <1>1 DEF ClientInv, AnswersCurrent, Shuts
  <1>5. WatcherKnown(t)
    BY <1>1, WatchersKept DEF ClientInv, Shuts
  <1> QED
    BY <1>2, <1>3, <1>4, <1>5

\* What was open is closed now, and what is being opened is leaked.
ClosedWith(s, u, conns) == Clients!Closed([s EXCEPT !.conns = conns], u)
LeakedBy(s, conns) == s.leaked \/ \E c \in DOMAIN conns : conns[c] \in Clients!Opening

LEMMA ClosedFields ==
    ASSUME NEW s, ClientInv(s), NEW u \in Callers, NEW conns \in Seq(ConnectionStatus)
    PROVE  LET t == ClosedWith(s, u, conns)
           IN /\ Shuts(s, t, u) /\ t.calls[u].pc = "idle"
              /\ t.conns = conns /\ t.instance = 0 /\ t.promise = 0 /\ t.closed
              /\ t.leaked = LeakedBy(s, conns)
  <1> DEFINE leaked == LeakedBy(s, conns)
             t == [s EXCEPT !.conns = conns, !.instance = 0, !.promise = 0, !.gate = 0, !.closed = TRUE,
                            !.leaked = leaked, !.calls = [s.calls EXCEPT ![u] = Clients!Idle]]
  <1>1. s \in ClientState /\ leaked \in BOOLEAN /\ s.runs \in Nat /\ s.repos \in Nat
    BY DEF ClientInv, ClientState, LeakedBy
  <1>2. ClosedWith(s, u, conns) = t
    BY <1>1 DEF ClosedWith, Clients!Closed, Clients!Ended, LeakedBy, ClientState
  <1> HIDE DEF leaked
  <1>3. /\ t \in ClientState /\ t.calls[u] = Clients!Idle /\ SameOthers(s, t, u)
        /\ t.conns = conns /\ t.instance = 0 /\ t.promise = 0 /\ t.gate = 0 /\ t.closed = TRUE
        /\ t.leaked = leaked
        /\ t.closing = s.closing /\ t.loads = s.loads /\ t.planning = s.planning
        /\ t.runs = s.runs /\ t.repos = s.repos
        /\ SameJobs(s, t) /\ SameWatchers(s, t)
    BY <1>1, IdleType DEF ClientState, ConnectionStatus, SameOthers, SameJobs, SameWatchers
  <1> HIDE DEF t
  <1>4. Shuts(s, t, u)
    BY <1>1, <1>3, IdleType DEF Shuts
  <1> QED
    BY <1>2, <1>3, <1>4, IdleType DEF leaked

LEMMA ClosedKeeps ==
    ASSUME NEW s, ClientInv(s), s.closing, NoneEarly(s), NEW u \in Callers,
           NEW conns \in Seq(ConnectionStatus), DOMAIN conns = DOMAIN s.conns,
           \A c \in DOMAIN conns : conns[c] \notin {"open", "closing"},
           \A c \in DOMAIN conns : conns[c] = s.conns[c] \/ conns[c] = "closed"
    PROVE  ClientInv(ClosedWith(s, u, conns))
  <1> DEFINE t == ClosedWith(s, u, conns)
  <1>1. /\ Shuts(s, t, u) /\ t.calls[u].pc = "idle"
        /\ t.conns = conns /\ t.instance = 0 /\ t.promise = 0 /\ t.closed
        /\ t.leaked = LeakedBy(s, conns)
    BY ClosedFields
  <1> HIDE DEF t
  <1>2. \A v \in Callers \ {u} : t.calls[v] = s.calls[v]
    BY <1>1 DEF Shuts, SameOthers
  <1>3. \A c \in DOMAIN conns : IsHeld(t, c) => IsHeld(s, c) /\ conns[c] = s.conns[c] /\ conns[c] \in Clients!Opening
    BY <1>1 DEF IsHeld, Clients!Held, Clients!Opening
  <1>4. References(t)
    BY <1>1, <1>2 DEF ClientInv, Connected, References, Shuts
  <1>5. OneHeld(t)
    BY <1>1, <1>3 DEF ClientInv, Connected, OneHeld
  <1>6. InstanceOpen(t)
    BY <1>1 DEF InstanceOpen
  <1>7. Closings(t)
    <2>1. ASSUME NEW v \in Callers, t.calls[v].pc = "closing"
          PROVE  conns[t.calls[v].db] = "closed" /\ \A d \in DOMAIN conns : ~IsHeld(t, d)
      <3> DEFINE c == s.calls[v].db
      <3>1. v # u /\ t.calls[v] = s.calls[v] /\ c \in DOMAIN conns
        BY <1>1, <1>2, <2>1 DEF ClientInv, Connected, References
      <3>2. CASE s.conns[c] \in {"open", "closing"}
        <4>1. conns[c] = "closed"
          BY <3>1, <3>2
        <4>2. \A d \in DOMAIN conns : IsHeld(s, d) => d = c
          BY <3>1, <3>2 DEF ClientInv, Connected, OneHeld, IsHeld, Clients!Held
        <4> QED
          BY <1>3, <3>1, <4>1, <4>2 DEF Clients!Opening
      <3>3. CASE s.conns[c] = "closed" /\ \A d \in DOMAIN s.conns : ~IsHeld(s, d)
        BY <1>3, <3>1, <3>3
      <3> QED
        BY <2>1, <3>1, <3>2, <3>3 DEF ClientInv, Connected, Closings
    <2> QED
      BY <1>1, <2>1 DEF Closings
  <1>8. Released(t)
    BY <1>1, <1>3 DEF Released, LeakedBy
  <1>9. QueueKept(t) /\ EarlyServed(t) /\ AnswersCurrent(t) /\ WatcherKnown(t)
    BY <1>1, ShutKeeps
  <1> QED
    BY <1>1, <1>4, <1>5, <1>6, <1>7, <1>8, <1>9 DEF ClientInv, Connected, Shuts, t

\* The open connection begins to close, or will not.
Shutting(s, u, c, conns) == [s EXCEPT !.conns = conns, !.calls = [s.calls EXCEPT ![u] = c]]

LEMMA ShuttingKeeps ==
    ASSUME NEW s, ClientInv(s), s.closing, NoneEarly(s), NEW u \in Callers, NEW c \in CallType,
           c.runs <= s.runs, c.repos <= s.repos,
           s.instance # 0, NEW status,
           \/ status = "closing" /\ c.pc = "closing" /\ c.db = s.instance
           \/ status = "open" /\ c.pc = "idle"
    PROVE  ClientInv(Shutting(s, u, c, [s.conns EXCEPT ![s.instance] = status]))
  <1> DEFINE conns == [s.conns EXCEPT ![s.instance] = status]
             t == Shutting(s, u, c, conns)
  <1>1. /\ s \in ClientState /\ s.conns \in Seq(ConnectionStatus) /\ s.instance \in DOMAIN s.conns
        /\ s.conns[s.instance] \in {"open", "closing"}
    BY DEF ClientInv, ClientState, ConnectionStatus, Connected, InstanceOpen
  <1>2. /\ conns \in Seq(ConnectionStatus) /\ DOMAIN conns = DOMAIN s.conns /\ conns[s.instance] = status
        /\ \A d \in DOMAIN s.conns \ {s.instance} : conns[d] = s.conns[d]
    <2>1. status \in ConnectionStatus
      BY DEF ConnectionStatus, Clients!Heard
    <2> QED
      BY <1>1, <2>1
  <1> HIDE DEF conns
  <1>3. /\ t \in ClientState /\ SameOthers(s, t, u) /\ t.calls[u] = c
        /\ t.conns = conns /\ t.instance = s.instance /\ t.promise = s.promise
        /\ t.gate = s.gate /\ t.closed = s.closed /\ t.leaked = s.leaked
        /\ t.closing = s.closing /\ t.loads = s.loads /\ t.planning = s.planning
        /\ t.runs = s.runs /\ t.repos = s.repos
        /\ SameJobs(s, t) /\ SameWatchers(s, t)
    BY <1>1, <1>2 DEF Shutting, ClientState, ConnectionStatus, SameOthers, SameJobs, SameWatchers
  <1> HIDE DEF t
  <1>4. Shuts(s, t, u)
    BY <1>1, <1>3 DEF Shuts
  <1>5. \A v \in Callers \ {u} : t.calls[v] = s.calls[v]
    BY <1>3 DEF SameOthers
  <1>6. \A d \in DOMAIN s.conns : s.conns[d] \in {"open", "closing"} <=> d = s.instance
    BY <1>1 DEF ClientInv, Connected, InstanceOpen
  <1>7. \A d \in DOMAIN s.conns : IsHeld(t, d) <=> IsHeld(s, d)
    BY <1>1, <1>2, <1>3 DEF IsHeld, Clients!Held
  <1>8. IsHeld(s, s.instance)
    BY <1>1 DEF IsHeld, Clients!Held
  <1>9. References(t)
    BY <1>1, <1>2, <1>3, <1>5 DEF ClientInv, Connected, References
  <1>10. OneHeld(t) /\ Released(t)
    BY <1>2, <1>3, <1>7 DEF ClientInv, Connected, OneHeld, Released
  <1>11. InstanceOpen(t)
    BY <1>1, <1>2, <1>3, <1>6 DEF InstanceOpen
  <1>12. Closings(t)
    <2>1. ASSUME NEW v \in Callers, t.calls[v].pc = "closing"
          PROVE  t.calls[v].db = s.instance
      <3>1. CASE v = u
        BY <1>3, <2>1, <3>1
      <3>2. CASE v # u
        BY <1>1, <1>5, <1>6, <1>8, <2>1, <3>2 DEF ClientInv, Connected, References, Closings
      <3> QED
        BY <3>1, <3>2
    <2>2. \A d \in DOMAIN t.conns : t.conns[d] = "closing" =>
             d = s.instance /\ t.calls[u].pc = "closing" /\ t.calls[u].db = d
      BY <1>2, <1>3, <1>6
    <2>3. \A d \in DOMAIN t.conns : t.conns[d] = "closed" => s.conns[d] = "closed"
      BY <1>2, <1>3
    <2> QED
      BY <1>2, <1>3, <2>1, <2>2, <2>3 DEF ClientInv, Connected, Closings
  <1>13. QueueKept(t) /\ EarlyServed(t) /\ AnswersCurrent(t) /\ WatcherKnown(t)
    BY <1>4, ShutKeeps
  <1> QED
    BY <1>3, <1>9, <1>10, <1>11, <1>12, <1>13 DEF ClientInv, Connected, t, conns

LEMMA DrainStep == ASSUME ClientInv(client), NEW u \in Callers, Clients!Drain(u) PROVE ClientInv(client')
  <1>1. client.calls[u].pc = "draining" /\ Clients!Drained(client, u) /\ client \in ClientState
    BY DEF Clients!Drain, Clients!At, Clients!call, ClientInv
  <1>2. NoneEarly(client) /\ client.closing
    BY <1>1, DrainedMeansServed DEF ClientInv, EarlyServed
  <1>3. CASE client.instance = 0
    <2>1. /\ client.conns \in Seq(ConnectionStatus)
          /\ \A c \in DOMAIN client.conns : client.conns[c] \notin {"open", "closing"}
      BY <1>1, <1>3 DEF ClientInv, ClientState, ConnectionStatus, Connected, InstanceOpen
    <2>2. client = [client EXCEPT !.conns = client.conns]
      BY <1>1 DEF ClientState
    <2>3. client' = ClosedWith(client, u, client.conns)
      BY <1>3, <2>2 DEF Clients!Drain, ClosedWith
    <2> QED
      BY <1>2, <2>1, <2>3, ClosedKeeps
  <1>4. CASE client.instance # 0
    <2> DEFINE c == [client.calls[u] EXCEPT !.pc = "closing", !.db = client.instance]
    <2>1. client.calls \in [Callers -> CallType] /\ client.calls[u] \in CallType /\ client.instance \in Nat
      BY <1>1 DEF ClientState
    <2>2. /\ c \in CallType /\ c.pc = "closing" /\ c.db = client.instance
          /\ c.runs = client.calls[u].runs /\ c.repos = client.calls[u].repos
      BY <2>1 DEF CallType, Pcs
    <2>3. client' = Shutting(client, u, c, [client.conns EXCEPT ![client.instance] = "closing"])
      BY <1>1, <1>4, <2>1 DEF Clients!Drain, Shutting, ClientState
    <2> HIDE DEF c
    <2>4. c.runs <= client.runs /\ c.repos <= client.repos
      BY <2>2 DEF ClientInv, AnswersCurrent
    <2> QED
      BY <1>2, <1>4, <2>2, <2>3, <2>4, ShuttingKeeps
  <1> QED
    BY <1>3, <1>4

LEMMA CloseStep == ASSUME ClientInv(client), NEW u \in Callers, Clients!Close(u) PROVE ClientInv(client')
  <1> DEFINE c == client.calls[u].db
  <1>1. /\ client.calls[u].pc = "closing" /\ client \in ClientState /\ c \in DOMAIN client.conns
        /\ client.conns \in Seq(ConnectionStatus)
    BY DEF Clients!Close, Clients!At, Clients!call, ClientInv, ClientState, ConnectionStatus, Connected,
       References
  <1>2. NoneEarly(client) /\ client.closing
    BY <1>1 DEF ClientInv, EarlyServed, NoneEarly
  <1>3. CASE client' = Clients!Closed([client EXCEPT !.conns[c] = "closed"], u)
    <2> DEFINE conns == [client.conns EXCEPT ![c] = "closed"]
    <2>1. client' = ClosedWith(client, u, conns)
      BY <1>1, <1>3 DEF ClosedWith, ClientState
    <2>2. /\ conns \in Seq(ConnectionStatus) /\ DOMAIN conns = DOMAIN client.conns
          /\ conns[c] = "closed" /\ \A d \in DOMAIN conns \ {c} : conns[d] = client.conns[d]
      BY <1>1 DEF ConnectionStatus, Clients!Heard
    <2> HIDE DEF conns
    <2>3. \A d \in DOMAIN client.conns : client.conns[d] \in {"open", "closing"} => d = c
      BY <1>1 DEF ClientInv, Connected, Closings, OneHeld, IsHeld, Clients!Held
    <2>4. \A d \in DOMAIN conns :
             conns[d] \notin {"open", "closing"} /\ (conns[d] = client.conns[d] \/ conns[d] = "closed")
      BY <2>2, <2>3
    <2> QED
      BY <1>2, <2>1, <2>2, <2>4, ClosedKeeps
  <1>4. CASE client.conns[c] = "closing" /\ client' = Clients!Ended([client EXCEPT !.conns[c] = "open"], u)
    <2>1. client.instance = c /\ c # 0
      BY <1>1, <1>4 DEF ClientInv, Connected, InstanceOpen
    <2>2. client' = Shutting(client, u, Clients!Idle, [client.conns EXCEPT ![client.instance] = "open"])
      BY <1>1, <1>4, <2>1 DEF Clients!Ended, Shutting, ClientState
    <2>3. Clients!Idle \in CallType /\ Clients!Idle.pc = "idle" /\ Clients!Idle.runs <= client.runs
              /\ Clients!Idle.repos <= client.repos
      BY <1>1, IdleType DEF ClientState
    <2> QED
      BY <1>2, <2>1, <2>2, <2>3, ShuttingKeeps
  <1> QED
    BY <1>3, <1>4 DEF Clients!Close, Clients!call
-----------------------------------------------------------------------------
(* A call begins. *)

LEMMA CalledFields ==
    ASSUME client \in ClientState, NEW u, NEW op
    PROVE  /\ Clients!Called(op, u).watcher = client.watcher /\ Clients!Called(op, u).closed = client.closed
           /\ Clients!Called(op, u).gate = client.gate
  BY DEF Clients!Called, ClientState

LEMMA BeginCloseKeeps ==
    ASSUME NEW s, ClientInv(s), NEW u \in Callers, s.calls[u].pc = "idle"
    PROVE  LET t == Clients!BeginClose(s, u) IN ClientInv(IF t.calls[u].pc = "idle" THEN Clients!Ended(t, u) ELSE t)
  <1>1. /\ ClientInv(Clients!StopWatcher(s)) /\ SameCalls(s, Clients!StopWatcher(s))
             /\ Clients!StopWatcher(s).closed = s.closed
        /\ Clients!StopWatcher(s).jobs = s.jobs
    BY StopWatcherKeeps
  <1>2. Clients!StopWatcher(s).calls[u].pc = "idle"
    BY <1>1 DEF SameCalls
  <1>3. CASE s.closed
    BY <1>1, <1>2, <1>3, EndedKeeps DEF Clients!BeginClose
  <1>4. CASE ~s.closed
    <2>1. Clients!BeginClose(s, u) = Draining(Clients!StopWatcher(s), u)
      BY <1>1, <1>4 DEF Clients!BeginClose, Draining
    <2>2. ClientInv(Draining(Clients!StopWatcher(s), u))
      BY <1>1, <1>2, <1>4, DrainingKeeps DEF QuietCall
    <2>3. Draining(Clients!StopWatcher(s), u).calls[u].pc = "draining"
      <3>1. Clients!StopWatcher(s).calls \in [Callers -> CallType] /\ Clients!StopWatcher(s).calls[u] \in CallType
            /\ Clients!StopWatcher(s) \in ClientState
        BY <1>1 DEF ClientInv, ClientState
      <3> QED
        BY <3>1 DEF Draining, ClientState, CallType
    <2> QED
      BY <2>1, <2>2, <2>3
  <1> QED
    BY <1>3, <1>4

LEMMA BeginStep ==
    ASSUME Clients!OperationsAssumption, ClientInv(client), NEW u \in Callers, Clients!Begin(u)
    PROVE  ClientInv(client')
  <1>1. Clients!At(u, "idle") /\ client \in ClientState
    BY DEF Clients!Begin, ClientInv
  <1>2. \A op \in Names : /\ ClientInv(Clients!Called(op, u))
                          /\ Clients!Called(op, u).calls[u].pc = "idle" /\ Clients!Called(op, u).calls[u].op = op
    BY <1>1, CalledKeeps
  <1>3. "idle" \in QuietCall /\ "discovering" \in QuietCall
    BY DEF QuietCall
  <1>4. PICK op \in Operations :
         CASE op \in {"read", "impact", "ask"} -> client' = Clients!GetDb(Clients!Called(op, u), u)
           [] op = "index" -> client' = Clients!Enqueued(Clients!Called(op, u), u)
           [] op = "status" -> client' = Clients!GetGate(Clients!Called(op, u), u)
           [] op = "refresh" -> client' = Clients!GetGate([Clients!Called(op, u) EXCEPT !.gate =
                     IF client.closed THEN @ ELSE 0], u)
           [] op = "addRepo" -> client' = Clients!Ended(Clients!Configured(Clients!Called(op, u)), u)
           [] op = "addRepos" -> client' = [Clients!Called("index", u) EXCEPT !.calls[u].pc = "discovering"]
           [] op = "watch" -> client' = IF client.watcher # 0 THEN Clients!Ended(Clients!Called(op, u), u)
                     ELSE Clients!Watch(Clients!Called(op, u), u)
           [] op = "unwatch" -> client' = Clients!Ended(Clients!StopWatcher(Clients!Called(op, u)), u)
           [] op = "close" -> client' = LET s == Clients!BeginClose(Clients!Called(op, u), u)
                                        IN IF s.calls[u].pc = "idle" THEN Clients!Ended(s, u) ELSE s
    BY DEF Clients!Begin
  <1> DEFINE s == Clients!Called(op, u)
  <1>5. ClientInv(s) /\ s.calls[u].pc = "idle" /\ s.calls[u].op = op
    BY <1>2 DEF Names
  <1>6. s.watcher = client.watcher /\ s.closed = client.closed /\ s.gate = client.gate
    BY <1>1, CalledFields
  <1>7. CASE op \in {"read", "impact", "ask"}
    <2>1. client' = Clients!GetDb(s, u)
      BY <1>4, <1>7
    <2> QED
      BY <1>3, <1>5, <1>7, <2>1, GetDbKeeps
  <1>8. CASE op = "index"
    <2>1. client' = Clients!Enqueued(s, u)
      BY <1>4, <1>8
    <2> QED
      BY <1>3, <1>5, <2>1, EnqueuedKeeps
  <1>9. CASE op = "status"
    <2>1. client' = Clients!GetGate(s, u)
      BY <1>4, <1>9
    <2> QED
      BY <1>5, <1>9, <2>1, GetGateKeeps
  <1>10. CASE op = "refresh"
    <2> DEFINE gate == IF client.closed THEN s.gate ELSE 0
               t == AnswersOf(s, s.loads, gate, s.planning, s.runs, s.repos)
    <2>1. client' = Clients!GetGate([s EXCEPT !.gate = gate], u)
      BY <1>4, <1>10
    <2>2. [s EXCEPT !.gate = gate] = t
      BY <1>5 DEF AnswersOf, ClientInv, ClientState
    <2>3. ClientInv(t) /\ SameCalls(s, t)
      BY <1>5, Forgotten
    <2> HIDE DEF t
    <2> QED
      BY <1>5, <1>10, <2>1, <2>2, <2>3, GetGateKeeps DEF SameCalls
  <1>11. CASE op = "addRepo"
    <2>1. client' = Clients!Ended(Clients!Configured(s), u)
      BY <1>4, <1>11
    <2> QED
      BY <1>5, <2>1, ConfiguredKeeps, EndedKeeps DEF SameCalls
  <1>12. CASE op = "addRepos"
    <2>1. client' = [Clients!Called("index", u) EXCEPT !.calls[u].pc = "discovering"]
      BY <1>4, <1>12
    <2>2. ClientInv(Clients!Called("index", u)) /\ Clients!Called("index", u).calls[u].pc = "idle"
      BY <1>2 DEF Names
    <2> QED
      BY <1>3, <2>1, <2>2, RestKeeps
  <1>13. CASE op = "watch"
    <2>1. client' = IF client.watcher # 0 THEN Clients!Ended(s, u) ELSE Clients!Watch(s, u)
      BY <1>4, <1>13
    <2> QED
      BY <1>3, <1>5, <1>6, <2>1, EndedKeeps, WatchKeeps
  <1>14. CASE op = "unwatch"
    <2>1. client' = Clients!Ended(Clients!StopWatcher(s), u)
      BY <1>4, <1>14
    <2> QED
      BY <1>5, <2>1, StopWatcherKeeps, EndedKeeps DEF SameCalls
  <1>15. CASE op = "close"
    <2> DEFINE t == Clients!BeginClose(s, u)
    <2>1. client' = IF t.calls[u].pc = "idle" THEN Clients!Ended(t, u) ELSE t
      BY <1>4, <1>15
    <2>2. ClientInv(IF t.calls[u].pc = "idle" THEN Clients!Ended(t, u) ELSE t)
      BY <1>5, BeginCloseKeeps
    <2> QED
      BY <2>1, <2>2
  <1> QED
    BY <1>7, <1>8, <1>9, <1>10, <1>11, <1>12, <1>13, <1>14, <1>15 DEF Clients!OperationsAssumption
-----------------------------------------------------------------------------
(* All of it. *)

LEMMA FreshKeeps == ClientInv(Clients!Fresh)
  <1> DEFINE f == Clients!Fresh
  <1>1. /\ f.conns = <<>> /\ f.promise = 0 /\ f.instance = 0 /\ f.closed = FALSE /\ f.queue = <<>>
        /\ f.jobs = 0 /\ f.loads = <<>> /\ f.gate = 0 /\ f.planning = 0 /\ f.runs = 0 /\ f.repos = 0
        /\ f.watchers = <<>> /\ f.watcher = 0 /\ f.made = 0
        /\ f.closing = FALSE /\ f.leaked = FALSE /\ f.disturbed = FALSE
    BY DEF Clients!Fresh
  <1>2. f.calls = [u \in Callers |-> Clients!Idle]
    BY DEF Clients!Fresh
  <1>3. f.calls \in [Callers -> CallType] /\ \A u \in Callers : f.calls[u] = Clients!Idle
    BY <1>2, IdleType
  <1>4. f \in ClientState
    <2>1. f = [conns |-> f.conns, promise |-> f.promise, instance |-> f.instance, closed |-> f.closed,
               queue |-> f.queue, jobs |-> f.jobs, loads |-> f.loads, gate |-> f.gate,
               planning |-> f.planning, runs |-> f.runs, repos |-> f.repos, watchers |-> f.watchers,
               watcher |-> f.watcher, calls |-> f.calls, made |-> f.made, closing |-> f.closing,
               leaked |-> f.leaked, disturbed |-> f.disturbed]
      BY DEF Clients!Fresh
    <2> HIDE DEF f
    <2>2. /\ f.conns \in Seq(Clients!Opening \union Clients!Heard \union {"failed"}) /\ f.queue \in Seq(Nat)
          /\ f.loads \in Seq(LoadType) /\ f.watchers \in Seq(Clients!Live \union {"active", "stopped"})
      BY <1>1
    <2>3. /\ f.promise \in Nat /\ f.instance \in Nat /\ f.jobs \in Nat /\ f.gate \in Nat
          /\ f.planning \in Nat /\ f.runs \in Nat /\ f.repos \in Nat /\ f.watcher \in Nat /\ f.made \in Nat
      BY <1>1
    <2>4. /\ f.closed \in BOOLEAN /\ f.closing \in BOOLEAN /\ f.leaked \in BOOLEAN /\ f.disturbed \in BOOLEAN
      BY <1>1
    <2> QED
      BY <1>3, <2>1, <2>2, <2>3, <2>4 DEF ClientState
  <1> HIDE DEF f
  <1>5. DOMAIN f.conns = {} /\ DOMAIN f.loads = {} /\ DOMAIN f.watchers = {}
    BY <1>1
  <1>6. \A u \in Callers : f.calls[u].pc = "idle" /\ f.calls[u].runs = 0 /\ f.calls[u].repos = 0
    BY <1>3, IdleType
  <1>7. Connected(f)
    BY <1>1, <1>5, <1>6 DEF Connected, References, OneHeld, InstanceOpen, Closings, Released
  <1>8. QueueKept(f) /\ EarlyServed(f)
    BY <1>1, <1>6 DEF QueueKept, EarlyServed, Busy, RunningJob
  <1>9. AnswersCurrent(f) /\ WatcherKnown(f)
    BY <1>1, <1>5, <1>6 DEF AnswersCurrent, WatcherKnown
  <1> QED
    BY <1>4, <1>7, <1>8, <1>9 DEF ClientInv, f

LEMMA NextKeeps == ASSUME Clients!OperationsAssumption, ClientInv(client), Clients!Next
                   PROVE  ClientInv(client')
  <1>1. CASE \E u \in Callers :
               \/ Clients!Begin(u) \/ Clients!GotDb(u) \/ Clients!Used(u) \/ Clients!Planned(u) \/ Clients!Gated(u) \/ Clients!Answered(u)
               \/ Clients!Run(u) \/ Clients!RunEnds(u) \/ Clients!Return(u) \/ Clients!Discovered(u)
               \/ Clients!Install(u) \/ Clients!Started(u) \/ Clients!Drain(u) \/ Clients!Close(u)
    BY <1>1, BeginStep, GotDbStep, UsedStep, PlannedStep, GatedStep, AnsweredStep, RunStep,
       RunEndsStep, ReturnStep, DiscoveredStep, InstallStep, StartedStep, DrainStep, CloseStep
  <1>2. CASE \E c \in DOMAIN client.conns : Clients!Open(c)
    BY <1>2, OpenStep
  <1>3. CASE \E l \in DOMAIN client.loads : Clients!Load(l)
    BY <1>3, LoadStep
  <1>4. CASE Clients!Renew
    BY <1>4, FreshKeeps DEF Clients!Renew
  <1> QED
    BY <1>1, <1>2, <1>3, <1>4 DEF Clients!Next

\* At every await: one connection at a time, which is there for every index run
\* accepted before close and is released by it; answers as recent as the
\* question; and no watcher that the client does not know (client.ts).
THEOREM ClientsKeepOrder == ASSUME Clients!OperationsAssumption
                            PROVE  Clients!Spec => []Clients!ClientKeepsOrder
<1>1. Clients!Init => ClientInv(client)
  BY FreshKeeps DEF Clients!Init
<1>2. ClientInv(client) /\ [Clients!Next]_client => ClientInv(client)'
  BY NextKeeps
<1>3. ClientInv(client) => Clients!ClientKeepsOrder
  <2> SUFFICES ASSUME ClientInv(client) PROVE Clients!ClientKeepsOrder
    OBVIOUS
  <2>1. Clients!OneConnection
    BY DEF Clients!OneConnection, ClientInv, Connected, OneHeld, IsHeld
  <2>2. Clients!AcceptedRunsAreServed
    BY DEF Clients!AcceptedRunsAreServed, Clients!At, Clients!call, ClientInv, EarlyServed
  <2>3. Clients!ClosedMeansReleased
    BY DEF Clients!ClosedMeansReleased, ClientInv, Connected, Released, IsHeld
  <2>4. Clients!AnswersFollowTheIndex
    BY DEF Clients!AnswersFollowTheIndex, Clients!At, Clients!call, ClientInv, AnswersCurrent
  <2>5. Clients!WatcherIsOwned
    BY DEF Clients!WatcherIsOwned, ClientInv, WatcherKnown
  <2> QED
    BY <2>1, <2>2, <2>3, <2>4, <2>5 DEF Clients!ClientKeepsOrder
<1> QED
  BY <1>1, <1>2, <1>3, PTL DEF Clients!Spec
-----------------------------------------------------------------------------
(***************************************************************************)
(* The servers of OwnerServer.                                             *)
(*                                                                         *)
(* What uninit finds depends on servers that are not its own: it knows a   *)
(* server only by the file, and the file by whoever wrote it last.  The    *)
(* invariant says what ties them together: living servers have process ids *)
(* of their own (PidsApart), and as long as servers of the workspace come  *)
(* one after the other, the file names the one that holds the graph        *)
(* (PublishedUntilClosed) and nobody who is gone (FileOfTheLiving).        *)
(***************************************************************************)

Stages == {"starting", "indexing", "listening", "publishing", "published",
           "unwatched", "deaf", "closed", "dead"}
ServerType ==
    [stage : Stages, here : BOOLEAN, pid : Pids, port : Ports \union {0}, watching : BOOLEAN]
CommandType ==
    [pc : {"idle", "health", "ensure", "attached", "polling", "lingering"},
     server : Nat, answered : Nat]
OwnerState ==
    [servers : Seq(ServerType),
     strangers : SUBSET Pids,
     file : [state : {"none", "torn", "whole", "old"}, server : Nat],
     commands : [Commands -> CommandType],
     issued : Nat,
     uninit : [pc : {"idle", "stopping", "waiting", "deleting"},
               pid : Pids \union {0}, knew : SUBSET Nat, ignored : BOOLEAN],
     overlapped : BOOLEAN,
     crashed : BOOLEAN]
TypeOK == owner \in OwnerState

\* A process id is one process's at a time.
PidsApart ==
    /\ \A j, k \in Owners!Alive : Owners!Server(j).pid = Owners!Server(k).pid => j = k
    /\ \A k \in Owners!Alive : Owners!Server(k).pid \notin owner.strangers

\* The file and the commands name servers of the workspace.
Ours(k) == k \in DOMAIN owner.servers /\ Owners!Server(k).here
FileKnown == owner.file = Owners!NoFile \/ (owner.file.state # "none" /\ Ours(owner.file.server))
CommandsKnow ==
    \A c \in Commands :
        /\ ~Owners!At(c, "idle") => Ours(owner.commands[c].server)
        /\ Owners!At(c, "attached") \/ Owners!At(c, "polling") =>
               owner.commands[c].answered = owner.commands[c].server

OneAtATime == ~owner.overlapped => \A j, k \in Owners!Here : j = k

\* From its publication until it is done, a server alone in the workspace is
\* the one the file names.
Holding == {"published", "unwatched", "deaf", "closed"}
PublishedUntilClosed ==
    ~owner.overlapped =>
        \A k \in Owners!Here : Owners!Stage(k) \in Holding => owner.file \in {Owners!File("whole", k), Owners!File("old", k)}

FileOfTheLiving ==
    ~owner.overlapped /\ ~owner.crashed => owner.file = Owners!NoFile \/ owner.file.server \in Owners!Here

\* Uninit is after the process of each published server that still has the graph.
Target ==
    /\ \A k \in owner.uninit.knew : k \in DOMAIN owner.servers /\ Owners!Stage(k) # "starting"
    /\ owner.uninit.pc \in {"stopping", "waiting"} /\ ~owner.overlapped =>
         \A k \in owner.uninit.knew \intersect Owners!HasGraph : Owners!Server(k).pid = owner.uninit.pid

OwnerInv ==
    /\ TypeOK
    /\ PidsApart
    /\ FileKnown
    /\ CommandsKnow
    /\ OneAtATime
    /\ PublishedUntilClosed
    /\ FileOfTheLiving
    /\ Target
    /\ Owners!UninitFindsTheGraphClosed
-----------------------------------------------------------------------------
USE DEF Owners!Server, Owners!Stage, Owners!At, Owners!File, Owners!NoFile

(* Servers go on. *)

\* Whatever happens short of a new workspace, a server stays the server it is
\* and its stages go one way.
Grows ==
    /\ DOMAIN owner.servers \subseteq DOMAIN owner'.servers
    /\ \A j \in DOMAIN owner.servers :
          /\ Owners!Server(j)'.here = Owners!Server(j).here /\ Owners!Server(j)'.pid = Owners!Server(j).pid
          /\ Owners!Stage(j) = "dead" => Owners!Stage(j)' = "dead"
          /\ Owners!Stage(j) = "closed" => Owners!Stage(j)' \in {"closed", "dead"}
          /\ Owners!Stage(j) # "starting" => Owners!Stage(j)' # "starting"
    /\ owner.overlapped => owner'.overlapped
    /\ owner.crashed => owner'.crashed

\* A step in which no server begins, is published or ends by itself.
QuietServer ==
    /\ Grows
    /\ DOMAIN owner'.servers = DOMAIN owner.servers
    /\ \A j \in DOMAIN owner.servers :
         /\ Owners!Stage(j)' \in Holding => Owners!Stage(j) \in Holding
         /\ Owners!Stage(j)' = "dead" => Owners!Stage(j) = "dead" \/ owner'.crashed
    /\ owner'.file = owner.file
    /\ owner'.overlapped = owner.overlapped

LEMMA Replaced ==
  ASSUME NEW s \in Seq(ServerType), NEW k \in DOMAIN s, NEW v \in ServerType
  PROVE  /\ [s EXCEPT ![k] = v] \in Seq(ServerType)
         /\ DOMAIN [s EXCEPT ![k] = v] = DOMAIN s
         /\ [s EXCEPT ![k] = v][k] = v
         /\ \A j \in DOMAIN s \ {k} : [s EXCEPT ![k] = v][j] = s[j]
  OBVIOUS

\* One server moves on: to stage v.stage, with v.port and v.watching.
Moves(k, v) ==
    /\ v \in ServerType /\ v.here = Owners!Server(k).here /\ v.pid = Owners!Server(k).pid
    /\ owner'.servers = [owner.servers EXCEPT ![k] = v]
    /\ Owners!Stage(k) = "dead" => v.stage = "dead"
    /\ Owners!Stage(k) = "closed" => v.stage \in {"closed", "dead"}
    /\ Owners!Stage(k) # "starting" => v.stage # "starting"
    /\ owner'.overlapped = owner.overlapped
    /\ owner.crashed => owner'.crashed

LEMMA MovesOn ==
  ASSUME TypeOK, NEW k \in DOMAIN owner.servers, NEW v, Moves(k, v)
  PROVE  /\ Grows
         /\ owner'.servers \in Seq(ServerType)
         /\ DOMAIN owner'.servers = DOMAIN owner.servers
         /\ Owners!Server(k)' = v
         /\ \A j \in DOMAIN owner.servers \ {k} : Owners!Server(j)' = Owners!Server(j)
  <1>1. owner.servers \in Seq(ServerType)
    BY DEF TypeOK, OwnerState
  <1>2. /\ owner'.servers \in Seq(ServerType)
        /\ DOMAIN owner'.servers = DOMAIN owner.servers
        /\ owner'.servers[k] = v
        /\ \A j \in DOMAIN owner.servers \ {k} : owner'.servers[j] = owner.servers[j]
    BY <1>1, Replaced DEF Moves
  <1> QED
    BY <1>2 DEF Moves, Grows
-----------------------------------------------------------------------------
(* What such steps keep. *)

LEMMA PidsKept ==
  ASSUME Grows, PidsApart, DOMAIN owner'.servers = DOMAIN owner.servers,
         owner'.strangers \subseteq owner.strangers
  PROVE  PidsApart'
  BY DEF PidsApart, Grows, Owners!Alive

LEMMA CommandsKept ==
  ASSUME Grows, CommandsKnow, owner'.commands = owner.commands
  PROVE  CommandsKnow'
  BY DEF CommandsKnow, Grows, Ours

\* A server that uninit knew does not open the graph again.
LEMMA KnownLetGo ==
  ASSUME Grows, Target, owner'.uninit.knew = owner.uninit.knew
  PROVE  /\ owner.uninit.knew \intersect Owners!HasGraph' \subseteq owner.uninit.knew \intersect Owners!HasGraph
         /\ \A k \in owner.uninit.knew :
               k \in DOMAIN owner'.servers /\ Owners!Stage(k)' # "starting" /\ Owners!Server(k)'.pid = Owners!Server(k).pid
  BY DEF Target, Grows, Owners!HasGraph, Owners!Here, Owners!Alive

LEMMA TargetKept ==
  ASSUME Grows, Target, Owners!UninitFindsTheGraphClosed,
         owner'.uninit.knew = owner.uninit.knew, owner'.uninit.pid = owner.uninit.pid,
         owner'.uninit.ignored = owner.uninit.ignored,
         \/ owner'.uninit.pc = owner.uninit.pc
         \/ owner.uninit.pc = "stopping" /\ owner'.uninit.pc = "waiting"
  PROVE  Target' /\ Owners!UninitFindsTheGraphClosed'
  BY KnownLetGo DEF Target, Owners!UninitFindsTheGraphClosed, Grows

LEMMA QuietKeeps ==
  ASSUME QuietServer, FileKnown, OneAtATime, PublishedUntilClosed, FileOfTheLiving
  PROVE  FileKnown' /\ OneAtATime' /\ PublishedUntilClosed' /\ FileOfTheLiving'
  <1>1. FileKnown'
    BY DEF QuietServer, Grows, FileKnown, Ours
  <1>2. Owners!Here' \subseteq Owners!Here
    BY DEF QuietServer, Grows, Owners!Here, Owners!Alive
  <1>3. OneAtATime'
    BY <1>2 DEF QuietServer, OneAtATime
  <1>4. PublishedUntilClosed'
    BY <1>2 DEF QuietServer, PublishedUntilClosed, Owners!Here, Owners!Alive
  <1>5. FileOfTheLiving'
    BY DEF QuietServer, Grows, FileOfTheLiving, Owners!Here, Owners!Alive
  <1> QED
    BY <1>1, <1>3, <1>4, <1>5

LEMMA QuietIInv ==
  ASSUME OwnerInv, QuietServer, TypeOK', CommandsKnow',
         owner'.uninit.knew = owner.uninit.knew, owner'.uninit.pid = owner.uninit.pid,
         owner'.uninit.ignored = owner.uninit.ignored,
         \/ owner'.uninit.pc = owner.uninit.pc
         \/ owner.uninit.pc = "stopping" /\ owner'.uninit.pc = "waiting",
         owner'.strangers \subseteq owner.strangers
  PROVE  OwnerInv'
  BY QuietKeeps, TargetKept, PidsKept DEF OwnerInv, QuietServer
-----------------------------------------------------------------------------
(* The steps of a server. *)

LEMMA QuietMove ==
  ASSUME OwnerInv, NEW k \in DOMAIN owner.servers, NEW v, v \in ServerType,
         owner' = [owner EXCEPT !.servers = [owner.servers EXCEPT ![k] = v]],
         v.here = Owners!Server(k).here, v.pid = Owners!Server(k).pid,
         v.stage \notin {"starting", "dead"}, Owners!Stage(k) \notin {"dead", "closed"},
         v.stage \in Holding => Owners!Stage(k) \in Holding
  PROVE  OwnerInv'
  <1>1. /\ TypeOK
        /\ owner'.servers = [owner.servers EXCEPT ![k] = v]
        /\ owner'.file = owner.file /\ owner'.commands = owner.commands
        /\ owner'.uninit = owner.uninit /\ owner'.strangers = owner.strangers
        /\ owner'.overlapped = owner.overlapped /\ owner'.crashed = owner.crashed
    BY DEF OwnerInv, TypeOK, OwnerState
  <1>2. Moves(k, v)
    BY <1>1 DEF Moves
  <1>3. TypeOK'
    BY <1>1, <1>2, MovesOn DEF TypeOK, OwnerState
  <1>4. QuietServer
    BY <1>1, <1>2, MovesOn DEF QuietServer
  <1> QED
    BY <1>1, <1>3, <1>4, QuietIInv, CommandsKept DEF OwnerInv, QuietServer

LEMMA MoveSteps ==
  ASSUME OwnerInv, NEW k \in DOMAIN owner.servers,
         Owners!CatchUp(k) \/ Owners!Listen(k) \/ Owners!Terminate(k) \/ Owners!StopListening(k) \/ Owners!CloseClient(k)
  PROVE  OwnerInv'
  <1>1. TypeOK /\ owner.servers[k] \in ServerType
    BY DEF OwnerInv, TypeOK, OwnerState
  <1>2. CASE Owners!CatchUp(k)
    <2>1. PICK watching \in BOOLEAN :
              owner' = [Owners!Moved(k, "indexing") EXCEPT !.servers[k].watching = watching]
      BY <1>2 DEF Owners!CatchUp
    <2> DEFINE v == [owner.servers[k] EXCEPT !.stage = "indexing", !.watching = watching]
    <2>2. v \in ServerType /\ v.here = Owners!Server(k).here /\ v.pid = Owners!Server(k).pid /\ v.stage = "indexing"
      BY <1>1 DEF ServerType, Stages
    <2>3. owner' = [owner EXCEPT !.servers = [owner.servers EXCEPT ![k] = v]]
      BY <2>1, <1>1 DEF Owners!Moved, TypeOK, OwnerState, ServerType
    <2> QED
      BY <2>2, <2>3, <1>2, QuietMove DEF Owners!CatchUp, Holding
  <1>3. CASE Owners!Listen(k)
    <2>1. PICK port \in Ports : owner' = [Owners!Moved(k, "listening") EXCEPT !.servers[k].port = port]
      BY <1>3 DEF Owners!Listen
    <2> DEFINE v == [owner.servers[k] EXCEPT !.stage = "listening", !.port = port]
    <2>2. v \in ServerType /\ v.here = Owners!Server(k).here /\ v.pid = Owners!Server(k).pid /\ v.stage = "listening"
      BY <1>1 DEF ServerType, Stages
    <2>3. owner' = [owner EXCEPT !.servers = [owner.servers EXCEPT ![k] = v]]
      BY <2>1, <1>1 DEF Owners!Moved, TypeOK, OwnerState, ServerType
    <2> QED
      BY <2>2, <2>3, <1>3, QuietMove DEF Owners!Listen, Holding
  <1>4. CASE Owners!Terminate(k)
    <2> DEFINE v == [owner.servers[k] EXCEPT !.stage = "unwatched", !.watching = FALSE]
    <2>2. v \in ServerType /\ v.here = Owners!Server(k).here /\ v.pid = Owners!Server(k).pid /\ v.stage = "unwatched"
      BY <1>1 DEF ServerType, Stages
    <2>3. owner' = [owner EXCEPT !.servers = [owner.servers EXCEPT ![k] = v]]
      BY <1>4, <1>1 DEF Owners!Terminate, Owners!Unwatched, TypeOK, OwnerState, ServerType
    <2> QED
      BY <2>2, <2>3, <1>4, QuietMove DEF Owners!Terminate, Holding
  <1>5. CASE Owners!StopListening(k)
    <2> DEFINE v == [owner.servers[k] EXCEPT !.stage = "deaf"]
    <2>2. v \in ServerType /\ v.here = Owners!Server(k).here /\ v.pid = Owners!Server(k).pid /\ v.stage = "deaf"
      BY <1>1 DEF ServerType, Stages
    <2>3. owner' = [owner EXCEPT !.servers = [owner.servers EXCEPT ![k] = v]]
      BY <1>5, <1>1 DEF Owners!StopListening, Owners!Moved, TypeOK, OwnerState, ServerType
    <2> QED
      BY <2>2, <2>3, <1>5, QuietMove DEF Owners!StopListening, Holding
  <1>6. CASE Owners!CloseClient(k)
    <2> DEFINE v == [owner.servers[k] EXCEPT !.stage = "closed", !.watching = FALSE]
    <2>2. v \in ServerType /\ v.here = Owners!Server(k).here /\ v.pid = Owners!Server(k).pid /\ v.stage = "closed"
      BY <1>1 DEF ServerType, Stages
    <2>3. owner' = [owner EXCEPT !.servers = [owner.servers EXCEPT ![k] = v]]
      BY <1>6, <1>1 DEF Owners!CloseClient, Owners!Moved, TypeOK, OwnerState, ServerType
    <2> QED
      BY <2>2, <2>3, <1>6, QuietMove DEF Owners!CloseClient, Holding
  <1> QED
    BY <1>2, <1>3, <1>4, <1>5, <1>6

\* A server that publishes itself is the only one, or has overlapped.
LEMMA PublishIInv ==
  ASSUME OwnerInv, NEW k \in DOMAIN owner.servers, Owners!Publish(k)
  PROVE  OwnerInv'
  <1> DEFINE stage == IF Owners!Stage(k) = "listening" THEN "publishing" ELSE "published"
             file == IF Owners!Stage(k) = "listening" THEN Owners!File("torn", k) ELSE Owners!File("whole", k)
             v == [owner.servers[k] EXCEPT !.stage = stage]
  <1>1. TypeOK /\ owner.servers[k] \in ServerType /\ k \in Nat
    BY DEF OwnerInv, TypeOK, OwnerState
  <1>2. v \in ServerType /\ v.here = Owners!Server(k).here /\ v.pid = Owners!Server(k).pid /\ v.stage = stage
    BY <1>1 DEF ServerType, Stages
  <1>3. /\ owner'.servers = [owner.servers EXCEPT ![k] = v]
        /\ owner'.file = IF Owners!Server(k).here THEN file ELSE owner.file
        /\ owner'.commands = owner.commands /\ owner'.uninit = owner.uninit
        /\ owner'.strangers = owner.strangers
        /\ owner'.overlapped = owner.overlapped /\ owner'.crashed = owner.crashed
    BY <1>1 DEF Owners!Publish, Owners!Moved, TypeOK, OwnerState, ServerType
  <1>4. Moves(k, v)
    BY <1>1, <1>2, <1>3 DEF Moves, Owners!Publish
  <1>5. TypeOK'
    <2>1. owner'.file \in [state : {"none", "torn", "whole", "old"}, server : Nat]
      BY <1>3, <1>1 DEF TypeOK, OwnerState
    <2>2. owner'.servers \in Seq(ServerType)
      BY <1>1, <1>4, MovesOn
    <2> QED
      BY <2>1, <2>2, <1>1 DEF Owners!Publish, Owners!Moved, TypeOK, OwnerState
  <1>6. /\ Grows /\ DOMAIN owner'.servers = DOMAIN owner.servers
        /\ Owners!Server(k)' = v
        /\ \A j \in DOMAIN owner.servers \ {k} : Owners!Server(j)' = Owners!Server(j)
    <2> HIDE DEF v
    <2> QED
      BY <1>1, <1>2, <1>4, MovesOn
  <1> HIDE DEF v
  <1>7. FileKnown'
    BY <1>2, <1>3, <1>6 DEF OwnerInv, FileKnown, Ours, Grows
  <1>8. Owners!Here' = Owners!Here /\ Owners!Stage(k) # "dead"
    BY <1>2, <1>6 DEF Owners!Publish, Owners!Here, Owners!Alive
  <1>9. OneAtATime'
    BY <1>3, <1>8 DEF OwnerInv, OneAtATime
  <1>10. PublishedUntilClosed'
    <2> SUFFICES ASSUME ~owner'.overlapped, NEW j \in Owners!Here, owner'.servers[j].stage \in Holding
                 PROVE  owner'.file \in {Owners!File("whole", j), Owners!File("old", j)}
      BY <1>8 DEF PublishedUntilClosed
    <2>1. CASE Owners!Server(k).here
      <3>1. j = k
        BY <1>3, <1>8, <2>1 DEF OwnerInv, OneAtATime, Owners!Here, Owners!Alive
      <3> QED
        BY <1>2, <1>3, <1>6, <2>1, <3>1 DEF Holding
    <2>2. CASE ~Owners!Server(k).here
      BY <1>3, <1>6, <2>2 DEF OwnerInv, PublishedUntilClosed, Owners!Here, Owners!Alive
    <2> QED
      BY <2>1, <2>2
  <1>11. FileOfTheLiving'
    BY <1>3, <1>8 DEF OwnerInv, FileOfTheLiving, Owners!Here, Owners!Alive
  <1> QED
    BY <1>1, <1>3, <1>5, <1>6, <1>7, <1>9, <1>10, <1>11, TargetKept, PidsKept, CommandsKept DEF OwnerInv

\* The file that a server removes is its own, unless servers overlapped.
LEMMA RemoveFileIInv ==
  ASSUME OwnerInv, NEW k \in DOMAIN owner.servers, Owners!RemoveFile(k)
  PROVE  OwnerInv'
  <1> DEFINE v == [owner.servers[k] EXCEPT !.stage = "dead", !.watching = FALSE]
  <1>1. TypeOK /\ owner.servers[k] \in ServerType
    BY DEF OwnerInv, TypeOK, OwnerState
  <1>2. v \in ServerType /\ v.here = Owners!Server(k).here /\ v.pid = Owners!Server(k).pid /\ v.stage = "dead"
    BY <1>1 DEF ServerType, Stages
  <1>3. /\ owner'.servers = [owner.servers EXCEPT ![k] = v]
        /\ owner'.file = IF Owners!Server(k).here THEN Owners!NoFile ELSE owner.file
        /\ owner'.commands = owner.commands /\ owner'.uninit = owner.uninit
        /\ owner'.strangers = owner.strangers
        /\ owner'.overlapped = owner.overlapped /\ owner'.crashed = owner.crashed
    BY <1>1 DEF Owners!RemoveFile, Owners!Dead, TypeOK, OwnerState, ServerType
  <1> HIDE DEF v
  <1>4. Moves(k, v)
    BY <1>1, <1>2, <1>3 DEF Moves, Owners!RemoveFile
  <1>5. /\ Grows /\ DOMAIN owner'.servers = DOMAIN owner.servers
        /\ owner'.servers \in Seq(ServerType)
        /\ Owners!Server(k)' = v
        /\ \A j \in DOMAIN owner.servers \ {k} : Owners!Server(j)' = Owners!Server(j)
    BY <1>1, <1>2, <1>4, MovesOn
  <1>6. TypeOK'
    <2>1. owner'.file \in [state : {"none", "torn", "whole", "old"}, server : Nat]
      BY <1>3, <1>1 DEF TypeOK, OwnerState
    <2> QED
      BY <2>1, <1>5, <1>1 DEF Owners!RemoveFile, Owners!Dead, TypeOK, OwnerState
  <1>7. FileKnown'
    BY <1>3, <1>5 DEF OwnerInv, FileKnown, Ours, Grows
  <1>8. Owners!Here' = Owners!Here \ {k} /\ (Owners!Server(k).here => k \in Owners!Here)
    BY <1>2, <1>5 DEF Owners!RemoveFile, Owners!Here, Owners!Alive
  <1>9. OneAtATime'
    BY <1>3, <1>8 DEF OwnerInv, OneAtATime
  <1>10. PublishedUntilClosed'
    BY <1>3, <1>5, <1>8 DEF OwnerInv, OneAtATime, PublishedUntilClosed, Owners!Here, Owners!Alive
  <1>11. FileOfTheLiving'
    BY <1>3, <1>8 DEF OwnerInv, FileOfTheLiving, Owners!Here, Owners!Alive
  <1> QED
    BY <1>1, <1>3, <1>5, <1>6, <1>7, <1>9, <1>10, <1>11, TargetKept, PidsKept, CommandsKept DEF OwnerInv

LEMMA DieIInv ==
  ASSUME OwnerInv, NEW k \in DOMAIN owner.servers, Owners!Die(k)
  PROVE  OwnerInv'
  <1> DEFINE v == [owner.servers[k] EXCEPT !.stage = "dead", !.watching = FALSE]
  <1>1. TypeOK /\ owner.servers[k] \in ServerType
    BY DEF OwnerInv, TypeOK, OwnerState
  <1>2. v \in ServerType /\ v.here = Owners!Server(k).here /\ v.pid = Owners!Server(k).pid /\ v.stage = "dead"
    BY <1>1 DEF ServerType, Stages
  <1>3. /\ owner'.servers = [owner.servers EXCEPT ![k] = v]
        /\ owner'.file = owner.file
        /\ owner'.commands = owner.commands /\ owner'.uninit = owner.uninit
        /\ owner'.strangers = owner.strangers
        /\ owner'.overlapped = owner.overlapped /\ owner'.crashed
    BY <1>1 DEF Owners!Die, Owners!Dead, TypeOK, OwnerState, ServerType
  <1> HIDE DEF v
  <1>4. Moves(k, v)
    BY <1>1, <1>2, <1>3 DEF Moves
  <1>5. /\ Grows /\ DOMAIN owner'.servers = DOMAIN owner.servers
        /\ owner'.servers \in Seq(ServerType)
        /\ Owners!Server(k)' = v
        /\ \A j \in DOMAIN owner.servers \ {k} : Owners!Server(j)' = Owners!Server(j)
    BY <1>1, <1>2, <1>4, MovesOn
  <1>6. TypeOK'
    BY <1>5, <1>1 DEF Owners!Die, Owners!Dead, TypeOK, OwnerState
  <1>7. QuietServer
    BY <1>2, <1>3, <1>5 DEF QuietServer, Holding
  <1> QED
    BY <1>3, <1>6, <1>7, QuietIInv, CommandsKept DEF OwnerInv, QuietServer

\* The file of whoever holds the graph keeps its name when it is too old to be read.
LEMMA GrowOldIInv == ASSUME OwnerInv, Owners!GrowOld PROVE OwnerInv'
  <1>1. TypeOK /\ owner.file.state = "whole"
    BY DEF OwnerInv, Owners!GrowOld
  <1>2. /\ owner'.servers = owner.servers
        /\ owner'.file = Owners!File("old", owner.file.server)
        /\ owner'.commands = owner.commands /\ owner'.uninit = owner.uninit
        /\ owner'.strangers = owner.strangers
        /\ owner'.overlapped = owner.overlapped /\ owner'.crashed = owner.crashed
        /\ TypeOK'
    BY <1>1 DEF Owners!GrowOld, TypeOK, OwnerState
  <1>3. Grows
    BY <1>2 DEF Grows
  <1>4. owner.file.server \in Nat /\ owner.file # Owners!NoFile
    BY <1>1 DEF TypeOK, OwnerState
  <1>5. Owners!Here' = Owners!Here
    BY <1>2 DEF Owners!Here, Owners!Alive
  <1>6. FileKnown' /\ OneAtATime' /\ FileOfTheLiving'
    BY <1>2, <1>4, <1>5 DEF OwnerInv, FileKnown, Ours, OneAtATime, FileOfTheLiving
  <1>7. PublishedUntilClosed'
    <2> SUFFICES ASSUME ~owner.overlapped, NEW k \in Owners!Here, owner.servers[k].stage \in Holding
                 PROVE  owner'.file = Owners!File("old", k)
      BY <1>2, <1>5 DEF PublishedUntilClosed
    <2>1. owner.file.server = k
      BY DEF OwnerInv, PublishedUntilClosed
    <2> QED
      BY <1>2, <2>1
  <1> QED
    BY <1>2, <1>3, <1>6, <1>7, TargetKept, PidsKept, CommandsKept DEF OwnerInv
-----------------------------------------------------------------------------
(* Other programs, and the steps of a command. *)

LEMMA ReuseIInv == ASSUME OwnerInv, Owners!Reuse PROVE OwnerInv'
  <1>1. PICK k \in DOMAIN owner.servers :
            /\ Owners!Server(k).pid \notin Owners!PidsAlive
            /\ owner' = [owner EXCEPT !.strangers = owner.strangers \union {Owners!Server(k).pid}]
    BY DEF Owners!Reuse
  <1>2. TypeOK /\ owner.servers[k] \in ServerType
    BY DEF OwnerInv, TypeOK, OwnerState
  <1>3. /\ owner'.servers = owner.servers /\ owner'.file = owner.file
        /\ owner'.commands = owner.commands /\ owner'.uninit = owner.uninit
        /\ owner'.strangers = owner.strangers \union {Owners!Server(k).pid}
        /\ owner'.overlapped = owner.overlapped /\ owner'.crashed = owner.crashed
        /\ TypeOK'
    BY <1>1, <1>2 DEF TypeOK, OwnerState, ServerType
  <1>4. QuietServer
    BY <1>3 DEF QuietServer, Grows
  <1>5. PidsApart'
    BY <1>1, <1>3 DEF OwnerInv, PidsApart, Owners!PidsAlive, Owners!Alive
  <1> QED
    BY <1>3, <1>4, <1>5, QuietKeeps, TargetKept, CommandsKept DEF OwnerInv, QuietServer

\* A command keeps to the server it was given, and believes only its answers.
Knows(d) ==
    /\ d \in CommandType
    /\ d.pc # "idle" => Ours(d.server)
    /\ d.pc \in {"attached", "polling"} => d.answered = d.server

LEMMA CommandLearns ==
  ASSUME OwnerInv, Grows, NEW c \in Commands, NEW d, Knows(d),
         owner'.commands = [owner.commands EXCEPT ![c] = d]
  PROVE  owner'.commands \in [Commands -> CommandType] /\ CommandsKnow'
  <1>1. owner.commands \in [Commands -> CommandType]
    BY DEF OwnerInv, TypeOK, OwnerState
  <1>2. owner'.commands \in [Commands -> CommandType]
    BY <1>1 DEF Knows
  <1>3. \A k : Ours(k) => Ours(k)'
    BY DEF Ours, Grows
  <1>4. \A b \in Commands : owner'.commands[b] = IF b = c THEN d ELSE owner.commands[b]
    BY <1>1
  <1>5. CommandsKnow'
    BY <1>3, <1>4 DEF OwnerInv, CommandsKnow, Knows
  <1> QED
    BY <1>2, <1>5

LEMMA CommandIInv ==
  ASSUME OwnerInv, NEW c \in Commands, NEW d, Knows(d), NEW issued \in Nat,
         owner' = [owner EXCEPT !.issued = issued, !.commands = [owner.commands EXCEPT ![c] = d]]
  PROVE  OwnerInv'
  <1>1. TypeOK
    BY DEF OwnerInv
  <1>2. /\ owner'.servers = owner.servers /\ owner'.file = owner.file
        /\ owner'.uninit = owner.uninit /\ owner'.strangers = owner.strangers
        /\ owner'.overlapped = owner.overlapped /\ owner'.crashed = owner.crashed
        /\ owner'.commands = [owner.commands EXCEPT ![c] = d]
    BY <1>1 DEF TypeOK, OwnerState
  <1>3. QuietServer
    BY <1>2 DEF QuietServer, Grows
  <1>4. owner'.commands \in [Commands -> CommandType] /\ CommandsKnow'
    BY <1>2, <1>3, CommandLearns DEF QuietServer
  <1>5. TypeOK'
    BY <1>1, <1>4 DEF TypeOK, OwnerState
  <1> QED
    BY <1>2, <1>3, <1>4, <1>5, QuietIInv

LEMMA FindIInv == ASSUME OwnerInv, NEW c \in Commands, Owners!Find(c) PROVE OwnerInv'
  <1> DEFINE d == IF Owners!Found = {} THEN owner.commands[c]
                  ELSE [owner.commands[c] EXCEPT !.pc = "health", !.server = owner.file.server]
  <1>1. TypeOK /\ owner.commands[c] \in CommandType
    BY DEF OwnerInv, TypeOK, OwnerState
  <1>2. owner' = [owner EXCEPT !.issued = owner.issued + 1, !.commands = [owner.commands EXCEPT ![c] = d]]
    BY <1>1 DEF Owners!Find, TypeOK, OwnerState, CommandType
  <1>3. owner.issued + 1 \in Nat
    BY <1>1 DEF TypeOK, OwnerState
  <1>4. Knows(d)
    <2>1. CASE Owners!Found = {}
      BY <1>1, <2>1 DEF Knows, Owners!Find, CommandType
    <2>2. CASE Owners!Found # {}
      <3>1. Ours(owner.file.server) /\ owner.file.server \in Nat
        BY <1>1, <2>2 DEF OwnerInv, FileKnown, Owners!Found, Owners!Named, TypeOK, OwnerState
      <3> QED
        BY <1>1, <2>2, <3>1 DEF Knows, CommandType
    <2> QED
      BY <2>1, <2>2
  <1> HIDE DEF d
  <1> QED
    BY <1>2, <1>3, <1>4, CommandIInv

LEMMA EndedIInv == ASSUME OwnerInv, NEW c \in Commands, owner' = Owners!Ended(owner, c) PROVE OwnerInv'
  <1>1. TypeOK /\ owner.issued \in Nat
    BY DEF OwnerInv, TypeOK, OwnerState
  <1>2. owner' = [owner EXCEPT !.issued = owner.issued, !.commands = [owner.commands EXCEPT ![c] = Owners!Idle]]
    BY <1>1 DEF Owners!Ended, TypeOK, OwnerState
  <1>3. Knows(Owners!Idle)
    BY DEF Knows, CommandType, Owners!Idle
  <1> QED
    BY <1>1, <1>2, <1>3, CommandIInv

LEMMA ThenIInv ==
  ASSUME OwnerInv, NEW c \in Commands, ~Owners!At(c, "idle"), NEW pc \in {"ensure", "polling", "lingering"},
         pc = "polling" => Owners!At(c, "attached"), owner' = Owners!Then(owner, c, pc)
  PROVE  OwnerInv'
  <1> DEFINE d == [owner.commands[c] EXCEPT !.pc = pc]
  <1>1. TypeOK /\ owner.issued \in Nat /\ owner.commands[c] \in CommandType
    BY DEF OwnerInv, TypeOK, OwnerState
  <1>2. owner' = [owner EXCEPT !.issued = owner.issued, !.commands = [owner.commands EXCEPT ![c] = d]]
    BY <1>1 DEF Owners!Then, TypeOK, OwnerState
  <1>3. Knows(d)
    BY <1>1 DEF OwnerInv, CommandsKnow, Knows, CommandType
  <1> HIDE DEF d
  <1> QED
    BY <1>1, <1>2, <1>3, CommandIInv

\* The answer that attaches a command is of the server whose token the file has.
LEMMA EnsureIInv == ASSUME OwnerInv, NEW c \in Commands, Owners!Ensure(c) PROVE OwnerInv'
  <1>1. TypeOK /\ owner.commands[c] \in CommandType
    BY DEF OwnerInv, TypeOK, OwnerState
  <1>2. CASE owner' = Owners!Ended(owner, c)
    BY <1>2, EndedIInv
  <1>3. CASE \E k \in Owners!Answering(c), watching, late \in BOOLEAN :
                owner' = IF late THEN Owners!Ended(Owners!Ensured(owner, k, watching), c)
                         ELSE [Owners!Then(Owners!Ensured(owner, k, watching), c,
                                   "attached") EXCEPT !.commands[c].answered = k]
    <2>1. PICK k \in Owners!Answering(c), watching \in BOOLEAN, late \in BOOLEAN :
                owner' = IF late THEN Owners!Ended(Owners!Ensured(owner, k, watching), c)
                         ELSE [Owners!Then(Owners!Ensured(owner, k, watching), c,
                                   "attached") EXCEPT !.commands[c].answered = k]
      BY <1>3
    <2>2. k \in DOMAIN owner.servers /\ k = owner.commands[c].server /\ Owners!Stage(k) \notin {"dead", "closed"}
      BY DEF Owners!Answering, Owners!IsAuthorized, Owners!Listening, Owners!Alive
    <2> DEFINE v == [owner.servers[k] EXCEPT !.watching = owner.servers[k].watching \/ watching]
               d == IF late THEN Owners!Idle ELSE [owner.commands[c] EXCEPT !.pc = "attached", !.answered = k]
    <2>3. owner.servers[k] \in ServerType /\ k \in Nat
      BY <1>1, <2>2 DEF TypeOK, OwnerState
    <2>4. v \in ServerType /\ v.here = Owners!Server(k).here /\ v.pid = Owners!Server(k).pid /\ v.stage = Owners!Stage(k)
      BY <2>3 DEF ServerType
    <2>5. Knows(d)
      <3>1. Ours(owner.commands[c].server)
        BY DEF Owners!Ensure, OwnerInv, CommandsKnow
      <3> QED
        BY <1>1, <2>2, <2>3, <3>1 DEF Knows, CommandType, Owners!Idle
    <2>6. owner' = [owner EXCEPT !.servers = [owner.servers EXCEPT ![k] = v],
                                 !.commands = [owner.commands EXCEPT ![c] = d]]
      <3>1. Owners!Ensured(owner, k, watching) = [owner EXCEPT !.servers = [owner.servers EXCEPT ![k] = v]]
        BY <1>1, <2>2, <2>3 DEF Owners!Ensured, TypeOK, OwnerState, ServerType
      <3>2. CASE late
        BY <1>1, <2>1, <3>1, <3>2 DEF Owners!Ended, TypeOK, OwnerState
      <3>3. CASE ~late
        BY <1>1, <2>1, <3>1, <3>3 DEF Owners!Then, TypeOK, OwnerState, CommandType
      <3> QED
        BY <3>2, <3>3
    <2> HIDE DEF v, d
    <2>7. /\ owner'.servers = [owner.servers EXCEPT ![k] = v] /\ owner'.file = owner.file
          /\ owner'.uninit = owner.uninit /\ owner'.strangers = owner.strangers
          /\ owner'.overlapped = owner.overlapped /\ owner'.crashed = owner.crashed
          /\ owner'.commands = [owner.commands EXCEPT ![c] = d]
      BY <1>1, <2>6 DEF TypeOK, OwnerState
    <2>8. Moves(k, v)
      BY <2>4, <2>7 DEF Moves
    <2>9. /\ Grows /\ DOMAIN owner'.servers = DOMAIN owner.servers
          /\ owner'.servers \in Seq(ServerType)
          /\ Owners!Server(k)' = v
          /\ \A j \in DOMAIN owner.servers \ {k} : Owners!Server(j)' = Owners!Server(j)
      BY <1>1, <2>2, <2>8, MovesOn
    <2>10. QuietServer
      BY <2>2, <2>4, <2>7, <2>9 DEF QuietServer
    <2>11. owner'.commands \in [Commands -> CommandType] /\ CommandsKnow'
      BY <2>5, <2>7, <2>9, CommandLearns
    <2>12. TypeOK'
      BY <1>1, <2>6, <2>9, <2>11, <2>7 DEF TypeOK, OwnerState
    <2> QED
      BY <2>7, <2>10, <2>11, <2>12, QuietIInv
  <1> QED
    BY <1>2, <1>3 DEF Owners!Ensure

LEMMA CommandSteps ==
  ASSUME OwnerInv, NEW c \in Commands,
         Owners!Find(c) \/ Owners!Health(c) \/ Owners!Ensure(c) \/ Owners!Poll(c) \/ Owners!Interrupt(c)
  PROVE  OwnerInv'
  <1>1. CASE Owners!Health(c)
    <2>1. owner' = Owners!Ended(owner, c) \/ owner' = Owners!Then(owner, c, "ensure")
      BY <1>1 DEF Owners!Health
    <2> QED
      BY <1>1, <2>1, EndedIInv, ThenIInv DEF Owners!Health
  <1>2. CASE Owners!Poll(c)
    BY <1>2, EndedIInv, ThenIInv DEF Owners!Poll
  <1>3. CASE Owners!Interrupt(c)
    BY <1>3, EndedIInv DEF Owners!Interrupt
  <1> QED
    BY <1>1, <1>2, <1>3, FindIInv, EnsureIInv
-----------------------------------------------------------------------------
(* `uninit`. *)

\* The file leads to the server that holds the graph.
LEMMA UninitIInv == ASSUME OwnerInv, Owners!Uninit PROVE OwnerInv'
  <1> DEFINE knew == {k \in Owners!HasGraph : Owners!Stage(k) \in {"published", "unwatched", "deaf"}}
             pc == IF Owners!Found = {} THEN "deleting" ELSE "stopping"
             pid == IF Owners!Found = {} THEN 0 ELSE Owners!Server(owner.file.server).pid
             ignored == owner.file.state = "old"
  <1>1. TypeOK
    BY DEF OwnerInv
  <1>2. /\ owner'.servers = owner.servers /\ owner'.file = owner.file
        /\ owner'.commands = owner.commands /\ owner'.strangers = owner.strangers
        /\ owner'.overlapped = owner.overlapped /\ owner'.crashed = owner.crashed
        /\ owner'.uninit = [pc |-> pc, pid |-> pid, knew |-> knew, ignored |-> ignored]
    BY <1>1 DEF Owners!Uninit, TypeOK, OwnerState
  <1>3. knew \subseteq Owners!Here /\ knew \subseteq Nat
    BY <1>1 DEF Owners!HasGraph, Owners!Here, Owners!Alive, TypeOK, OwnerState
  <1>4. Owners!Found # {} => owner.servers[owner.file.server] \in ServerType
    BY <1>1 DEF OwnerInv, FileKnown, Owners!Found, Owners!Named, Ours, TypeOK, OwnerState
  <1>5. TypeOK'
    <2>1. pid \in Pids \union {0}
      BY <1>4 DEF ServerType
    <2>a. ignored \in BOOLEAN
      OBVIOUS
    <2> HIDE DEF pid, knew, ignored
    <2>2. owner'.uninit \in [pc : {"idle", "stopping", "waiting", "deleting"},
                             pid : Pids \union {0}, knew : SUBSET Nat, ignored : BOOLEAN]
      BY <1>2, <1>3, <2>1, <2>a
    <2> QED
      BY <1>1, <2>2 DEF Owners!Uninit, TypeOK, OwnerState
  <1>6. ASSUME ~owner.overlapped, NEW k \in knew
        PROVE  /\ owner.file.server = k
               /\ ~ignored => Owners!Found # {}
    <2>1. owner.file \in {Owners!File("whole", k), Owners!File("old", k)}
      BY <1>3, <1>6 DEF OwnerInv, PublishedUntilClosed, Holding
    <2>2. Owners!Server(k).pid \in Owners!PidsAlive
      BY <1>3 DEF Owners!PidsAlive, Owners!Here
    <2> QED
      BY <2>1, <2>2 DEF Owners!Found, Owners!Named
  <1>7. Target'
    <2>1. \A k \in knew : k \in DOMAIN owner.servers /\ Owners!Stage(k) # "starting"
      BY DEF Owners!HasGraph, Owners!Here, Owners!Alive
    <2>2. ASSUME ~owner.overlapped, pc = "stopping", NEW k \in knew PROVE Owners!Server(k).pid = pid
      <3>1. Owners!Found # {}
        BY <2>2
      <3>2. owner.file.server = k
        BY <1>6, <2>2
      <3> HIDE DEF knew, pc
      <3> QED
        BY <3>1, <3>2
    <2>3. pc \in {"deleting", "stopping"}
      OBVIOUS
    <2> HIDE DEF knew, pid, pc
    <2> QED
      BY <1>2, <2>1, <2>2, <2>3 DEF Target
  <1>8. Owners!UninitFindsTheGraphClosed'
    <2>1. ASSUME ~owner.overlapped, ~ignored, pc = "deleting" PROVE knew = {}
      <3>1. Owners!Found = {}
        BY <2>1
      <3> SUFFICES ASSUME NEW k \in knew PROVE FALSE
        OBVIOUS
      <3> QED
        BY <1>6, <2>1, <3>1
    <2> HIDE DEF knew, pid, pc, ignored
    <2> QED
      BY <1>2, <2>1 DEF Owners!UninitFindsTheGraphClosed
  <1>9. QuietServer
    BY <1>2 DEF QuietServer, Grows
  <1> QED
    BY <1>2, <1>5, <1>7, <1>8, <1>9, QuietKeeps, PidsKept, CommandsKept DEF OwnerInv, QuietServer

LEMMA UnwatchedIs ==
  ASSUME NEW s \in OwnerState, NEW k \in DOMAIN s.servers
  PROVE  Owners!Unwatched(s, k) =
           [s EXCEPT !.servers = [s.servers EXCEPT ![k] =
                                    [s.servers[k] EXCEPT !.stage = "unwatched", !.watching = FALSE]]]
  <1>1. s.servers[k] \in ServerType
    BY DEF OwnerState
  <1> QED
    BY <1>1 DEF Owners!Unwatched, OwnerState, ServerType

\* The servers after the process of that id was killed: there is one at most.
KilledServers(pid) ==
    [k \in DOMAIN owner.servers |->
        IF k \in Owners!OfPid(pid) THEN [owner.servers[k] EXCEPT !.stage = "dead", !.watching = FALSE]
        ELSE owner.servers[k]]

LEMMA KilledOnly ==
  ASSUME TypeOK, NEW pid, owner'.servers = KilledServers(pid),
         owner'.file = owner.file, owner'.overlapped = owner.overlapped,
         owner'.crashed = (owner.crashed \/ Owners!OfPid(pid) # {})
  PROVE  /\ owner'.servers \in Seq(ServerType) /\ owner'.crashed \in BOOLEAN
         /\ QuietServer
         /\ \A k \in Owners!Alive' : Owners!Server(k)'.pid # pid
  <1>1. owner.servers \in Seq(ServerType)
    BY DEF TypeOK, OwnerState
  <1>2. ASSUME NEW k \in DOMAIN owner.servers
        PROVE  /\ owner.servers[k] \in ServerType
               /\ [owner.servers[k] EXCEPT !.stage = "dead", !.watching = FALSE] \in ServerType
    <2>1. owner.servers[k] \in ServerType
      BY <1>1
    <2> QED
      BY <2>1 DEF ServerType, Stages
  <1>3. owner'.servers \in Seq(ServerType) /\ DOMAIN owner'.servers = DOMAIN owner.servers
    <2>1. DOMAIN owner.servers = 1..Len(owner.servers) /\ Len(owner.servers) \in Nat
      BY <1>1
    <2>2. owner'.servers \in [1..Len(owner.servers) -> ServerType]
      BY <1>2, <2>1 DEF KilledServers
    <2> QED
      BY <2>1, <2>2
  <1>4. \A k \in DOMAIN owner.servers :
           owner'.servers[k] = IF k \in Owners!OfPid(pid)
                     THEN [owner.servers[k] EXCEPT !.stage = "dead", !.watching = FALSE]
                               ELSE owner.servers[k]
    BY DEF KilledServers
  <1>5. \A k \in DOMAIN owner.servers :
           /\ Owners!Server(k)'.here = Owners!Server(k).here /\ Owners!Server(k)'.pid = Owners!Server(k).pid
           /\ Owners!Stage(k)' = IF k \in Owners!OfPid(pid) THEN "dead" ELSE Owners!Stage(k)
    BY <1>2, <1>4 DEF ServerType
  <1>6. QuietServer
    BY <1>3, <1>5 DEF QuietServer, Grows, Owners!OfPid, Owners!Alive, Holding
  <1>7. \A k \in Owners!Alive' : Owners!Server(k)'.pid # pid
    BY <1>3, <1>5 DEF Owners!Alive, Owners!OfPid
  <1>8. owner'.crashed \in BOOLEAN
    BY DEF TypeOK, OwnerState
  <1> QED
    BY <1>3, <1>6, <1>7, <1>8

LEMMA KilledIs ==
  ASSUME NEW s \in OwnerState, NEW pid, s.servers = owner.servers
  PROVE  Owners!Killed(s, pid) = [s EXCEPT !.servers = KilledServers(pid),
                                    !.crashed = s.crashed \/ Owners!OfPid(pid) # {}]
  BY DEF Owners!Killed, KilledServers, OwnerState

LEMMA StopIInv == ASSUME OwnerInv, Owners!Stop PROVE OwnerInv'
  <1> DEFINE pid == owner.uninit.pid
             strangers == owner.strangers \ {pid}
             gone == [owner EXCEPT !.uninit.pc = "waiting", !.strangers = strangers]
             uninit == [owner.uninit EXCEPT !.pc = "waiting"]
  <1>1. TypeOK /\ owner.uninit.pc = "stopping"
    BY DEF OwnerInv, Owners!Stop
  <1>2. /\ gone.servers = owner.servers /\ gone.file = owner.file /\ gone.commands = owner.commands
        /\ gone.uninit = uninit /\ gone.strangers = strangers
        /\ gone.overlapped = owner.overlapped /\ gone.crashed = owner.crashed
        /\ gone = [owner EXCEPT !.uninit = uninit, !.strangers = strangers]
        /\ gone \in OwnerState
    BY <1>1 DEF TypeOK, OwnerState
  <1>3. /\ uninit.knew = owner.uninit.knew /\ uninit.pid = pid /\ uninit.pc = "waiting"
        /\ uninit.ignored = owner.uninit.ignored
        /\ uninit \in [pc : {"idle", "stopping", "waiting", "deleting"},
                       pid : Pids \union {0}, knew : SUBSET Nat, ignored : BOOLEAN]
    BY <1>1 DEF TypeOK, OwnerState
  <1>4. \/ owner' = [owner EXCEPT !.uninit.pc = "waiting"] \/ owner' = gone
        \/ \E k \in Owners!OfPid(pid) : Owners!Stage(k) = "published" /\ owner' = Owners!Unwatched(gone, k)
        \/ owner' = Owners!Killed(gone, pid)
    BY DEF Owners!Stop
  <1>5. CASE owner' = [owner EXCEPT !.uninit.pc = "waiting"] \/ owner' = gone
    <2>1. /\ owner'.servers = owner.servers /\ owner'.file = owner.file
          /\ owner'.commands = owner.commands /\ owner'.uninit = uninit
          /\ owner'.strangers \subseteq owner.strangers
          /\ owner'.overlapped = owner.overlapped /\ owner'.crashed = owner.crashed
          /\ TypeOK'
      BY <1>1, <1>2, <1>3, <1>5 DEF TypeOK, OwnerState
    <2>2. QuietServer
      BY <2>1 DEF QuietServer, Grows
    <2> HIDE DEF uninit
    <2> QED
      BY <1>1, <1>3, <2>1, <2>2, QuietIInv, CommandsKept DEF OwnerInv, QuietServer
  <1>6. CASE \E k \in Owners!OfPid(pid) : Owners!Stage(k) = "published" /\ owner' = Owners!Unwatched(gone, k)
    <2>1. PICK k \in Owners!OfPid(pid) : Owners!Stage(k) = "published" /\ owner' = Owners!Unwatched(gone, k)
      BY <1>6
    <2> DEFINE v == [owner.servers[k] EXCEPT !.stage = "unwatched", !.watching = FALSE]
    <2>2. k \in DOMAIN owner.servers /\ owner.servers[k] \in ServerType
      BY <1>1 DEF Owners!OfPid, Owners!Alive, TypeOK, OwnerState
    <2>3. v \in ServerType /\ v.here = Owners!Server(k).here /\ v.pid = Owners!Server(k).pid /\ v.stage = "unwatched"
      BY <2>2 DEF ServerType, Stages
    <2>4. owner' = [owner EXCEPT !.servers = [owner.servers EXCEPT ![k] = v],
                                 !.uninit = uninit, !.strangers = strangers]
      <3>1. owner' = [gone EXCEPT !.servers = [owner.servers EXCEPT ![k] = v]]
        <4>1. gone.servers = owner.servers /\ gone \in OwnerState
          BY <1>2
        <4> HIDE DEF gone
        <4>2. Owners!Unwatched(gone, k) =
                [gone EXCEPT !.servers = [gone.servers EXCEPT ![k] =
                                 [gone.servers[k] EXCEPT !.stage = "unwatched", !.watching = FALSE]]]
          BY <2>2, <4>1, UnwatchedIs
        <4> QED
          BY <2>1, <4>1, <4>2
      <3> HIDE DEF v, uninit
      <3> QED
        BY <1>1, <1>2, <3>1 DEF TypeOK, OwnerState
    <2> HIDE DEF v, uninit, gone
    <2>5. /\ owner'.servers = [owner.servers EXCEPT ![k] = v] /\ owner'.file = owner.file
          /\ owner'.commands = owner.commands /\ owner'.uninit = uninit
          /\ owner'.strangers \subseteq owner.strangers
          /\ owner'.overlapped = owner.overlapped /\ owner'.crashed = owner.crashed
      BY <1>1, <2>4 DEF TypeOK, OwnerState
    <2>6. Moves(k, v)
      BY <2>1, <2>3, <2>5 DEF Moves
    <2>7. /\ Grows /\ DOMAIN owner'.servers = DOMAIN owner.servers
          /\ owner'.servers \in Seq(ServerType)
          /\ Owners!Server(k)' = v
          /\ \A j \in DOMAIN owner.servers \ {k} : Owners!Server(j)' = Owners!Server(j)
      BY <1>1, <2>2, <2>6, MovesOn
    <2>8. QuietServer
      BY <2>1, <2>3, <2>5, <2>7 DEF QuietServer, Holding
    <2>9. TypeOK'
      BY <1>1, <1>3, <2>4, <2>5, <2>7 DEF TypeOK, OwnerState
    <2> QED
      BY <1>1, <1>3, <2>5, <2>8, <2>9, QuietIInv, CommandsKept DEF OwnerInv, QuietServer
  <1>7. CASE owner' = Owners!Killed(gone, pid)
    <2>1. owner' = [owner EXCEPT !.servers = KilledServers(pid), !.uninit = uninit,
                                 !.strangers = strangers,
                                 !.crashed = owner.crashed \/ Owners!OfPid(pid) # {}]
      <3>1. owner' = [gone EXCEPT !.servers = KilledServers(pid),
                                  !.crashed = owner.crashed \/ Owners!OfPid(pid) # {}]
        <4> HIDE DEF gone
        <4> QED
          BY <1>2, <1>7, KilledIs
      <3> HIDE DEF uninit
      <3> QED
        BY <1>1, <1>2, <3>1 DEF TypeOK, OwnerState
    <2> HIDE DEF uninit, gone
    <2>2. /\ owner'.servers = KilledServers(pid) /\ owner'.file = owner.file
          /\ owner'.commands = owner.commands /\ owner'.uninit = uninit
          /\ owner'.strangers \subseteq owner.strangers
          /\ owner'.overlapped = owner.overlapped
          /\ owner'.crashed = (owner.crashed \/ Owners!OfPid(pid) # {})
      BY <1>1, <2>1 DEF TypeOK, OwnerState
    <2>3. owner'.servers \in Seq(ServerType) /\ owner'.crashed \in BOOLEAN /\ QuietServer
      BY <1>1, <2>2, KilledOnly
    <2>4. TypeOK'
      BY <1>1, <1>3, <2>1, <2>2, <2>3 DEF TypeOK, OwnerState
    <2> QED
      BY <1>1, <1>3, <2>2, <2>3, <2>4, QuietIInv, CommandsKept DEF OwnerInv, QuietServer
  <1> QED
    BY <1>4, <1>5, <1>6, <1>7

\* Whoever had the process id is gone, and so is the server that had it then.
LEMMA GiveUpIInv == ASSUME OwnerInv, Owners!GiveUp PROVE OwnerInv'
  <1> DEFINE pid == owner.uninit.pid
             uninit == [owner.uninit EXCEPT !.pc = "deleting"]
             servers == IF pid \in Owners!PidsAlive THEN KilledServers(pid) ELSE owner.servers
             crashed == IF pid \in Owners!PidsAlive THEN owner.crashed \/ Owners!OfPid(pid) # {} ELSE owner.crashed
  <1>1. TypeOK
    BY DEF OwnerInv
  <1>2. owner' = [owner EXCEPT !.servers = servers, !.uninit = uninit, !.crashed = crashed]
    <2>1. CASE pid \in Owners!PidsAlive
      BY <1>1, <2>1 DEF Owners!GiveUp, Owners!Killed, KilledServers, TypeOK, OwnerState
    <2>2. CASE pid \notin Owners!PidsAlive
      BY <1>1, <2>2 DEF Owners!GiveUp, TypeOK, OwnerState
    <2> QED
      BY <2>1, <2>2
  <1>3. /\ uninit.knew = owner.uninit.knew /\ uninit.pid = pid /\ uninit.pc = "deleting"
        /\ uninit \in [pc : {"idle", "stopping", "waiting", "deleting"},
                       pid : Pids \union {0}, knew : SUBSET Nat, ignored : BOOLEAN]
    BY <1>1 DEF TypeOK, OwnerState
  <1> HIDE DEF uninit, servers, crashed
  <1>4. /\ owner'.servers = servers /\ owner'.file = owner.file
        /\ owner'.commands = owner.commands /\ owner'.uninit = uninit
        /\ owner'.strangers = owner.strangers
        /\ owner'.overlapped = owner.overlapped /\ owner'.crashed = crashed
    BY <1>1, <1>2 DEF TypeOK, OwnerState
  <1>5. /\ owner'.servers \in Seq(ServerType) /\ owner'.crashed \in BOOLEAN
        /\ QuietServer
        /\ \A k \in Owners!Alive' : Owners!Server(k)'.pid # pid
    <2>1. CASE pid \in Owners!PidsAlive
      BY <1>1, <1>4, <2>1, KilledOnly DEF servers, crashed
    <2>2. CASE pid \notin Owners!PidsAlive
      <3>1. owner'.servers = owner.servers /\ owner'.crashed = owner.crashed
        BY <1>4, <2>2 DEF servers, crashed
      <3>2. QuietServer
        BY <1>4, <3>1 DEF QuietServer, Grows
      <3>3. \A k \in Owners!Alive : Owners!Server(k).pid # pid
        BY <2>2 DEF Owners!PidsAlive
      <3>4. Owners!Alive' = Owners!Alive
        BY <3>1 DEF Owners!Alive
      <3>5. owner'.servers \in Seq(ServerType) /\ owner'.crashed \in BOOLEAN
        BY <1>1, <3>1 DEF TypeOK, OwnerState
      <3> QED
        BY <3>1, <3>2, <3>3, <3>4, <3>5
    <2> QED
      BY <2>1, <2>2
  <1>6. TypeOK'
    BY <1>1, <1>2, <1>3, <1>4, <1>5 DEF TypeOK, OwnerState
  <1>7. /\ owner.uninit.knew \intersect Owners!HasGraph' \subseteq owner.uninit.knew \intersect Owners!HasGraph
        /\ \A k \in owner.uninit.knew :
               k \in DOMAIN owner'.servers /\ Owners!Stage(k)' # "starting" /\ Owners!Server(k)'.pid = Owners!Server(k).pid
    BY <1>3, <1>4, <1>5, KnownLetGo DEF OwnerInv, QuietServer
  <1>8. Target'
    BY <1>3, <1>4, <1>7 DEF Target
  <1>9. Owners!UninitFindsTheGraphClosed'
    <2> SUFFICES ASSUME ~owner'.overlapped, NEW k \in owner.uninit.knew, k \in Owners!HasGraph'
                 PROVE  FALSE
      BY <1>3, <1>4 DEF Owners!UninitFindsTheGraphClosed
    <2>1. Owners!Server(k).pid = pid
      BY <1>4, <1>7 DEF OwnerInv, Target, Owners!GiveUp
    <2>2. k \in Owners!Alive'
      BY DEF Owners!HasGraph, Owners!Here
    <2> QED
      BY <1>5, <1>7, <2>1, <2>2
  <1> QED
    BY <1>4, <1>5, <1>6, <1>8, <1>9, QuietKeeps, PidsKept, CommandsKept DEF OwnerInv, QuietServer
-----------------------------------------------------------------------------
(* A server begins, and a workspace. *)

LEMMA Appended ==
  ASSUME NEW s \in Seq(ServerType), NEW v \in ServerType
  PROVE  /\ Append(s, v) \in Seq(ServerType)
         /\ DOMAIN Append(s, v) = DOMAIN s \union {Len(s) + 1}
         /\ Len(s) + 1 \notin DOMAIN s
         /\ Append(s, v)[Len(s) + 1] = v
         /\ \A j \in DOMAIN s : Append(s, v)[j] = s[j]
  OBVIOUS

LEMMA LaunchIInv == ASSUME Owners!WorkspacesAssumption, OwnerInv, Owners!Launch PROVE OwnerInv'
  <1>1. PICK pid \in Pids \ Owners!PidsAlive, here \in Workspaces[Len(owner.servers) + 1] :
          owner' = [owner EXCEPT
                      !.servers = Append(owner.servers, [stage |-> "starting", here |-> here, pid |-> pid,
                                                         port |-> 0, watching |-> FALSE]),
                      !.overlapped = owner.overlapped \/ (here /\ Owners!Here # {})]
    BY DEF Owners!Launch
  <1> DEFINE v == [stage |-> "starting", here |-> here, pid |-> pid, port |-> 0, watching |-> FALSE]
  <1>2. TypeOK /\ owner.servers \in Seq(ServerType) /\ Len(owner.servers) \in Nat
    BY DEF OwnerInv, TypeOK, OwnerState
  <1>b. PICK new \in Nat : new = Len(owner.servers) + 1
    BY <1>2
  <1>3. here \in BOOLEAN
    <2>1. Workspaces[Len(owner.servers) + 1] \subseteq BOOLEAN
      BY <1>2 DEF Owners!Launch, Owners!WorkspacesAssumption
    <2> QED
      BY <2>1
  <1>4. v \in ServerType /\ v.stage = "starting" /\ v.pid = pid
    BY <1>3 DEF ServerType, Stages
  <1>5. /\ owner'.servers = Append(owner.servers, v) /\ owner'.file = owner.file
        /\ owner'.commands = owner.commands /\ owner'.uninit = owner.uninit
        /\ owner'.strangers = owner.strangers
        /\ owner.overlapped => owner'.overlapped
        /\ v.here /\ Owners!Here # {} => owner'.overlapped
        /\ owner'.overlapped \in BOOLEAN
        /\ owner'.crashed = owner.crashed
    <2>1. CASE here = TRUE
      BY <1>1, <1>2, <2>1 DEF TypeOK, OwnerState
    <2>2. CASE here = FALSE
      BY <1>1, <1>2, <2>2 DEF TypeOK, OwnerState
    <2> QED
      BY <1>3, <2>1, <2>2
  <1> HIDE DEF v
  <1>6. /\ owner'.servers \in Seq(ServerType)
        /\ DOMAIN owner'.servers = DOMAIN owner.servers \union {new} /\ new \notin DOMAIN owner.servers
        /\ owner'.servers[new] = v
        /\ \A j \in DOMAIN owner.servers : Owners!Server(j)' = Owners!Server(j)
    BY <1>2, <1>4, <1>5, <1>b, Appended
  <1>7. TypeOK'
    BY <1>1, <1>2, <1>5, <1>6 DEF TypeOK, OwnerState
  <1>8. Grows
    BY <1>5, <1>6 DEF Grows
  <1>9. Owners!Alive' = Owners!Alive \union {new}
    BY <1>4, <1>6 DEF Owners!Alive
  <1>a. Owners!Here \subseteq Owners!Here' /\ Owners!Here' \subseteq Owners!Here \union {new}
            /\ (new \in Owners!Here' <=> v.here)
    BY <1>6, <1>9 DEF Owners!Here, Owners!Alive
  <1>10. PidsApart'
    <2>1. \A k \in Owners!Alive : Owners!Server(k)'.pid = Owners!Server(k).pid /\ Owners!Server(k).pid # pid
      BY <1>1, <1>6 DEF Owners!Alive, Owners!PidsAlive
    <2>2. owner'.servers[new].pid = pid /\ pid \notin owner.strangers
      BY <1>1, <1>4, <1>6 DEF Owners!PidsAlive
    <2>3. \A j, k \in Owners!Alive : Owners!Server(j)'.pid = Owners!Server(k)'.pid => j = k
      BY <2>1 DEF OwnerInv, PidsApart
    <2>4. \A k \in Owners!Alive : Owners!Server(k)'.pid \notin owner.strangers
      BY <2>1 DEF OwnerInv, PidsApart
    <2>5. owner'.strangers = owner.strangers
      BY <1>5
    <2> QED
      BY <1>9, <2>1, <2>2, <2>3, <2>4, <2>5 DEF PidsApart
  <1>11. FileKnown'
    BY <1>5, <1>6 DEF OwnerInv, FileKnown, Ours
  <1>12. OneAtATime'
    BY <1>5, <1>a DEF OwnerInv, OneAtATime
  <1>13. PublishedUntilClosed'
    BY <1>4, <1>5, <1>6, <1>a DEF OwnerInv, PublishedUntilClosed, Holding, Owners!Here, Owners!Alive
  <1>14. FileOfTheLiving'
    BY <1>5, <1>a DEF OwnerInv, FileOfTheLiving
  <1> QED
    BY <1>5, <1>7, <1>8, <1>10, <1>11, <1>12, <1>13, <1>14, TargetKept, CommandsKept DEF OwnerInv

LEMMA FreshIInv == Owners!Init => OwnerInv
  <1> SUFFICES ASSUME owner = Owners!Fresh PROVE OwnerInv
    BY DEF Owners!Init
  <1>1. /\ owner.servers = <<>> /\ owner.file = Owners!NoFile /\ owner.strangers = {}
        /\ owner.commands = [c \in Commands |-> Owners!Idle]
        /\ owner.uninit = [pc |-> "idle", pid |-> 0, knew |-> {}, ignored |-> FALSE]
    BY DEF Owners!Fresh
  <1>2. TypeOK
    BY DEF Owners!Fresh, TypeOK, OwnerState, CommandType, Owners!Idle
  <1>3. Owners!Alive = {} /\ Owners!Here = {}
    BY <1>1 DEF Owners!Alive, Owners!Here
  <1>4. CommandsKnow
    BY <1>1 DEF CommandsKnow, Owners!Idle
  <1> QED
    BY <1>1, <1>2, <1>3, <1>4
    DEF OwnerInv, PidsApart, FileKnown, OneAtATime, PublishedUntilClosed, FileOfTheLiving, Target,
        Owners!UninitFindsTheGraphClosed

LEMMA NewWorkspaceIInv == ASSUME Owners!Delete \/ Owners!Renew PROVE OwnerInv'
  <1>1. Owners!Init'
    BY DEF Owners!Delete, Owners!Renew, Owners!Init
  <1>2. (Owners!Init => OwnerInv)'
    BY FreshIInv, PTL
  <1> QED
    BY <1>1, <1>2

LEMMA Inductive == ASSUME Owners!WorkspacesAssumption PROVE Owners!Spec => []OwnerInv
  <1>1. ASSUME OwnerInv, [Owners!Next]_owner PROVE OwnerInv'
    <2>1. CASE Owners!Launch
      BY <1>1, <2>1, LaunchIInv
    <2>2. CASE Owners!Reuse
      BY <1>1, <2>2, ReuseIInv
    <2>3. CASE Owners!Uninit
      BY <1>1, <2>3, UninitIInv
    <2>4. CASE Owners!Stop
      BY <1>1, <2>4, StopIInv
    <2>5. CASE Owners!GiveUp
      BY <1>1, <2>5, GiveUpIInv
    <2>6. CASE Owners!Delete \/ Owners!Renew
      BY <2>6, NewWorkspaceIInv
    <2>7. CASE \E k \in DOMAIN owner.servers : Owners!RunServer(k)
      BY <1>1, <2>7, MoveSteps, PublishIInv, RemoveFileIInv, DieIInv DEF Owners!RunServer
    <2>8. CASE \E c \in Commands : Owners!Find(c) \/ Owners!Health(c) \/ Owners!Ensure(c) \/ Owners!Poll(c) \/ Owners!Interrupt(c)
      BY <1>1, <2>8, CommandSteps
    <2>9. CASE owner' = owner
      BY <1>1, <2>9
      DEF OwnerInv, TypeOK, PidsApart, FileKnown, Ours, CommandsKnow, OneAtATime, PublishedUntilClosed,
          FileOfTheLiving, Target, Owners!UninitFindsTheGraphClosed, Owners!Alive, Owners!Here, Owners!HasGraph
    <2>10. CASE Owners!GrowOld
      BY <1>1, <2>10, GrowOldIInv
    <2> QED
      BY <1>1, <2>1, <2>2, <2>3, <2>4, <2>5, <2>6, <2>7, <2>8, <2>9, <2>10 DEF Owners!Next
  <1> QED
    BY <1>1, FreshIInv, PTL DEF Owners!Spec
-----------------------------------------------------------------------------
\* A command that says it is attached was answered by the server of its
\* workspace that wrote the file; uninit deletes nothing that a server it knew
\* has open, unless the file of that server was too old to be believed; servers that came one after the other leave no file: whichever
\* processes die, and whoever gets their process ids and ports.
THEOREM OwnersAreHonest ==
    ASSUME Owners!WorkspacesAssumption PROVE Owners!Spec => []Owners!OwnershipIsHonest
  <1>1. ASSUME OwnerInv PROVE Owners!OwnershipIsHonest
    <2>1. Owners!AttachedToTheOwner
      BY <1>1 DEF OwnerInv, CommandsKnow, Owners!AttachedToTheOwner, Ours
    <2>2. Owners!NoFileIsLeft
      BY <1>1 DEF OwnerInv, FileOfTheLiving, Owners!NoFileIsLeft
    <2> QED
      BY <1>1, <2>1, <2>2 DEF OwnerInv, Owners!OwnershipIsHonest
  <1> QED
    BY <1>1, Inductive, PTL

HIDE DEF Owners!Server, Owners!Stage, Owners!At, Owners!File, Owners!NoFile
-----------------------------------------------------------------------------
(* The whole: what is asked first decides which component runs. *)

\* ClientSession's promises hold of every behaviour the run of the services checks, for
\* any callers and operations (SDK client, logiclens.ts).
THEOREM ClientsOfTheWhole == WholeSpec => []ClientKeepsOrder
<1>1. Init => Clients!Init
  BY DEF Init
<1>2. [Next]_vars => [Clients!Next]_client
  BY DEF Next, vars, Ask, Answer, machines
<1>3. Clients!Spec => []ClientKeepsOrder
  BY ClientsKeepOrder, ServicesAssumption DEF ClientKeepsOrder, ServicesAssumption
<1> QED
  BY <1>1, <1>2, <1>3, PTL DEF WholeSpec, Clients!Spec

\* OwnerServer's promises hold of every behaviour the run of the services checks, for
\* any process ids, ports and commands (owner RPC, uninit).
THEOREM OwnersOfTheWhole == WholeSpec => []OwnershipIsHonest
<1>1. Init => Owners!Init
  BY DEF Init
<1>2. [Next]_vars => [Owners!Next]_owner
  BY DEF Next, vars, Ask, Answer, machines
<1>3. Owners!Spec => []OwnershipIsHonest
  BY OwnersAreHonest, ServicesAssumption DEF OwnershipIsHonest, ServicesAssumption
<1> QED
  BY <1>1, <1>2, <1>3, PTL DEF WholeSpec, Owners!Spec

\* The phases are proved about in a module of their own, which has them of the same
\* variable and the same constants.
PhaseProofs == INSTANCE ProviderRunProofs

\* They are the same phases: their definitions agree one by one.
LEMMA SamePhases ==
    /\ Phases!Init <=> PhaseProofs!Init
    /\ Phases!Next <=> PhaseProofs!Next
    /\ Phases!RequestsAssumption <=> PhaseProofs!RequestsAssumption
    /\ Phases!PolicyIsKept <=> PhaseProofs!PolicyIsKept
    /\ Phases!EveryTextIsServed <=> PhaseProofs!EveryTextIsServed
<1>1. Phases!Init <=> PhaseProofs!Init
  BY DEF Phases!Init, PhaseProofs!Init, Phases!Idle, PhaseProofs!Idle
<1>2. Phases!RequestsAssumption <=> PhaseProofs!RequestsAssumption
  BY DEF Phases!RequestsAssumption, PhaseProofs!RequestsAssumption, Phases!PolicyType,
      PhaseProofs!PolicyType, Phases!ErrorType, PhaseProofs!ErrorType, Phases!buildSummaryTasks,
      PhaseProofs!buildSummaryTasks, Phases!Seqs!FlattenSeq, PhaseProofs!Seqs!FlattenSeq
<1>3. Phases!PolicyIsKept <=> PhaseProofs!PolicyIsKept
  BY DEF Phases!PolicyIsKept, PhaseProofs!PolicyIsKept, Phases!Idle, PhaseProofs!Idle,
      Phases!Workers, PhaseProofs!Workers, Phases!Total, PhaseProofs!Total
<1>4. Phases!EveryTextIsServed <=> PhaseProofs!EveryTextIsServed
  BY DEF Phases!EveryTextIsServed, PhaseProofs!EveryTextIsServed, Phases!Ended, PhaseProofs!Ended,
      Phases!Idle, PhaseProofs!Idle, Phases!Workers, PhaseProofs!Workers, Phases!NOTHING,
      PhaseProofs!NOTHING, Phases!LOCAL_TEXT, PhaseProofs!LOCAL_TEXT, Phases!Cardinality,
      PhaseProofs!Cardinality
<1>5. Phases!Begin <=> PhaseProofs!Begin
  BY DEF Phases!Begin, PhaseProofs!Begin, Phases!Idle, PhaseProofs!Idle, Phases!Free,
      PhaseProofs!Free, Phases!NOTHING, PhaseProofs!NOTHING, Phases!BatchesOf,
      PhaseProofs!BatchesOf, Phases!WorkersOf, PhaseProofs!WorkersOf, Phases!TextsOf,
      PhaseProofs!TextsOf, Phases!chunks, PhaseProofs!chunks, Phases!buildSummaryTasks,
      PhaseProofs!buildSummaryTasks, Phases!summarizeReposAndSystem,
      PhaseProofs!summarizeReposAndSystem, Phases!Seqs!FlattenSeq, PhaseProofs!Seqs!FlattenSeq,
      Phases!Policy!Least, PhaseProofs!Policy!Least, Phases!Policy!createProviderCallStats,
      PhaseProofs!Policy!createProviderCallStats, Phases!Policy!createProviderCallRuntime,
      PhaseProofs!Policy!createProviderCallRuntime
<1>6. \A w : /\ Phases!First(w) <=> PhaseProofs!First(w)
             /\ Phases!Enter(w) = PhaseProofs!Enter(w) /\ Phases!Leave = PhaseProofs!Leave
  BY DEF Phases!First, PhaseProofs!First, Phases!Enter, PhaseProofs!Enter, Phases!Leave,
      PhaseProofs!Leave
<1>7. \A w, todo, answers : Phases!NextPart(w, todo, answers) = PhaseProofs!NextPart(w, todo, answers)
  BY DEF Phases!NextPart, PhaseProofs!NextPart, Phases!Given, PhaseProofs!Given, Phases!Free,
      PhaseProofs!Free, Phases!Enter, PhaseProofs!Enter
<1>8. \A w, error : Phases!GiveUp(w, error) = PhaseProofs!GiveUp(w, error)
  BY DEF Phases!GiveUp, PhaseProofs!GiveUp, Phases!NextPart, PhaseProofs!NextPart, Phases!Given,
      PhaseProofs!Given, Phases!Free, PhaseProofs!Free, Phases!Enter, PhaseProofs!Enter,
      Phases!TextsOf, PhaseProofs!TextsOf, Phases!Split, PhaseProofs!Split, Phases!RefusedAlone,
      PhaseProofs!RefusedAlone, Phases!NOTHING, PhaseProofs!NOTHING, Phases!LOCAL_TEXT,
      PhaseProofs!LOCAL_TEXT, Phases!ShouldSplit, PhaseProofs!ShouldSplit,
      Phases!Policy!classifyProviderError, PhaseProofs!Policy!classifyProviderError
<1>9. \A w, kind, error, delay :
          Phases!Failed(w, kind, error, delay) <=> PhaseProofs!Failed(w, kind, error, delay)
  BY <1>8 DEF Phases!Failed, PhaseProofs!Failed, Phases!Policy!recordFailure,
      PhaseProofs!Policy!recordFailure, Phases!Policy!retryable, PhaseProofs!Policy!retryable
<1>10. \A texts : Phases!Refused(texts) <=> PhaseProofs!Refused(texts)
  BY DEF Phases!Refused, PhaseProofs!Refused
<1>11. \A w : Phases!Take(w) <=> PhaseProofs!Take(w)
  BY DEF Phases!Take, PhaseProofs!Take, Phases!Free, PhaseProofs!Free, Phases!Enter,
      PhaseProofs!Enter
<1>12. \A w : Phases!ReserveBudget(w) <=> PhaseProofs!ReserveBudget(w)
  BY <1>6, <1>8 DEF Phases!ReserveBudget, PhaseProofs!ReserveBudget, Phases!Turn, PhaseProofs!Turn,
      Phases!Exhausted, PhaseProofs!Exhausted, Phases!Policy!estimatedTokens,
      PhaseProofs!Policy!estimatedTokens, Phases!Policy!budgetExhausted,
      PhaseProofs!Policy!budgetExhausted, Phases!Policy!recordFailure,
      PhaseProofs!Policy!recordFailure, Phases!Policy!reserveBudget,
      PhaseProofs!Policy!reserveBudget
<1>13. \A w : Phases!QueueAttempt(w) <=> PhaseProofs!QueueAttempt(w)
  BY DEF Phases!QueueAttempt, PhaseProofs!QueueAttempt, Phases!Enter, PhaseProofs!Enter
<1>14. \A w : Phases!StartCall(w) <=> PhaseProofs!StartCall(w)
  BY DEF Phases!StartCall, PhaseProofs!StartCall, Phases!Turn, PhaseProofs!Turn, Phases!First,
      PhaseProofs!First, Phases!Leave, PhaseProofs!Leave, Phases!Policy!rateLimitDelay,
      PhaseProofs!Policy!rateLimitDelay, Phases!Policy!reserveAttempt,
      PhaseProofs!Policy!reserveAttempt, Phases!Policy!Least, PhaseProofs!Policy!Least
<1>15. \A w : Phases!Answered(w) <=> PhaseProofs!Answered(w)
  BY <1>7, <1>10 DEF Phases!Answered, PhaseProofs!Answered
<1>16. \A w : Phases!Refuse(w) <=> PhaseProofs!Refuse(w)
  BY <1>9, <1>10 DEF Phases!Refuse, PhaseProofs!Refuse
<1>17. \A w : Phases!CallFails(w) <=> PhaseProofs!CallFails(w)
  BY <1>9 DEF Phases!CallFails, PhaseProofs!CallFails, Phases!Policy!classifyProviderError,
      PhaseProofs!Policy!classifyProviderError, Phases!Policy!retryDelay,
      PhaseProofs!Policy!retryDelay, Phases!Policy!Least, PhaseProofs!Policy!Least
<1>18. \A w : Phases!TimeOut(w) <=> PhaseProofs!TimeOut(w)
  BY <1>9 DEF Phases!TimeOut, PhaseProofs!TimeOut, Phases!Exhausted, PhaseProofs!Exhausted,
      Phases!Policy!retryDelay, PhaseProofs!Policy!retryDelay, Phases!Policy!Least,
      PhaseProofs!Policy!Least
<1>19. (Phases!Tick <=> PhaseProofs!Tick) /\ (Phases!Finish <=> PhaseProofs!Finish)
  BY DEF Phases!Tick, PhaseProofs!Tick, Phases!Finish, PhaseProofs!Finish, Phases!Ended,
      PhaseProofs!Ended, Phases!Idle, PhaseProofs!Idle, Phases!Workers, PhaseProofs!Workers
<1>20. Phases!Next <=> PhaseProofs!Next
  BY <1>5, <1>11, <1>12, <1>13, <1>14, <1>15, <1>16, <1>17, <1>18, <1>19 DEF Phases!Next,
      PhaseProofs!Next, Phases!Step, PhaseProofs!Step, Phases!Idle, PhaseProofs!Idle,
      Phases!Workers, PhaseProofs!Workers
<1> QED
  BY <1>1, <1>2, <1>3, <1>4, <1>20

\* ProviderRun's promises hold of every behaviour the run of the services checks, for
\* any phases and policies (embeddings, summaries of nodes and of repositories).
THEOREM PhasesOfTheWhole == WholeSpec => []PhasesKeepTheirWord
<1>1. Init => PhaseProofs!Init
  BY SamePhases DEF Init
<1>2. [Next]_vars => [PhaseProofs!Next]_work
  BY SamePhases DEF Next, vars, Ask, Answer, machines
<1>3. PhaseProofs!Spec => [](PhaseProofs!PolicyIsKept /\ PhaseProofs!EveryTextIsServed)
  BY PhaseProofs!PhasesKeepPolicyAndService, SamePhases, ServicesAssumption DEF ServicesAssumption
<1>4. PhaseProofs!PolicyIsKept /\ PhaseProofs!EveryTextIsServed => PhasesKeepTheirWord
  BY SamePhases DEF PhasesKeepTheirWord
<1> QED
  BY <1>1, <1>2, <1>3, <1>4, PTL DEF WholeSpec, PhaseProofs!Spec
=============================================================================

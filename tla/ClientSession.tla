----------------------------- MODULE ClientSession ------------------------------
(***************************************************************************)
(* A client of the SDK (interfaces/sdk/client.ts): one lazily opened       *)
(* connection to the graph, the queue of its index runs, two memoized      *)
(* answers (the planning context and the gate of the lexical provider), a  *)
(* file watcher, and callers whose calls interleave at every await, the    *)
(* one that closes the client among them.                                  *)
(***************************************************************************)
LOCAL INSTANCE Integers
LOCAL INSTANCE Sequences

CONSTANTS
    Callers,       \* those that call the client, one call at a time each
    Operations,    \* the operations that are called
    MaxCalls,      \* bound on the calls of a behaviour
    MaxOpens       \* bound on the connections opened

OperationsAssumption ==
    Operations \subseteq {"read", "impact", "ask", "index", "status", "refresh",
                         "addRepo", "addRepos", "watch", "unwatch", "close"}

VARIABLE client

Idle == [pc |-> "idle", op |-> "", db |-> 0, job |-> 0, waits |-> 0, gate |-> 0, planning |-> 0, watcher |-> 0,
         runs |-> 0, repos |-> 0, early |-> FALSE]

\* Connections, loads of the memoized answers and watchers are numbered as they
\* come; promise, instance, gate, planning and watcher are the client's own
\* references to them, 0 for none.  runs and repos count the index calls that
\* returned and the changes of the configuration.  The last three tell what
\* kind of behaviour this is.
Fresh ==
    [conns |-> <<>>, promise |-> 0, instance |-> 0, closed |-> FALSE, queue |-> <<>>, jobs |-> 0,
     loads |-> <<>>, gate |-> 0, planning |-> 0, runs |-> 0, repos |-> 0, watchers |-> <<>>, watcher |-> 0,
     calls |-> [u \in Callers |-> Idle], made |-> 0,
     closing |-> FALSE, leaked |-> FALSE, disturbed |-> FALSE]
Init == client = Fresh

call(u) == client.calls[u]
At(u, pc) == call(u).pc = pc
Ended(s, u) == [s EXCEPT !.calls[u] = Idle]
-----------------------------------------------------------------------------
(* The connection. *)

Opening == {"opening", "created", "failing"}
Held == Opening \union {"open", "closing"}
Heard == {"open", "closing", "closed"}       \* the promise was fulfilled

\* getDb: refused, or the promise there is, or a new one (:193-205).
OpenIsBounded(s) == s.closed \/ s.promise # 0 \/ Len(s.conns) < MaxOpens
GetDb(s, u) ==
    IF s.closed THEN Ended(s, u)
    ELSE IF s.promise # 0 THEN [s EXCEPT !.calls[u].pc = "db", !.calls[u].db = s.promise]
    ELSE [s EXCEPT !.conns = Append(@, "opening"), !.promise = Len(s.conns) + 1,
                   !.calls[u].pc = "db", !.calls[u].db = Len(s.conns) + 1]

\* openDb: the connection is made, the schema is initialized; where that fails
\* the connection is closed first and the promise forgotten then (:207-227).
Forget(s, c) == [s EXCEPT !.conns[c] = "failed", !.promise = 0]
Open(c) ==
    \/ /\ client.conns[c] = "opening"
       /\ client' \in {Forget(client, c), [client EXCEPT !.conns[c] = "created"]}
    \/ /\ client.conns[c] = "created"
       /\ client' \in {[client EXCEPT !.conns[c] = "open", !.instance = c], [client EXCEPT !.conns[c] = "failing"]}
    \/ /\ client.conns[c] = "failing"
       /\ client' = [Forget(client, c) EXCEPT !.instance = 0]
-----------------------------------------------------------------------------
(* The memoized answers: a load remembers when it was asked for. *)

NewLoad(s, of) == [of |-> of, runs |-> s.runs, repos |-> s.repos, state |-> "loading", db |-> 0]

\* getQueryPlanningContext (:157-176).
GetPlanning(s, u) ==
    IF s.planning # 0 THEN [s EXCEPT !.calls[u].pc = "planning", !.calls[u].planning = s.planning]
    ELSE [s EXCEPT !.loads = Append(@, NewLoad(s, "planning")), !.planning = Len(s.loads) + 1,
                   !.calls[u].pc = "planning", !.calls[u].planning = Len(s.loads) + 1]

\* getLexicalProviderGate (:242-261).
GetGate(s, u) ==
    IF s.closed THEN Ended(s, u)
    ELSE IF s.gate # 0 THEN [s EXCEPT !.calls[u].pc = "gate", !.calls[u].gate = s.gate]
    ELSE [s EXCEPT !.loads = Append(@, NewLoad(s, "gate")), !.gate = Len(s.loads) + 1,
                   !.calls[u].pc = "gate", !.calls[u].gate = Len(s.loads) + 1]

\* A load of the gate asks for the connection once its provider is found, and
\* one that fails is forgotten: the gate if it is still the one remembered, the
\* planning context whatever is.  A store that cannot tell its health answers
\* "unavailable", which is remembered (provider.ts:244-252).
Rejected(s, l) ==
    [s EXCEPT !.loads[l].state = "failed",
              !.gate = IF s.loads[l].of = "gate" /\ @ = l THEN 0 ELSE @,
              !.planning = IF s.loads[l].of = "planning" THEN 0 ELSE @]
AskDb(s, l) ==
    IF s.closed THEN Rejected(s, l)
    ELSE IF s.promise # 0 THEN [s EXCEPT !.loads[l].db = s.promise]
    ELSE [s EXCEPT !.conns = Append(@, "opening"), !.promise = Len(s.conns) + 1, !.loads[l].db = Len(s.conns) + 1]
Settled(s, l, failed) == IF failed THEN Rejected(s, l) ELSE [s EXCEPT !.loads[l].state = "ready"]
Load(l) ==
    /\ client.loads[l].state = "loading"
    /\ IF client.loads[l].of = "gate" /\ client.loads[l].db = 0
       THEN OpenIsBounded(client) /\ client' = AskDb(client, l)
       ELSE \E failed \in BOOLEAN :
              /\ client.loads[l].of = "gate" =>
                   \/ client.conns[client.loads[l].db] \in Heard
                   \/ client.conns[client.loads[l].db] = "failed" /\ failed
              /\ client' = Settled(client, l, failed)

LoadEnds(u, l, Then(_, _)) ==
    \/ client.loads[l].state = "failed" /\ client' = Ended(client, u)
    \/ client.loads[l].state = "ready" /\ client' = Then(client, u)
-----------------------------------------------------------------------------
(* Index runs: a job of the queue opens the connection when its turn comes. *)

Enqueued(s, u) ==
    [s EXCEPT !.queue = Append(@, s.jobs + 1), !.jobs = @ + 1,
              !.calls[u] = [@ EXCEPT !.pc = "queued", !.job = s.jobs + 1, !.early = ~s.closing]]
Run(u) ==
    /\ At(u, "queued") /\ Head(client.queue) = call(u).job
    /\ OpenIsBounded(client)
    /\ client' = IF client.closed THEN [client EXCEPT !.queue = Tail(@), !.calls[u].pc = "returning"]
                 ELSE GetDb(client, u)
RunEnds(u) ==
    /\ At(u, "indexing")
    /\ client' = [client EXCEPT !.queue = Tail(@), !.calls[u].pc = "returning"]

KeepGate(s) == [s EXCEPT !.planning = 0, !.runs = @ + 1]
\* The finally of index: both answers are forgotten (:373-376).
Invalidated(s) == [s EXCEPT !.planning = 0, !.gate = 0, !.runs = @ + 1]
Return(u) == At(u, "returning") /\ client' = Ended(Invalidated(client), u)
-----------------------------------------------------------------------------
(* The other calls. *)

\* addRepo and addRepos replace the configuration and forget the planning
\* context in one step; addRepos then indexes what it found, when asked (:287-351).
Configured(s) == [s EXCEPT !.repos = @ + 1, !.planning = 0]
Discovered(u) ==
    /\ At(u, "discovering")
    /\ \/ client' = Ended(client, u)                      \* the directory is unreadable
       \/ client' = Ended(Configured(client), u)
       \/ client' = Enqueued(Configured(client), u)

\* What a call does once it has its connection.
GotDb(u) ==
    /\ At(u, "db")
    /\ \/ /\ client.conns[call(u).db] = "failed"
          /\ client' = IF call(u).op = "index"
                       THEN [client EXCEPT !.queue = Tail(@), !.calls[u].pc = "returning"]
                       ELSE Ended(client, u)
       \/ /\ client.conns[call(u).db] \in Heard
          /\ client' = CASE call(u).op = "index" -> [client EXCEPT !.calls[u].pc = "indexing"]
                         [] call(u).op = "ask" -> GetPlanning(client, u)
                         [] OTHER -> [client EXCEPT !.calls[u].pc = "using"]
\* An impact asks for the connection again in the middle (:500-502).
Used(u) ==
    /\ At(u, "using")
    /\ \/ client' = Ended(client, u)
       \/ call(u).op = "impact" /\ OpenIsBounded(client) /\ client' = [GetDb(client, u) EXCEPT !.calls[u].op = "read"]

\* retrieveNormalized: connection, planning context, gate, in this order; the
\* status of the provider is the gate alone (:263-265, :657-676).
Planned(u) == At(u, "planning") /\ LoadEnds(u, call(u).planning, GetGate)
Gated(u) ==
    /\ At(u, "gate")
    /\ LoadEnds(u, call(u).gate, LAMBDA s, v : [s EXCEPT !.calls[v].pc = "answering"])
Answered(u) == At(u, "answering") /\ client' = Ended(client, u)
-----------------------------------------------------------------------------
(* The watcher: start installs its watchers over several awaits, and only   *)
(* the last of them makes it active (watcher.ts:358-417).                    *)

Live == {"starting", "installed"}

\* FileWatcher.stop closes what is installed by now; a start under way goes on
\* (watcher.ts:634-637).
StopWatcher(s) ==
    IF s.watcher = 0 THEN s
    ELSE [s EXCEPT !.watchers[s.watcher] = CASE @ = "active" -> "stopped" [] @ = "installed" -> "starting" [] OTHER -> @,
                   !.watcher = 0, !.disturbed = @ \/ s.watchers[s.watcher] \in Live]
Watch(s, u) ==
    [s EXCEPT !.watchers = Append(@, "starting"), !.watcher = Len(s.watchers) + 1,
              !.calls[u].pc = "watching", !.calls[u].watcher = Len(s.watchers) + 1]
Install(u) ==
    /\ At(u, "watching") /\ client.watchers[call(u).watcher] = "starting"
    /\ client' = [client EXCEPT !.watchers[call(u).watcher] = "installed"]
\* A start that failed stops whatever watcher the client has by now (:734-739).
Started(u) ==
    /\ At(u, "watching")
    /\ \/ client' = Ended([client EXCEPT !.watchers[call(u).watcher] = "active"], u)
       \/ client' = Ended(StopWatcher([client EXCEPT !.watchers[call(u).watcher] = "stopped"]), u)
-----------------------------------------------------------------------------
(* Closing: the index runs accepted so far end first (:869-883). *)

BeginClose(s, u) ==
    IF s.closed THEN StopWatcher(s)
    ELSE [StopWatcher(s) EXCEPT !.calls[u].pc = "draining", !.calls[u].waits = s.jobs, !.closing = TRUE]

SkipDrain(s, u) == TRUE
Drained(s, u) == \A k \in DOMAIN s.queue : s.queue[k] > s.calls[u].waits

\* A connection still being opened is not the client's yet, and stays.
Closed(s, u) ==
    Ended([s EXCEPT !.instance = 0, !.promise = 0, !.gate = 0, !.closed = TRUE,
                    !.leaked = @ \/ \E c \in DOMAIN s.conns : s.conns[c] \in Opening], u)
Drain(u) ==
    /\ At(u, "draining") /\ Drained(client, u)
    /\ client' = IF client.instance = 0 THEN Closed(client, u)
                 ELSE [client EXCEPT !.conns[client.instance] = "closing", !.calls[u].pc = "closing",
                                     !.calls[u].db = client.instance]
Close(u) ==
    /\ At(u, "closing")
    /\ \/ client' = Closed([client EXCEPT !.conns[call(u).db] = "closed"], u)
       \/ /\ client.conns[call(u).db] = "closing"         \* it will not close; nor is the client closed
          /\ client' = Ended([client EXCEPT !.conns[call(u).db] = "open"], u)
-----------------------------------------------------------------------------
(* A call begins. *)

Called(op, u) ==
    [client EXCEPT !.made = @ + 1, !.calls[u] = [Idle EXCEPT !.op = op, !.runs = client.runs, !.repos = client.repos]]
Begin(u) ==
    /\ At(u, "idle")
    /\ client.made < MaxCalls /\ OpenIsBounded(client)
    /\ \E op \in Operations :
         CASE op \in {"read", "impact", "ask"} -> client' = GetDb(Called(op, u), u)
           [] op = "index" -> client' = Enqueued(Called(op, u), u)
           [] op = "status" -> client' = GetGate(Called(op, u), u)
           [] op = "refresh" -> client' = GetGate([Called(op, u) EXCEPT !.gate = IF client.closed THEN @ ELSE 0], u)
           [] op = "addRepo" -> client' = Ended(Configured(Called(op, u)), u)
           [] op = "addRepos" -> client' = [Called("index", u) EXCEPT !.calls[u].pc = "discovering"]
           [] op = "watch" -> client' = IF client.watcher # 0 THEN Ended(Called(op, u), u) ELSE Watch(Called(op, u), u)
           [] op = "unwatch" -> client' = Ended(StopWatcher(Called(op, u)), u)
           [] op = "close" -> client' = LET s == BeginClose(Called(op, u), u)
                                        IN IF s.calls[u].pc = "idle" THEN Ended(s, u) ELSE s

\* Another process, once a bound is reached.
Renew ==
    /\ ~OpenIsBounded(client) \/ (client.made = MaxCalls /\ \A u \in Callers : At(u, "idle"))
    /\ client' = Fresh

Next ==
    \/ \E u \in Callers :
         \/ Begin(u) \/ GotDb(u) \/ Used(u) \/ Planned(u) \/ Gated(u) \/ Answered(u)
         \/ Run(u) \/ RunEnds(u) \/ Return(u) \/ Discovered(u)
         \/ Install(u) \/ Started(u) \/ Drain(u) \/ Close(u)
    \/ \E c \in DOMAIN client.conns : Open(c)
    \/ \E l \in DOMAIN client.loads : Load(l)
    \/ Renew

Spec == Init /\ [][Next]_client
-----------------------------------------------------------------------------
(* Properties. *)

\* A client holds one connection at a time: a failed opening is released before
\* it is forgotten, and closing forgets the connection only when it is closed.
OneConnection ==
    \A c, d \in DOMAIN client.conns : client.conns[c] \in Held /\ client.conns[d] \in Held => c = d

\* An index run accepted before anybody closed the client has its connection
\* to the end (the onIdle of :876).
AcceptedRunsAreServed ==
    \A u \in Callers : At(u, "indexing") /\ call(u).early => client.conns[call(u).db] = "open"

\* A client that is closed holds nothing, unless a connection was being opened
\* as close ended (:877-882 look at what was opened, not at what will be).
ClosedMeansReleased ==
    client.closed /\ ~client.leaked => \A c \in DOMAIN client.conns : client.conns[c] \notin Held

\* A question uses a gate asked for after every index call that had returned,
\* and a planning context asked for after every change of the configuration
\* that was made, when the question was put.
AnswersFollowTheIndex ==
    \A u \in Callers : At(u, "answering") =>
        /\ client.loads[call(u).gate].runs >= call(u).runs
        /\ call(u).op = "ask" => client.loads[call(u).planning].repos >= call(u).repos

\* Unless the watcher was stopped while it started, a watcher that is active
\* is the client's own, the one that unwatch and close will stop.
WatcherIsOwned ==
    ~client.disturbed => \A w \in DOMAIN client.watchers : client.watchers[w] \in {"active"} \union Live => w = client.watcher

ClientKeepsOrder ==
    OneConnection /\ AcceptedRunsAreServed /\ ClosedMeansReleased /\ AnswersFollowTheIndex /\ WatcherIsOwned
=============================================================================

------------------------------ MODULE OwnerServer -------------------------------
(***************************************************************************)
(* Who owns a workspace: MCP servers (interfaces/mcp/server.ts) that       *)
(* publish themselves in a pid file once they listen, `watch` commands     *)
(* that attach to the server the file names (ownerRpc.ts, cli/watch.ts),   *)
(* and `uninit` that stops it and deletes the workspace (cli/uninit.ts).   *)
(* Processes die at any moment, process ids and ports are used again, and  *)
(* servers of another workspace run on the same machine.                   *)
(***************************************************************************)
LOCAL INSTANCE Integers
LOCAL INSTANCE Sequences

CONSTANTS
    Pids, Ports,   \* the numbers the system gives out
    Commands,      \* `watch` commands
    Workspaces,    \* for each server of a behaviour whether it may be of this workspace
    MaxCommands    \* bound on the commands of a behaviour

WorkspacesAssumption == Workspaces \in Seq(SUBSET BOOLEAN)

VARIABLE owner

\* A server is its number, and so is its token.  The file names one, with the
\* pid and the port it has; it is "torn" while it is written, and "old" after
\* seven days.
File(state, k) == [state |-> state, server |-> k]
NoFile == File("none", 0)
Idle == [pc |-> "idle", server |-> 0, answered |-> 0]

\* strangers: process ids that other programs have by now.  overlapped: two
\* servers of the workspace have run at a time, one over the other's file.
Fresh ==
    [servers |-> <<>>, strangers |-> {}, file |-> NoFile, commands |-> [c \in Commands |-> Idle], issued |-> 0,
     uninit |-> [pc |-> "idle", pid |-> 0, knew |-> {}, ignored |-> FALSE], overlapped |-> FALSE, crashed |-> FALSE]
Init == owner = Fresh

Server(k) == owner.servers[k]
Stage(k) == Server(k).stage
Alive == {k \in DOMAIN owner.servers : Stage(k) # "dead"}
Here == {k \in Alive : Server(k).here}
Moved(k, stage) == [owner EXCEPT !.servers[k].stage = stage]

\* The graph is open from the catch-up to the end of client.close; the port
\* from listen to the close of the cleanup.
HasGraph == {k \in Here : Stage(k) \notin {"starting", "closed"}}
Listening == {k \in Alive : Stage(k) \in {"listening", "publishing", "published", "unwatched"}}
PidsAlive == {Server(k).pid : k \in Alive} \union owner.strangers
-----------------------------------------------------------------------------
(* runMcpServer, step by step, and what ends it. *)

\* The watcher is awaited, the catch-up begins and takes the graph, the server
\* listens on a free port, and is published then (:298-314).
Launch ==
    /\ Len(owner.servers) < Len(Workspaces)
    /\ \E pid \in Pids \ PidsAlive, here \in Workspaces[Len(owner.servers) + 1] :
         owner' = [owner EXCEPT
                     !.servers = Append(@, [stage |-> "starting", here |-> here, pid |-> pid, port |-> 0, watching |-> FALSE]),
                     !.overlapped = @ \/ (here /\ Here # {})]
CatchUp(k) ==
    /\ Stage(k) = "starting"
    /\ \E watching \in BOOLEAN : owner' = [Moved(k, "indexing") EXCEPT !.servers[k].watching = watching]
Listen(k) ==
    /\ Stage(k) = "indexing"
    /\ \E port \in Ports \ {Server(j).port : j \in Listening} :
         owner' = [Moved(k, "listening") EXCEPT !.servers[k].port = port]
Publish(k) ==
    /\ Stage(k) \in {"listening", "publishing"}
    /\ owner' = IF Stage(k) = "listening"
                THEN [Moved(k, "publishing") EXCEPT !.file = IF Server(k).here THEN File("torn", k) ELSE @]
                ELSE [Moved(k, "published") EXCEPT !.file = IF Server(k).here THEN File("whole", k) ELSE @]

\* cleanup, once: the watcher stops, the port is closed, the client is closed,
\* and only then is the file removed, whoever wrote it (:318-342).
RemoveFirst(s, k) ==
    [s EXCEPT !.servers[k].stage = "unwatched", !.servers[k].watching = FALSE, !.file = IF s.servers[k].here THEN NoFile ELSE @]
Unwatched(s, k) == [s EXCEPT !.servers[k].stage = "unwatched", !.servers[k].watching = FALSE]
Terminate(k) == Stage(k) = "published" /\ owner' = Unwatched(owner, k)
StopListening(k) == Stage(k) = "unwatched" /\ owner' = Moved(k, "deaf")
CloseClient(k) == Stage(k) = "deaf" /\ owner' = [Moved(k, "closed") EXCEPT !.servers[k].watching = FALSE]
Dead(s, k) == [s EXCEPT !.servers[k].stage = "dead", !.servers[k].watching = FALSE]
RemoveFile(k) == Stage(k) = "closed" /\ owner' = Dead([owner EXCEPT !.file = IF Server(k).here THEN NoFile ELSE @], k)

\* Nothing writes the file again while its server runs (PID_FILE_MAX_AGE_MS).
GrowOld == owner.file.state = "whole" /\ owner' = [owner EXCEPT !.file.state = "old"]

\* A process that dies leaves its file; until the handlers are installed
\* (:344-352) every signal kills.
Die(k) == k \in Alive /\ owner' = [Dead(owner, k) EXCEPT !.crashed = TRUE]
\* Another program gets the process id of a dead server.
Reuse ==
    \E k \in DOMAIN owner.servers :
       Server(k).pid \notin PidsAlive /\ owner' = [owner EXCEPT !.strangers = @ \union {Server(k).pid}]

RunServer(k) ==
    CatchUp(k) \/ Listen(k) \/ Publish(k) \/ Terminate(k) \/ StopListening(k) \/ CloseClient(k) \/ RemoveFile(k) \/ Die(k)
-----------------------------------------------------------------------------
(* A `watch` command. *)

At(c, pc) == owner.commands[c].pc = pc
Then(s, c, pc) == [s EXCEPT !.commands[c].pc = pc]
Ended(s, c) == [s EXCEPT !.commands[c] = Idle]

\* findMcpOwner: a whole file of the last seven days whose process is alive,
\* whoever that is by now (:118-143).  A command that does not attach runs a client
\* of its own.
Named == IF owner.file.state = "whole" THEN {owner.file.server} ELSE {}
Found == {k \in Named : Server(k).pid \in PidsAlive}
Find(c) ==
    /\ At(c, "idle") /\ owner.issued < MaxCommands
    /\ owner' = [owner EXCEPT !.issued = @ + 1, !.commands[c] =
                   IF Found = {} THEN @ ELSE [@ EXCEPT !.pc = "health", !.server = owner.file.server]]

\* A request goes to the port of the file, and whoever listens there checks the
\* token (:59-63, :180-183).  It may be refused, or late (:168-170).
AnyToken(k, token) == TRUE
IsAuthorized(k, token) == k = token
Answering(c) ==
    {k \in Listening : /\ Server(k).port = Server(owner.commands[c].server).port
                       /\ IsAuthorized(k, owner.commands[c].server)}
Health(c) ==
    /\ At(c, "health")
    /\ owner' \in {Ended(owner, c)} \union {Then(owner, c, "ensure") : k \in Answering(c)}

\* The server starts its watcher if it has none, and answers whether or not
\* that succeeded; an answer that is late leaves the watcher running (:80-86).
Ensured(s, k, watching) == [s EXCEPT !.servers[k].watching = @ \/ watching]
Ensure(c) ==
    /\ At(c, "ensure")
    /\ \/ owner' = Ended(owner, c)
       \/ \E k \in Answering(c), watching, late \in BOOLEAN :
            owner' = IF late THEN Ended(Ensured(owner, k, watching), c)
                     ELSE [Then(Ensured(owner, k, watching), c, "attached") EXCEPT !.commands[c].answered = k]

\* A poll that fails ends the command.  When it is the first, its interval is
\* set after it was to be cleared, and polls on (watch.ts:100-124).
Poll(c) ==
    \/ At(c, "attached") /\ Answering(c) # {} /\ owner' = Then(owner, c, "polling")
    \/ At(c, "attached") /\ owner' = Then(owner, c, "lingering")
    \/ At(c, "polling") /\ Answering(c) = {} /\ owner' = Ended(owner, c)
Interrupt(c) == (At(c, "polling") \/ At(c, "lingering")) /\ owner' = Ended(owner, c)
-----------------------------------------------------------------------------
(* `uninit`. *)

\* It takes the file at its word: the process of that id is told to stop, is
\* given three seconds, and is killed (:85-112).  A program of another user
\* survives both.  A file of more than seven days is ignored (:66).
Uninit ==
    /\ owner.uninit.pc = "idle"
    /\ owner' = [owner EXCEPT !.uninit =
                   [pc |-> IF Found = {} THEN "deleting" ELSE "stopping",
                    pid |-> IF Found = {} THEN 0 ELSE Server(owner.file.server).pid,
                    knew |-> {k \in HasGraph : Stage(k) \in {"published", "unwatched", "deaf"}},
                    ignored |-> owner.file.state = "old"]]
OfPid(pid) == {k \in Alive : Server(k).pid = pid}
Killed(s, pid) ==
    [s EXCEPT !.servers = [k \in DOMAIN @ |-> IF k \in OfPid(pid) THEN [@[k] EXCEPT !.stage = "dead", !.watching = FALSE] ELSE @[k]],
              !.crashed = @ \/ OfPid(pid) # {}]
Stop ==
    /\ owner.uninit.pc = "stopping"
    /\ LET pid == owner.uninit.pid
           gone == [owner EXCEPT !.uninit.pc = "waiting", !.strangers = @ \ {pid}]
       IN owner' \in IF OfPid(pid) = {} THEN {gone, [owner EXCEPT !.uninit.pc = "waiting"]}
                     ELSE {IF Stage(k) = "published" THEN Unwatched(gone, k)
                           ELSE IF Stage(k) \in {"unwatched", "deaf", "closed"} THEN gone ELSE Killed(gone, pid) : k \in OfPid(pid)}
GiveUp ==
    /\ owner.uninit.pc = "waiting"
    /\ owner' = [IF owner.uninit.pid \in PidsAlive THEN Killed(owner, owner.uninit.pid) ELSE owner EXCEPT !.uninit.pc = "deleting"]
\* What there was of the workspace is gone; another one begins (:114-122).
Delete == owner.uninit.pc = "deleting" /\ owner' = Fresh
Renew == Len(owner.servers) = Len(Workspaces) /\ owner' = Fresh

Next ==
    \/ Launch \/ GrowOld \/ Reuse \/ Uninit \/ Stop \/ GiveUp \/ Delete \/ Renew
    \/ \E k \in DOMAIN owner.servers : RunServer(k)
    \/ \E c \in Commands : Find(c) \/ Health(c) \/ Ensure(c) \/ Poll(c) \/ Interrupt(c)

Spec == Init /\ [][Next]_owner
-----------------------------------------------------------------------------
(* Properties. *)

\* A `watch` command that says it is attached was answered by the server of its
\* workspace that wrote the file, whoever has its process id and its port by
\* now (the token of ownerRpc.ts:54-61).
AttachedToTheOwner ==
    \A c \in Commands : At(c, "attached") \/ At(c, "polling") =>
        owner.commands[c].answered = owner.commands[c].server /\ Server(owner.commands[c].answered).here

\* A server that was published when uninit began has let go of the graph when
\* uninit deletes it, however far its own cleanup had come: the file is the
\* last thing a server removes (server.ts:318-325).  Two cases are excepted: two
\* servers of the workspace, one over the other's file, and a server that has run
\* for more than seven days, whose file uninit ignores (uninit.ts:66).
UninitFindsTheGraphClosed ==
    owner.uninit.pc = "deleting" /\ ~owner.overlapped /\ ~owner.uninit.ignored =>
        owner.uninit.knew \intersect HasGraph = {}

\* Servers that came one after the other and ended by themselves leave no file.
NoFileIsLeft == Here = {} /\ ~owner.overlapped /\ ~owner.crashed => owner.file = NoFile

OwnershipIsHonest == AttachedToTheOwner /\ UninitFindsTheGraphClosed /\ NoFileIsLeft
=============================================================================

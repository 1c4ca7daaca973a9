------------------------------ MODULE WatchSync ------------------------------
(***************************************************************************)
(* One watching process: the FileWatcher of features/watch/watcher.ts, the *)
(* index runs it requests through AppClient.index, the start-up catch-up,  *)
(* and the files on disk that change under all of them.                    *)
(*                                                                         *)
(* Two programs start a watcher, and Startup says which one runs:          *)
(*   "mcp"  interfaces/mcp/server.ts watches first and catches up after;   *)
(*   "cli"  interfaces/cli/watch.ts indexes first and watches after.       *)
(* A watch command that finds a server running attaches to it instead, and *)
(* has it start the watcher it was refused (EnsureWatch).                  *)
(*                                                                         *)
(* Time.  Date.now() is only used to compare lastSeenMs of a file with the *)
(* startedAt of its repository's sync, so the clock is kept as that one    *)
(* comparison: sameMs holds the repositories whose startedAt is still the  *)
(* current millisecond, newer the files whose lastSeenMs > startedAt.  The *)
(* clock is assumed never to run backwards, and an index run to reach the  *)
(* scan of a repository after the millisecond in which the sync started.   *)
(*                                                                         *)
(* The client's index queue is what SerialQueue promises (IndexQueue       *)
(* implements it).  Every path in Files is one the FileMatcher accepts: an *)
(* event for any other path ends in handleRepoEvent without effect.        *)
(***************************************************************************)
EXTENDS Naturals, Sequences, FiniteSets

CONSTANTS Repos,            \* the configured repositories
          Files,            \* the indexed files
          RepoOf,           \* RepoOf[f]: the repository of file f
          SyncConcurrency,  \* config.watch.syncConcurrency
          CatchUpBatch,     \* batchSize of startCatchUp
          MaxFailures,      \* consecutive failures that pause a repository: 3
          Startup,          \* "mcp" or "cli"
          ManualIndex,      \* may a user of the client call index() too?
          Stops             \* may the watcher be stopped, or degrade?

ASSUME WatchAssumption ==
    /\ RepoOf \in [Files -> Repos]
    /\ IsFiniteSet(Repos)
    /\ SyncConcurrency \in Nat \ {0}
    /\ CatchUpBatch \in Nat \ {0}
    /\ MaxFailures \in Nat \ {0}
    /\ Startup \in {"mcp", "cli"}
    /\ ManualIndex \in BOOLEAN
    /\ Stops \in BOOLEAN

VARIABLES
    \* disk and graph
    dirty,     \* files whose content on disk is not the indexed one
    scanned,   \* files the running index run has read
    read,      \* those of them that did not change since
    events,    \* file system notifications not yet delivered
    \* process start-up
    boot,      \* where the program is in its start-up sequence
    watcher,   \* the watcher field of AppClient, and how far its start() is
    catchUp,   \* CatchUpState of the MCP server
    \* FileWatcher
    active, installed, degraded,
    matching,  \* events of handleRepoEvent that await matcher.match
    pending,   \* keys of pendingFiles
    indexing,  \* pending files with indexing = true
    newer,     \* pending files with lastSeenMs > startedAt
    timer,     \* debounceTimer is armed
    sync,      \* syncPromise is set
    toSync,    \* repositories runRepoSyncQueue has not yet taken
    syncing,   \* repositories whose syncRepo awaits client.index
    sameMs,    \* repositories whose startedAt is the current millisecond
    failures,  \* failureCounts
    paused,    \* pausedRepos
    \* for the properties only: no guard reads these
    unseen,    \* files out of date already when the watcher became active, of
               \* a program that does not catch up on them any more
    inARow,    \* failed syncs of a repository since its last successful one
    \* index queue
    waiting, running

diskVars  == <<dirty, scanned, read, events, unseen>>
bootVars  == <<boot, watcher, catchUp>>
stateVars == <<active, installed, degraded>>
fileVars  == <<matching, pending, indexing, newer>>
syncVars  == <<sync, toSync, syncing, sameMs, failures, paused, inARow>>
queueVars == <<waiting, running>>
vars == <<diskVars, bootVars, stateVars, fileVars, timer, syncVars, queueVars>>

FilesOf(rs) == {f \in Files : RepoOf[f] \in rs}

\* Index requests, by who calls client.index and for which repositories.
Request(source, rs) == [source |-> source, repos |-> rs]
NoRequest == Request("none", {})
WatchRequest(r) == Request("watch", {r})
Requests ==
    {WatchRequest(r) : r \in Repos}
        \union {Request("manual", Repos), Request("initial", Repos)}
        \union {Request("catch-up", rs) : rs \in (SUBSET Repos) \ {{}}}

\* Files a sync would still pick up: those of a repository not paused.
Runnable == {f \in pending : RepoOf[f] \notin paused}

-----------------------------------------------------------------------------
(* Faulty variants of definitions below, each a plausible slip in this code. *)
(* The specification uses none of them.                                      *)

\* triggerSync without its syncPromise guard.
SyncAllowedAnytime == active /\ ~degraded

\* The finally handler does not look for files that came in meanwhile.
TimerLeftAlone == timer

\* A successful sync removes every entry of the repository.
SyncedAll(r) == FilesOf({r})

\* A success that leaves the count of failures as it is.
CountsKept(r) == failures

\* Freshness that looks at the index queue and the catch-up only.
StaleWithoutPending ==
    \/ catchUp.running \/ catchUp.failed \/ degraded
    \/ running # NoRequest \/ waiting # <<>>

-----------------------------------------------------------------------------
Init ==
    /\ dirty \in SUBSET Files   \* changed while nothing was watching
    /\ scanned = {} /\ read = {} /\ events = {} /\ unseen = {}
    /\ boot = "starting" /\ watcher = "unset"
    /\ catchUp = [running |-> FALSE, failed |-> FALSE,
                  left |-> IF Startup = "mcp" THEN Repos ELSE {},
                  batch |-> {}]
    /\ active = FALSE /\ installed = FALSE /\ degraded = FALSE
    /\ matching = {} /\ pending = {} /\ indexing = {} /\ newer = {}
    /\ timer = FALSE
    /\ sync = FALSE /\ toSync = {} /\ syncing = {} /\ sameMs = {} /\ paused = {}
    /\ failures = [r \in Repos |-> 0] /\ inARow = [r \in Repos |-> 0]
    /\ waiting = <<>> /\ running = NoRequest

-----------------------------------------------------------------------------
(* The disk, the clock and the users of the client. *)

Change(f) ==
    /\ dirty' = dirty \union {f}
    /\ read' = read \ {f}
    /\ unseen' = unseen \ {f}
    /\ events' = IF installed THEN events \union {f} ELSE events
    /\ UNCHANGED <<scanned, bootVars, stateVars, fileVars, timer, syncVars,
                   queueVars>>

ClockTick ==
    /\ sameMs # {}
    /\ sameMs' = {}
    /\ UNCHANGED <<diskVars, bootVars, stateVars, fileVars, timer, sync,
                   toSync, syncing, failures, paused, inARow, queueVars>>

\* A user's own client.index(), queued behind whatever is queued already.
\* Bound: one such call at a time.
CallIndex ==
    /\ ManualIndex
    /\ LET q == Request("manual", Repos)
       IN  /\ running # q
           /\ \A i \in DOMAIN waiting : waiting[i] # q
           /\ waiting' = Append(waiting, q)
    /\ UNCHANGED <<diskVars, bootVars, stateVars, fileVars, timer, syncVars,
                   running>>

-----------------------------------------------------------------------------
(* Start-up. *)

\* cli: the initial index run comes before the watcher.
InitialIndex ==
    /\ Startup = "cli"
    /\ boot = "starting"
    /\ boot' = "indexing"
    /\ waiting' = Append(waiting, Request("initial", Repos))
    /\ UNCHANGED <<diskVars, watcher, catchUp, stateVars, fileVars, timer,
                   syncVars, running>>

ReadyToWatch ==
    /\ boot = IF Startup = "mcp" THEN "starting" ELSE "indexed"
    /\ watcher = "unset"

\* client.watch(): start() up to its last await.  fs.watch is installed, active
\* is not set.
BeginWatch ==
    /\ watcher' = "installing"
    /\ installed' = TRUE
    /\ UNCHANGED <<diskVars, boot, catchUp, active, degraded, fileVars, timer,
                   syncVars, queueVars>>

InstallWatchers == ReadyToWatch /\ BeginWatch

\* /watch/ensure, which the server answers once it is up.  client.watch() makes
\* a new watcher unless the client still has one: after a start that was
\* refused it does, and for a degraded watcher it does not.
EnsureWatch ==
    /\ Startup = "mcp"
    /\ boot = "serving"
    /\ watcher = "unset"
    /\ BeginWatch

\* Files that nobody will announce to the watcher that now becomes active.
OutOfDate == dirty \ events

\* `this.active = true; return true`.  Only the server's first start is one
\* that a catch-up follows.
Activate ==
    /\ watcher = "installing"
    /\ ~degraded
    /\ watcher' = "started"
    /\ active' = TRUE
    /\ boot' = IF Startup = "mcp" /\ boot = "starting" THEN "started"
                                                        ELSE "serving"
    /\ unseen' = IF boot = "starting" THEN {} ELSE OutOfDate
    /\ UNCHANGED <<dirty, scanned, read, events, catchUp, installed, degraded,
                   fileVars, timer, syncVars, queueVars>>

\* start() returns false: watching is off, no repository qualifies, nothing
\* could be installed, or the watcher degraded meanwhile.  The client drops the
\* watcher; the MCP server goes on without one, the command exits.
StartRefused ==
    /\ ReadyToWatch \/ (watcher = "installing" /\ degraded)
    /\ watcher' = "unset"
    /\ degraded' = FALSE
    /\ boot' = CASE boot = "serving" -> boot
                 [] Startup = "cli" -> "exited"
                 [] OTHER -> "started"
    /\ UNCHANGED <<diskVars, catchUp, active, installed, fileVars, timer,
                   syncVars, queueVars>>

\* Any batch of the next CatchUpBatch repositories still to be caught up.
NextBatch(left) ==
    {b \in SUBSET left : b # {} /\ (Cardinality(b) = CatchUpBatch
                                      \/ (b = left /\ Cardinality(b) < CatchUpBatch))}

\* runMcpServer calls startCatchUp whatever client.watch() returned.
StartCatchUp ==
    /\ Startup = "mcp"
    /\ boot = "started"
    /\ boot' = "serving"
    /\ catchUp' = [catchUp EXCEPT !.running = TRUE]
    /\ UNCHANGED <<diskVars, watcher, stateVars, fileVars, timer, syncVars, queueVars>>

\* The loop of startCatchUp calls client.index for the next batch.
IndexBatch ==
    /\ catchUp.running
    /\ catchUp.batch = {}
    /\ \E b \in NextBatch(catchUp.left) :
        /\ catchUp' = [catchUp EXCEPT !.batch = b]
        /\ waiting' = Append(waiting, Request("catch-up", b))
    /\ UNCHANGED <<diskVars, boot, watcher, stateVars, fileVars, timer,
                   syncVars, running>>

-----------------------------------------------------------------------------
(* FileWatcher: events, debounce, stop. *)

\* handleAbsoluteEvent and handleRepoEvent up to `await matcher.match`.
DeliverEvent(f) ==
    /\ f \in events
    /\ events' = events \ {f}
    /\ matching' = IF active /\ ~degraded /\ RepoOf[f] \notin paused
                   THEN matching \union {f} ELSE matching
    /\ UNCHANGED <<dirty, scanned, read, unseen, bootVars, stateVars, pending,
                   indexing, newer, timer, syncVars, queueVars>>

\* lastSeenMs > startedAt for an event handled now.
SeenAfterStart(r) == r \in syncing \ sameMs

\* scheduleSync, which clears and re-arms the timer of an active watcher.
Scheduled == timer \/ (active /\ ~degraded)

\* handleRepoEvent after the await: nothing is checked again.
RecordEvent(f) ==
    /\ f \in matching
    /\ matching' = matching \ {f}
    /\ pending' = pending \union {f}
    /\ indexing' = indexing \ {f}
    /\ newer' = IF SeenAfterStart(RepoOf[f]) THEN newer \union {f}
                                             ELSE newer \ {f}
    /\ timer' = Scheduled
    /\ UNCHANGED <<diskVars, bootVars, stateVars, syncVars, queueVars>>

\* The guard of triggerSync.
SyncAllowed == active /\ ~degraded /\ ~sync

\* The debounce timer fires: triggerSync.
FireTimer ==
    /\ timer
    /\ timer' = FALSE
    /\ LET chosen == Runnable \ indexing
       IN  IF SyncAllowed /\ chosen # {}
           THEN /\ indexing' = indexing \union chosen
                /\ sync' = TRUE
                /\ toSync' = {RepoOf[f] : f \in chosen}
           ELSE UNCHANGED <<indexing, sync, toSync>>
    /\ UNCHANGED <<diskVars, bootVars, stateVars, matching, pending, newer,
                   syncing, sameMs, failures, paused, inARow, queueVars>>

\* stop(): everything but the sync in flight is cancelled.
Stopped ==
    /\ active' = FALSE
    /\ installed' = FALSE
    /\ timer' = FALSE
    /\ pending' = {} /\ indexing' = {} /\ newer' = {}

\* Both programs call unwatch() when they are about to exit: no watcher is
\* started after it.
Unwatch ==
    /\ Stops
    /\ boot = "serving"
    /\ active \/ installed \/ timer
    /\ watcher' = "closed"
    /\ Stopped
    /\ UNCHANGED <<diskVars, boot, catchUp, degraded, matching, syncVars,
                   queueVars>>

\* degrade(): EMFILE or ENFILE from an installed watcher.
Degrade ==
    /\ Stops
    /\ installed
    /\ ~degraded
    /\ degraded' = TRUE
    /\ Stopped
    /\ UNCHANGED <<diskVars, bootVars, matching, syncVars, queueVars>>

-----------------------------------------------------------------------------
(* FileWatcher: the sync. *)

\* A worker of runRepoSyncQueue takes a repository: syncRepo up to the await
\* of client.index.  Nothing here looks at `active`.
SyncRepo(r) ==
    /\ r \in toSync
    /\ Cardinality(syncing) < SyncConcurrency
    /\ toSync' = toSync \ {r}
    /\ syncing' = syncing \union {r}
    /\ sameMs' = sameMs \union {r}
    /\ newer' = newer \ FilesOf({r})
    /\ waiting' = Append(waiting, WatchRequest(r))
    /\ UNCHANGED <<diskVars, bootVars, stateVars, matching, pending, indexing,
                   timer, sync, failures, paused, inARow, running>>

\* Whether the debounce timer is armed when a sync has ended.
TimerAfterSync == IF Runnable # {} THEN Scheduled ELSE timer

\* The finally handler of syncPromise, once every worker has returned.
SyncFinally ==
    /\ sync
    /\ toSync = {}
    /\ syncing = {}
    /\ sync' = FALSE
    /\ timer' = TimerAfterSync
    /\ UNCHANGED <<diskVars, bootVars, stateVars, fileVars, toSync, syncing,
                   sameMs, failures, paused, inARow, queueVars>>

-----------------------------------------------------------------------------
(* The index queue and the runs it executes. *)

BeginIndex ==
    /\ running = NoRequest
    /\ waiting # <<>>
    /\ running' = Head(waiting)
    /\ waiting' = Tail(waiting)
    /\ UNCHANGED <<diskVars, bootVars, stateVars, fileVars, timer, syncVars>>

\* The scan of the running index reads one file.
ReadFile(f) ==
    /\ f \in FilesOf(running.repos) \ scanned
    /\ running.source = "watch" => RepoOf[f] \notin sameMs
    /\ scanned' = scanned \union {f}
    /\ read' = read \union {f}
    /\ UNCHANGED <<dirty, events, unseen, bootVars, stateVars, fileVars,
                   timer, syncVars, queueVars>>

\* The running index ends.  The repositories committed are in the graph even
\* when it fails after their commit; it succeeds when all of them are.  What
\* the caller does next is a chain of promise reactions, which runs before any
\* other callback: each End action below is the end of the run and that chain.
RunEnds(source, outcome) ==
    /\ running.source = source
    /\ \E committed \in SUBSET running.repos :
        /\ FilesOf(committed) \subseteq scanned
        /\ outcome = "ok" => committed = running.repos
        /\ dirty' = dirty \ (read \intersect FilesOf(committed))
    /\ unseen' = unseen \intersect dirty'
    /\ scanned' = {} /\ read' = {}
    /\ running' = NoRequest
    /\ UNCHANGED <<events, stateVars, matching, timer, sync, toSync>>

\* client.index called by a user, or by the cli before it watches.
EndUserIndex(source, outcome) ==
    /\ source \in {"manual", "initial"}
    /\ RunEnds(source, outcome)
    /\ boot' = IF source = "manual" THEN boot
               ELSE IF outcome = "ok" THEN "indexed" ELSE "exited"
    /\ UNCHANGED <<watcher, catchUp, pending, indexing, newer, syncing, sameMs,
                   failures, paused, inARow, waiting>>

\* startCatchUp after the run of a batch: a failed batch ends the catch-up, and
\* so does the last one.
EndCatchUp(outcome) ==
    /\ RunEnds("catch-up", outcome)
    /\ LET left == IF outcome = "ok" THEN catchUp.left \ catchUp.batch
                                     ELSE catchUp.left
       IN  catchUp' = [running |-> outcome = "ok" /\ left # {},
                       failed |-> outcome = "failed",
                       left |-> left, batch |-> {}]
    /\ UNCHANGED <<boot, watcher, pending, indexing, newer, syncing, sameMs,
                   failures, paused, inARow, waiting>>

\* The entries a successful sync of r removes: lastSeenMs <= startedAt.
Synced(r) == FilesOf({r}) \ newer

\* What a successful sync of r leaves of the failure counts.
CountsAfterSync(r) == [failures EXCEPT ![r] = 0]

\* syncRepo after its run succeeded.
RepoSynced(r) ==
    /\ RunEnds("watch", "ok")
    /\ running = WatchRequest(r)
    /\ syncing' = syncing \ {r}
    /\ sameMs' = sameMs \ {r}
    /\ pending' = pending \ Synced(r)
    /\ indexing' = indexing \ Synced(r)
    /\ newer' = newer \ FilesOf({r})
    /\ failures' = CountsAfterSync(r)
    /\ inARow' = [inARow EXCEPT ![r] = 0]
    /\ UNCHANGED <<bootVars, paused, waiting>>

\* The repositories a failed sync of r pauses.
Pausing(r) == IF failures[r] + 1 >= MaxFailures THEN {r} ELSE {}

\* The entries a failed sync of r sets back to indexing = false.
Released(r) == FilesOf({r})

\* syncRepo after its run failed: the files are synced again after the
\* debounce time, and given up after MaxFailures failures in a row.
RepoFailed(r) ==
    /\ RunEnds("watch", "failed")
    /\ running = WatchRequest(r)
    /\ syncing' = syncing \ {r}
    /\ sameMs' = sameMs \ {r}
    /\ indexing' = indexing \ Released(r)
    /\ newer' = newer \ FilesOf({r})
    /\ failures' = [failures EXCEPT ![r] = @ + 1]
    /\ inARow' = [inARow EXCEPT ![r] = @ + 1]
    /\ paused' = paused \union Pausing(r)
    /\ UNCHANGED <<bootVars, pending, waiting>>

EndIndex ==
    \/ \E source \in {"manual", "initial"}, outcome \in {"ok", "failed"} :
            EndUserIndex(source, outcome)
    \/ \E outcome \in {"ok", "failed"} : EndCatchUp(outcome)
    \/ \E r \in Repos : RepoSynced(r) \/ RepoFailed(r)

-----------------------------------------------------------------------------
Environment ==
    \/ \E f \in Files : Change(f)
    \/ ClockTick \/ CallIndex \/ EnsureWatch

Start == InitialIndex \/ InstallWatchers \/ Activate \/ StartRefused
             \/ StartCatchUp \/ IndexBatch

Watch ==
    \/ \E f \in Files : DeliverEvent(f) \/ RecordEvent(f)
    \/ FireTimer \/ Unwatch \/ Degrade

Sync ==
    \/ \E r \in Repos : SyncRepo(r)
    \/ SyncFinally

Index ==
    \/ BeginIndex
    \/ \E f \in Files : ReadFile(f)
    \/ EndIndex

Next == Environment \/ Start \/ Watch \/ Sync \/ Index

Spec == Init /\ [][Next]_vars

\* The event loop takes every step of the program that stays enabled, and an
\* index run that has begun ends.  Nothing obliges files to change or to stop
\* changing, users to index, to attach or to unwatch, or the system to run out
\* of descriptors.
FairSpec ==
    /\ Spec
    /\ WF_vars(ClockTick) /\ WF_vars(Start)
    /\ \A f \in Files : /\ WF_vars(DeliverEvent(f))
                        /\ WF_vars(RecordEvent(f))
                        /\ WF_vars(ReadFile(f))
    /\ WF_vars(FireTimer) /\ WF_vars(Sync)
    /\ WF_vars(BeginIndex) /\ WF_vars(EndIndex)
-----------------------------------------------------------------------------
\* Every variable has a value the code can give it.
TypeOK ==
    /\ dirty \subseteq Files /\ scanned \subseteq Files /\ read \subseteq Files
    /\ events \subseteq Files
    /\ unseen \subseteq Files
    /\ boot \in {"starting", "indexing", "indexed", "started", "serving",
                 "exited"}
    /\ watcher \in {"unset", "installing", "started", "closed"}
    /\ catchUp \in [running : BOOLEAN, failed : BOOLEAN,
                    left : SUBSET Repos, batch : SUBSET Repos]
    /\ active \in BOOLEAN /\ installed \in BOOLEAN /\ degraded \in BOOLEAN
    /\ matching \subseteq Files /\ pending \subseteq Files
    /\ indexing \subseteq Files /\ newer \subseteq Files
    /\ timer \in BOOLEAN /\ sync \in BOOLEAN
    /\ toSync \subseteq Repos /\ sameMs \subseteq Repos /\ paused \subseteq Repos
    /\ syncing \subseteq Repos
    /\ failures \in [Repos -> 0..MaxFailures]
    /\ inARow \in [Repos -> 0..MaxFailures]
    /\ waiting \in Seq(Requests)
    /\ running \in Requests \union {NoRequest}

\* The index queue is used as SerialQueue demands: no request is made while an
\* equal one is waiting or running.  In particular a repository is never
\* synced twice at a time, however debounce timers, failures and retries fall
\* (the syncPromise guard of triggerSync).
Queue == INSTANCE SerialQueue
            WITH Jobs <- Requests, NoJob <- NoRequest, active <- running

SyncsNeverOverlap == Queue!Spec

\* A repository that has failed MaxFailures times is the only one not synced.
Excused(f) ==
    \/ RepoOf[f] \in paused
    \/ catchUp.failed /\ RepoOf[f] \in catchUp.left

\* The watcher will still get to file f.
Noticed(f) == f \in events \union matching \union pending

\* No change is lost: while a watcher is active, a file whose indexed content is
\* out of date is still announced (an event not handled yet), or recorded as
\* pending, or about to be caught up; or its repository has been given up.  The
\* interesting case is a change during a sync of its own repository: lastSeenMs
\* decides whether the entry survives.  What nobody gets to is a file that was
\* out of date before a watcher started with no catch-up after it: the watch
\* command's, and the one that /watch/ensure starts in a server whose own start
\* was refused.  It stays out of date until it changes again.
NoLostChange ==
    active => \A f \in dirty :
        \/ Noticed(f) \/ RepoOf[f] \in catchUp.left
        \/ Excused(f) \/ f \in unseen

\* A change once noticed is not forgotten before it is indexed, whichever
\* program watches, and whoever else indexes in between.
NeverForgotten ==
    [][active' => \A f \in Files :
            Noticed(f) => Noticed(f)' \/ f \notin dirty'
                            \/ ~active \/ RepoOf[f] \in paused]_vars

\* No wake-up is lost: while some repository still has files to sync, the
\* debounce timer is armed or a sync is in flight, whose end re-arms it.
NoLostWakeUp ==
    active /\ ~degraded /\ Runnable # {} => timer \/ sync

\* A file reported as being indexed belongs to a sync in flight: no end of a
\* sync, failed or not, leaves an entry that later syncs would skip.
IndexingIsInFlight ==
    \A f \in indexing : sync /\ RepoOf[f] \in toSync \union syncing

\* stop() and degrade() cancel the debounce timer for good.
StoppedMeansNoTimer == ~active => ~timer

\* What the handlers of the watcher leave to the next one, at every await
\* (watcher.ts:542-651): typed, no wake-up lost, no entry stuck as indexing,
\* and no timer armed after stop().
WatcherSound == TypeOK /\ NoLostWakeUp /\ IndexingIsInFlight /\ StoppedMeansNoTimer

\* buildFreshnessMetadata of interfaces/mcp/server.ts: `stale`.
Stale ==
    \/ catchUp.running \/ catchUp.failed
    \/ degraded
    \/ pending # {}
    \/ running # NoRequest \/ waiting # <<>>

\* An answer that an MCP server with an active watcher does not flag as stale
\* comes from a graph that is out of date only for changes the watcher has not
\* been told of yet, and for those made before /watch/ensure started it.
\* (Nothing in `stale` mentions paused repositories: what keeps it set for them
\* is that a paused repository keeps its entries.)
FreshnessHonest ==
    Startup = "mcp" /\ boot = "serving" /\ active /\ ~Stale
        => dirty \subseteq events \union matching \union unseen

\* A repository is given up only for MaxFailures failed syncs with no successful
\* one between them; it is not synced again; and it keeps an entry, without
\* which nothing would tell a reader of the status that it is out of date.
GivenUpForGood ==
    \A r \in paused :
        /\ inARow[r] >= MaxFailures
        /\ r \notin toSync \union syncing
        /\ active => \E f \in pending : RepoOf[f] = r

\* Syncs of different repositories interleave, never those of one, and fail
\* each for itself (triggerSync and syncRepo, watcher.ts:582-632).  At the start
\* no repository is given up; no step may break what GivenUpForGood says of those
\* that are.
SyncsAreIsolated == SyncsNeverOverlap /\ [][GivenUpForGood']_vars

\* Once files stop changing, every file that is out of date is indexed, unless
\* the watcher has stopped or its repository has been given up, or the change
\* came before a watcher that does not catch up (see NoLostChange).
FilesStopChanging == <>[][\A f \in Files : ~Change(f)]_vars

ChangesIndexed ==
    FilesStopChanging =>
        \A f \in Files :
            (active /\ f \in dirty \ unseen)
                ~> (f \notin dirty \/ ~active \/ (Excused(f) /\ f \notin Runnable))
=============================================================================

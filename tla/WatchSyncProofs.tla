--------------------------- MODULE WatchSyncProofs ---------------------------
(***************************************************************************)
(* Proofs about WatchSync, for any repositories and files, any limits, and *)
(* both programs that start a watcher.                                     *)
(*                                                                         *)
(* The inductive invariant has three themes.  Whoever has asked for an     *)
(* index run is still waiting for it (OneEach, AskersWait), so the end of  *)
(* a run always meets the handler it was started by, in the state that     *)
(* handler left.  The entries of the watcher belong to the sync they wait  *)
(* for (SyncKept, NewerKept, EntriesKept).  And a file that changes after  *)
(* the running index has read it is noticed as newer than the start of the *)
(* sync (ChangedSinceRead): the reason why the end of the sync may drop    *)
(* the other entries of its repository.                                    *)
(***************************************************************************)
EXTENDS WatchSync, SequenceTheorems, TLAPS

\* The index requests of this watcher's process that have not begun, and those
\* that have not ended.
Line == {waiting[i] : i \in DOMAIN waiting}
Asked == Line \union {running}

\* No request is queued twice, nor again while it runs.
OneEach ==
    /\ \A i, j \in DOMAIN waiting : waiting[i] = waiting[j] => i = j
    /\ running \notin Line

\* Whoever asked for a run is still waiting for it: the sync of the repository,
\* the catch-up of the batch, the command that has not started to watch.
AskersWait ==
    /\ \A r \in Repos : WatchRequest(r) \in Asked => r \in syncing
    /\ \A q \in Asked : q.source = "catch-up" => q.repos = catchUp.batch
    /\ \A q \in Asked : q.source = "initial" => boot = "indexing"

\* Before start() has returned true the watcher has seen and synced nothing;
\* an active watcher has its fs.watch handles.
StartedFirst ==
    /\ watcher \in {"unset", "installing"} =>
            ~active /\ ~sync /\ matching = {} /\ pending = {} /\ paused = {}
    /\ watcher = "installing" =>
            /\ boot \in {"starting", "indexed", "serving"}
            /\ boot = "starting" => Startup = "mcp"
            /\ boot = "indexed" => Startup = "cli"
            /\ ~degraded => installed
    /\ watcher \in {"started", "closed"} => boot \in {"started", "serving"}
    /\ active => installed /\ ~degraded

\* The catch-up is over, has failed, or is on its way; the command has none.
CatchUpKept ==
    /\ Startup = "mcp" /\ boot # "serving" =>
            ~catchUp.running /\ catchUp.left = Repos /\ catchUp.batch = {}
    /\ Startup = "mcp" /\ boot = "serving" =>
            catchUp.running \/ catchUp.failed \/ catchUp.left = {}
    /\ Startup = "cli" =>
            ~catchUp.running /\ catchUp.left = {} /\ catchUp.batch = {}

\* Repositories being synced: of a sync in flight, each once, none given up.
SyncKept ==
    /\ toSync \union syncing # {} => sync
    /\ toSync \intersect syncing = {}
    /\ (toSync \union syncing) \intersect paused = {}
    /\ \A r \in Repos : failures[r] = MaxFailures <=> r \in paused
    /\ inARow = failures

\* An entry newer than the sync of its repository is a pending one that the
\* sync has not marked.
NewerKept ==
    /\ newer \subseteq pending \ indexing
    /\ \A f \in newer : RepoOf[f] \in syncing

\* A repository being synced or given up has an entry that made it so.
EntriesKept ==
    active => \A r \in toSync \union syncing \union paused :
                    \E f \in pending : RepoOf[f] = r

\* An index run scans its own repositories, a watcher's run after the
\* millisecond in which its sync started; what has changed since is out of date.
ScanKept ==
    /\ scanned \subseteq FilesOf(running.repos)
    /\ running.source = "watch" => \A f \in scanned : RepoOf[f] \notin sameMs
    /\ scanned \ read \subseteq dirty

\* A file that changed after the running index read it has been noticed, and
\* if the watcher asked for the run, with a time later than its start; but for
\* one that changed before /watch/ensure made the watcher active.
ChangedSinceRead ==
    active => \A f \in scanned \ read :
        /\ running.source = "watch" => f \in events \union matching \union newer
        /\ running.source = "catch-up" =>
                Noticed(f) \/ RepoOf[f] \in paused \/ f \in unseen

IInv ==
    /\ TypeOK
    /\ OneEach
    /\ AskersWait
    /\ StartedFirst
    /\ CatchUpKept
    /\ SyncKept
    /\ NewerKept
    /\ EntriesKept
    /\ ScanKept
    /\ ChangedSinceRead
    /\ NoLostChange
    /\ NoLostWakeUp
    /\ IndexingIsInFlight
    /\ StoppedMeansNoTimer
-----------------------------------------------------------------------------
(* Requests and the line they wait in. *)

\* A request says who made it and for which repositories, and nothing else.
LEMMA RequestFacts ==
  /\ \A q \in Requests :
        /\ q # NoRequest
        /\ q.source \in {"watch", "manual", "initial", "catch-up"}
        /\ q.repos \subseteq Repos
        /\ q.source = "watch" => \E r \in Repos : q = WatchRequest(r)
        /\ q.source = "catch-up" => q = Request("catch-up", q.repos) /\ q.repos # {}
        /\ q.source = "initial" => q = Request("initial", Repos)
        /\ q.source = "manual" => q = Request("manual", Repos)
  /\ \A r \in Repos : /\ WatchRequest(r) \in Requests
                      /\ WatchRequest(r).source = "watch"
                      /\ WatchRequest(r).repos = {r}
  /\ NoRequest.source = "none" /\ NoRequest.repos = {}
  /\ \A s, rs : Request(s, rs).source = s /\ Request(s, rs).repos = rs
  /\ Request("manual", Repos) \in Requests
  /\ Request("initial", Repos) \in Requests
  /\ \A rs \in (SUBSET Repos) \ {{}} : Request("catch-up", rs) \in Requests
  <1>1. \A s, rs : Request(s, rs).source = s /\ Request(s, rs).repos = rs
    BY DEF Request
  <1>2. ASSUME NEW q \in Requests
        PROVE  \/ \E r \in Repos : q = WatchRequest(r)
               \/ q = Request("manual", Repos)
               \/ q = Request("initial", Repos)
               \/ \E rs \in (SUBSET Repos) \ {{}} : q = Request("catch-up", rs)
    BY DEF Requests
  <1>3. \A r \in Repos : WatchRequest(r).source = "watch" /\ WatchRequest(r).repos = {r}
    BY <1>1 DEF WatchRequest
  <1>4. NoRequest.source = "none" /\ NoRequest.repos = {}
    BY <1>1 DEF NoRequest
  <1>5. ASSUME NEW q \in Requests
        PROVE  /\ q # NoRequest
               /\ q.source \in {"watch", "manual", "initial", "catch-up"}
               /\ q.repos \subseteq Repos
               /\ q.source = "watch" => \E r \in Repos : q = WatchRequest(r)
               /\ q.source = "catch-up" => q = Request("catch-up", q.repos) /\ q.repos # {}
               /\ q.source = "initial" => q = Request("initial", Repos)
               /\ q.source = "manual" => q = Request("manual", Repos)
    <2>1. CASE \E r \in Repos : q = WatchRequest(r)
      BY <2>1, <1>3, <1>4
    <2>2. CASE q = Request("manual", Repos)
      BY <2>2, <1>1, <1>4
    <2>3. CASE q = Request("initial", Repos)
      BY <2>3, <1>1, <1>4
    <2>4. CASE \E rs \in (SUBSET Repos) \ {{}} : q = Request("catch-up", rs)
      BY <2>4, <1>1, <1>4
    <2> QED
      BY <1>2, <2>1, <2>2, <2>3, <2>4
  <1>6. /\ \A r \in Repos : WatchRequest(r) \in Requests
        /\ Request("manual", Repos) \in Requests
        /\ Request("initial", Repos) \in Requests
        /\ \A rs \in (SUBSET Repos) \ {{}} : Request("catch-up", rs) \in Requests
    BY DEF Requests
  <1> QED
    BY <1>1, <1>3, <1>4, <1>5, <1>6

\* A request at the end of the line, from somebody not waiting yet.
LEMMA Submitted ==
  ASSUME TypeOK, OneEach, NEW q \in Requests, q \notin Asked,
         waiting' = Append(waiting, q), running' = running
  PROVE  /\ waiting' \in Seq(Requests)
         /\ Asked' = Asked \union {q}
         /\ OneEach'
  <1>1. /\ waiting \in Seq(Requests)
        /\ Len(waiting) \in Nat
        /\ DOMAIN waiting = 1..Len(waiting)
    BY DEF TypeOK
  <1>2. /\ waiting' \in Seq(Requests)
        /\ DOMAIN waiting' = 1..(Len(waiting) + 1)
        /\ \A i \in 1..Len(waiting) : waiting'[i] = waiting[i]
        /\ waiting'[Len(waiting) + 1] = q
    BY <1>1
  <1>3. Line' = Line \union {q}
    BY <1>1, <1>2 DEF Line
  <1>4. \A i \in DOMAIN waiting : waiting[i] # q
    BY DEF Asked, Line
  <1>5. OneEach'
    BY <1>1, <1>2, <1>3, <1>4 DEF OneEach, Asked
  <1> QED
    BY <1>2, <1>3, <1>5 DEF Asked

\* The oldest request leaves the line and runs.
LEMMA Begun ==
  ASSUME TypeOK, OneEach, BeginIndex
  PROVE  /\ waiting' \in Seq(Requests)
         /\ running' \in Line
         /\ Asked' \subseteq Asked
         /\ OneEach'
  <1>1. /\ waiting \in Seq(Requests)
        /\ waiting # <<>>
        /\ Len(waiting) \in Nat \ {0}
        /\ DOMAIN waiting = 1..Len(waiting)
        /\ running' = waiting[1]
        /\ waiting' = Tail(waiting)
    BY DEF TypeOK, BeginIndex
  <1>2. /\ waiting' \in Seq(Requests)
        /\ DOMAIN waiting' = 1..(Len(waiting) - 1)
        /\ \A i \in 1..(Len(waiting) - 1) : waiting'[i] = waiting[i + 1]
    BY <1>1
  <1>3. running' \in Line
    BY <1>1 DEF Line
  <1>4. Line' \subseteq Line
    BY <1>1, <1>2 DEF Line
  <1>5. \A i \in DOMAIN waiting' : waiting'[i] # running'
    BY <1>1, <1>2 DEF OneEach
  <1>6. OneEach'
    BY <1>1, <1>2, <1>5 DEF OneEach, Line
  <1> QED
    BY <1>2, <1>3, <1>4, <1>6 DEF Asked

\* The running request is answered: nobody else has made it.
LEMMA Answered ==
  ASSUME TypeOK, OneEach, waiting' = waiting, running' = NoRequest
  PROVE  /\ Asked' \subseteq Asked \union {NoRequest}
         /\ running # NoRequest => running \notin Asked'
         /\ OneEach'
  <1>1. Line' = Line
    BY DEF Line
  <1>2. Line \subseteq Requests
    BY DEF Line, TypeOK
  <1>3. NoRequest \notin Line
    BY <1>2, RequestFacts
  <1> QED
    BY <1>1, <1>3 DEF OneEach, Asked

\* What has been asked is a request, or nothing runs.
LEMMA AskedType == TypeOK => Asked \subseteq Requests \union {NoRequest}
  BY DEF TypeOK, Asked, Line
-----------------------------------------------------------------------------
USE WatchAssumption
    DEF diskVars, bootVars, stateVars, fileVars, syncVars, queueVars, vars

\* Nothing has been asked for yet, and the catch-up of the server has all
\* repositories before it.
LEMMA InitIInv == Init => IInv
  <1> SUFFICES ASSUME Init PROVE IInv
    OBVIOUS
  <1> USE DEF Init
  <1>1. TypeOK
    <2>1. catchUp \in [running : BOOLEAN, failed : BOOLEAN,
                       left : SUBSET Repos, batch : SUBSET Repos]
      OBVIOUS
    <2>2. failures \in [Repos -> 0..MaxFailures]
      OBVIOUS
    <2>3. waiting \in Seq(Requests)
      OBVIOUS
    <2> QED
      BY <2>1, <2>2, <2>3 DEF TypeOK
  <1>2. Line = {} /\ Asked = {NoRequest}
    BY DEF Line, Asked
  <1>3. OneEach /\ AskersWait
    BY <1>2, RequestFacts DEF OneEach, AskersWait
  <1>4. /\ StartedFirst /\ CatchUpKept /\ NewerKept /\ EntriesKept
        /\ ScanKept /\ ChangedSinceRead
    BY DEF StartedFirst, CatchUpKept, NewerKept, EntriesKept, ScanKept,
           ChangedSinceRead
  <1>5. SyncKept
    BY DEF SyncKept
  <1>6. NoLostChange /\ NoLostWakeUp /\ IndexingIsInFlight /\ StoppedMeansNoTimer
    BY DEF NoLostChange, NoLostWakeUp, IndexingIsInFlight, StoppedMeansNoTimer
  <1> QED
    BY <1>1, <1>3, <1>4, <1>5, <1>6 DEF IInv

\* A watcher's run belongs to a sync in flight, of a repository not given up,
\* and what it has scanned was read after the sync had started.
LEMMA ScannedBySync ==
  ASSUME IInv, running.source = "watch"
  PROVE  \E r \in syncing :
            /\ running = WatchRequest(r)
            /\ r \in Repos /\ r \notin paused /\ r \notin toSync
            /\ \A f \in scanned : f \in Files /\ RepoOf[f] = r /\ r \notin sameMs
  <1>1. running \in Requests
    BY RequestFacts DEF IInv, TypeOK
  <1>2. PICK r \in Repos : running = WatchRequest(r)
    BY <1>1, RequestFacts
  <1>3. r \in syncing
    BY <1>2 DEF IInv, AskersWait, Asked
  <1>4. r \notin paused /\ r \notin toSync
    BY <1>3 DEF IInv, SyncKept
  <1>5. running.repos = {r}
    BY <1>2, RequestFacts
  <1>6. \A f \in scanned : f \in Files /\ RepoOf[f] = r
    BY <1>5 DEF IInv, ScanKept, FilesOf
  <1>7. \A f \in scanned : r \notin sameMs
    BY <1>6 DEF IInv, ScanKept
  <1> QED
    BY <1>2, <1>3, <1>4, <1>6, <1>7

\* A file changes: an active watcher is told, since its handles are
\* installed.
LEMMA ChangeIInv ==
  ASSUME IInv, NEW f \in Files, Change(f) PROVE IInv'
  <1> USE DEF IInv, Change
  <1>1. TypeOK'
    BY DEF TypeOK
  <1>2. ChangedSinceRead'
    BY DEF TypeOK, ChangedSinceRead, Noticed, StartedFirst
  <1>3. NoLostChange'
    BY DEF TypeOK, NoLostChange, Noticed, Excused, StartedFirst
  <1>4. /\ OneEach'
        /\ AskersWait'
        /\ StartedFirst'
        /\ CatchUpKept'
        /\ SyncKept'
        /\ NewerKept'
        /\ EntriesKept'
        /\ NoLostWakeUp'
        /\ IndexingIsInFlight'
        /\ StoppedMeansNoTimer'
    BY DEF OneEach, Line, AskersWait, Asked, StartedFirst, CatchUpKept,
           SyncKept, NewerKept, EntriesKept, NoLostWakeUp,
           Runnable, IndexingIsInFlight, StoppedMeansNoTimer
  <1>5. ScanKept'
    BY DEF TypeOK, ScanKept, FilesOf
  <1> QED
    BY <1>1, <1>2, <1>3, <1>4, <1>5

\* The next millisecond.
LEMMA ClockTickIInv ==
  ASSUME IInv, ClockTick PROVE IInv'
  <1> USE DEF IInv, ClockTick
  <1>1. TypeOK'
    BY DEF TypeOK
  <1>2. ScanKept'
    BY DEF TypeOK, ScanKept, FilesOf
  <1>3. /\ OneEach'
        /\ AskersWait'
        /\ StartedFirst'
        /\ CatchUpKept'
        /\ SyncKept'
        /\ NewerKept'
        /\ EntriesKept'
        /\ ChangedSinceRead'
        /\ NoLostChange'
        /\ NoLostWakeUp'
        /\ IndexingIsInFlight'
        /\ StoppedMeansNoTimer'
    BY DEF OneEach, Line, AskersWait, Asked, StartedFirst, CatchUpKept,
           SyncKept, NewerKept, EntriesKept, ChangedSinceRead, Noticed,
           NoLostChange, Excused, NoLostWakeUp, Runnable, IndexingIsInFlight,
           StoppedMeansNoTimer
  <1> QED
    BY <1>1, <1>2, <1>3

\* An event is dropped only when the watcher is inactive or has given the
\* repository up; a repository being synced is not given up.
LEMMA DeliverEventIInv ==
  ASSUME IInv, NEW f \in Files, DeliverEvent(f) PROVE IInv'
  <1> USE DEF IInv, DeliverEvent
  <1>1. TypeOK'
    BY DEF TypeOK
  <1>2. StartedFirst'
    BY DEF TypeOK, StartedFirst
  <1>3. ChangedSinceRead'
    BY ScannedBySync DEF TypeOK, ChangedSinceRead, Noticed, StartedFirst
  <1>4. NoLostChange'
    BY DEF TypeOK, NoLostChange, Noticed, Excused, StartedFirst
  <1>5. /\ OneEach'
        /\ AskersWait'
        /\ CatchUpKept'
        /\ SyncKept'
        /\ NewerKept'
        /\ EntriesKept'
        /\ ScanKept'
        /\ NoLostWakeUp'
        /\ IndexingIsInFlight'
        /\ StoppedMeansNoTimer'
    BY DEF OneEach, Line, AskersWait, Asked, CatchUpKept, SyncKept, NewerKept,
           EntriesKept, ScanKept, FilesOf, NoLostWakeUp, Runnable,
           IndexingIsInFlight, StoppedMeansNoTimer
  <1> QED
    BY <1>1, <1>2, <1>3, <1>4, <1>5

\* fs.watch is installed before the watcher is active, whoever asks for it.
LEMMA BeginWatchIInv ==
  ASSUME IInv, InstallWatchers \/ EnsureWatch PROVE IInv'
  <1> USE DEF IInv, InstallWatchers, EnsureWatch, BeginWatch, ReadyToWatch
  <1>1. TypeOK'
    BY DEF TypeOK
  <1>2. AskersWait'
    BY DEF TypeOK, AskersWait, Asked, Line
  <1>3. StartedFirst'
    BY DEF TypeOK, StartedFirst
  <1>4. CatchUpKept'
    BY DEF TypeOK, CatchUpKept
  <1>5. /\ OneEach'
        /\ SyncKept'
        /\ NewerKept'
        /\ EntriesKept'
        /\ ScanKept'
        /\ ChangedSinceRead'
        /\ NoLostChange'
        /\ NoLostWakeUp'
        /\ IndexingIsInFlight'
        /\ StoppedMeansNoTimer'
    BY DEF OneEach, Line, SyncKept, NewerKept, EntriesKept, ScanKept, FilesOf,
           ChangedSinceRead, Noticed, NoLostChange, Excused, NoLostWakeUp,
           Runnable, IndexingIsInFlight, StoppedMeansNoTimer
  <1> QED
    BY <1>1, <1>2, <1>3, <1>4, <1>5

\* Before the watcher is active it waits for no run and has given nothing up;
\* before the server has watched at all, nobody is waiting for a catch-up.
LEMMA NothingBeforeStart ==
  ASSUME IInv, watcher = "installing"
  PROVE  /\ running.source # "watch"
         /\ toSync = {} /\ syncing = {} /\ paused = {} /\ pending = {}
         /\ ~sync
         /\ boot = "starting" => running.source # "catch-up"
  <1>1. toSync = {} /\ syncing = {} /\ paused = {} /\ pending = {} /\ ~sync
    BY DEF IInv, StartedFirst, SyncKept
  <1>2. running.source # "watch"
    BY <1>1, ScannedBySync
  <1>3. ASSUME boot = "starting" PROVE running.source # "catch-up"
    <2>1. catchUp.batch = {}
      BY <1>3 DEF IInv, CatchUpKept
    <2>2. running.source = "catch-up" => running.repos = catchUp.batch
      BY DEF IInv, AskersWait, Asked
    <2>3. running.source = "catch-up" => running.repos # {}
      BY RequestFacts DEF IInv, TypeOK
    <2> QED
      BY <2>1, <2>2, <2>3
  <1> QED
    BY <1>1, <1>2, <1>3

\* start() returns true: nothing was recorded before.  At the server's first
\* start every repository is still to be caught up; at any other, the files out
\* of date that no event is about remain so.
LEMMA ActivateIInv ==
  ASSUME IInv, Activate PROVE IInv'
  <1> USE DEF IInv, Activate
  <1>1. TypeOK'
    BY DEF TypeOK, OutOfDate
  <1>2. AskersWait'
    BY DEF TypeOK, AskersWait, Asked, Line, StartedFirst
  <1>3. StartedFirst'
    BY DEF TypeOK, StartedFirst
  <1>4. CatchUpKept'
    BY DEF TypeOK, CatchUpKept, StartedFirst
  <1>5. EntriesKept'
    BY NothingBeforeStart DEF TypeOK, EntriesKept
  <1>6. ChangedSinceRead'
    <2>1. \A f \in scanned \ read : f \in dirty
      BY DEF ScanKept
    <2> QED
      BY <2>1, NothingBeforeStart DEF ChangedSinceRead, Noticed, OutOfDate
  <1>7. NoLostChange'
    <2>1. CASE boot = "starting"
      BY <2>1 DEF TypeOK, NoLostChange, CatchUpKept, StartedFirst
    <2>2. CASE boot # "starting"
      BY <2>2 DEF NoLostChange, Noticed, OutOfDate
    <2> QED
      BY <2>1, <2>2
  <1>8. NoLostWakeUp'
    BY NothingBeforeStart DEF TypeOK, NoLostWakeUp, Runnable
  <1>9. StoppedMeansNoTimer'
    BY DEF TypeOK, StoppedMeansNoTimer
  <1>10. /\ OneEach'
        /\ SyncKept'
        /\ NewerKept'
        /\ ScanKept'
        /\ IndexingIsInFlight'
    BY DEF OneEach, Line, SyncKept, NewerKept, ScanKept, FilesOf,
           IndexingIsInFlight
  <1> QED
    BY <1>1, <1>2, <1>3, <1>4, <1>5, <1>6, <1>7, <1>8, <1>9, <1>10

\* start() returns false.
LEMMA StartRefusedIInv ==
  ASSUME IInv, StartRefused PROVE IInv'
  <1> USE DEF IInv, StartRefused, ReadyToWatch
  <1>1. TypeOK'
    BY DEF TypeOK
  <1>2. AskersWait'
    BY DEF TypeOK, AskersWait, Asked, Line, StartedFirst
  <1>3. StartedFirst'
    BY DEF TypeOK, StartedFirst
  <1>4. CatchUpKept'
    BY DEF TypeOK, CatchUpKept, StartedFirst
  <1>5. /\ OneEach'
        /\ SyncKept'
        /\ NewerKept'
        /\ EntriesKept'
        /\ ScanKept'
        /\ ChangedSinceRead'
        /\ NoLostChange'
        /\ IndexingIsInFlight'
        /\ StoppedMeansNoTimer'
    BY DEF OneEach, Line, SyncKept, NewerKept, EntriesKept, ScanKept, FilesOf,
           ChangedSinceRead, Noticed, NoLostChange, Excused,
           IndexingIsInFlight, StoppedMeansNoTimer
  <1>6. NoLostWakeUp'
    BY DEF StartedFirst, NoLostWakeUp
  <1> QED
    BY <1>1, <1>2, <1>3, <1>4, <1>5, <1>6

\* The catch-up begins.
LEMMA StartCatchUpIInv ==
  ASSUME IInv, StartCatchUp PROVE IInv'
  <1> USE DEF IInv, StartCatchUp
  <1>1. TypeOK'
    BY DEF TypeOK
  <1>2. AskersWait'
    BY DEF TypeOK, AskersWait, Asked, Line
  <1>3. StartedFirst'
    BY DEF TypeOK, StartedFirst
  <1>4. CatchUpKept'
    BY DEF TypeOK, CatchUpKept
  <1>5. NoLostChange'
    BY DEF TypeOK, NoLostChange, Noticed, Excused
  <1>6. /\ OneEach'
        /\ SyncKept'
        /\ NewerKept'
        /\ EntriesKept'
        /\ ScanKept'
        /\ ChangedSinceRead'
        /\ NoLostWakeUp'
        /\ IndexingIsInFlight'
        /\ StoppedMeansNoTimer'
    BY DEF OneEach, Line, SyncKept, NewerKept, EntriesKept, ScanKept, FilesOf,
           ChangedSinceRead, Noticed, NoLostWakeUp, Runnable,
           IndexingIsInFlight, StoppedMeansNoTimer
  <1> QED
    BY <1>1, <1>2, <1>3, <1>4, <1>5, <1>6

\* A user's request: not asked already.
LEMMA CallIndexIInv ==
  ASSUME IInv, CallIndex PROVE IInv'
  <1> USE DEF IInv, CallIndex
  <1>q. Request("manual", Repos) \in Requests /\ Request("manual", Repos) \notin Asked
    BY RequestFacts DEF Asked, Line
  <1>s. /\ waiting' \in Seq(Requests)
        /\ Asked' = Asked \union {Request("manual", Repos)}
        /\ OneEach'
    BY <1>q, Submitted
  <1>1. TypeOK'
    BY <1>s DEF TypeOK
  <1>2. OneEach'
    BY <1>s
  <1>3. AskersWait'
    BY <1>q, <1>s, RequestFacts DEF AskersWait
  <1>4. /\ StartedFirst'
        /\ CatchUpKept'
        /\ SyncKept'
        /\ NewerKept'
        /\ EntriesKept'
        /\ ScanKept'
        /\ ChangedSinceRead'
        /\ NoLostChange'
        /\ NoLostWakeUp'
        /\ IndexingIsInFlight'
        /\ StoppedMeansNoTimer'
    BY DEF StartedFirst, CatchUpKept, SyncKept, NewerKept, EntriesKept,
           ScanKept, FilesOf, ChangedSinceRead, Noticed, NoLostChange,
           Excused, NoLostWakeUp, Runnable, IndexingIsInFlight,
           StoppedMeansNoTimer
  <1> QED
    BY <1>1, <1>2, <1>3, <1>4

\* The command's first request: nobody else makes it.
LEMMA InitialIndexIInv ==
  ASSUME IInv, InitialIndex PROVE IInv'
  <1> USE DEF IInv, InitialIndex
  <1>q. Request("initial", Repos) \in Requests /\ Request("initial", Repos) \notin Asked
    BY RequestFacts DEF AskersWait
  <1>s. /\ waiting' \in Seq(Requests)
        /\ Asked' = Asked \union {Request("initial", Repos)}
        /\ OneEach'
    BY <1>q, Submitted
  <1>1. TypeOK'
    BY <1>s DEF TypeOK
  <1>2. OneEach'
    BY <1>s
  <1>3. AskersWait'
    BY <1>q, <1>s, RequestFacts DEF AskersWait
  <1>4. StartedFirst'
    BY DEF TypeOK, StartedFirst
  <1>5. CatchUpKept'
    BY DEF TypeOK, CatchUpKept
  <1>6. /\ SyncKept'
        /\ NewerKept'
        /\ EntriesKept'
        /\ ScanKept'
        /\ ChangedSinceRead'
        /\ NoLostChange'
        /\ NoLostWakeUp'
        /\ IndexingIsInFlight'
        /\ StoppedMeansNoTimer'
    BY DEF SyncKept, NewerKept, EntriesKept, ScanKept, FilesOf,
           ChangedSinceRead, Noticed, NoLostChange, Excused, NoLostWakeUp,
           Runnable, IndexingIsInFlight, StoppedMeansNoTimer
  <1> QED
    BY <1>1, <1>2, <1>3, <1>4, <1>5, <1>6

\* IndexBatch, for the batch b.
BatchRequested(b) ==
    /\ catchUp.running /\ catchUp.batch = {}
    /\ catchUp' = [catchUp EXCEPT !.batch = b]
    /\ waiting' = Append(waiting, Request("catch-up", b))
    /\ UNCHANGED <<diskVars, boot, watcher, stateVars, fileVars, timer, syncVars,
                   running>>

\* The next batch of the catch-up: the one before has been answered.
LEMMA IndexBatchIInv ==
  ASSUME IInv, NEW b \in SUBSET Repos, b # {}, BatchRequested(b)
  PROVE  IInv'
  <1>a. \A q \in Asked : q.source # "catch-up"
    BY RequestFacts, AskedType DEF IInv, AskersWait, BatchRequested
  <1>q. Request("catch-up", b) \in Requests /\ Request("catch-up", b) \notin Asked
    BY <1>a, RequestFacts
  <1>b. /\ catchUp'.batch = b
        /\ catchUp'.running = catchUp.running
        /\ catchUp'.failed = catchUp.failed
        /\ catchUp'.left = catchUp.left
        /\ catchUp' \in [running : BOOLEAN, failed : BOOLEAN,
                         left : SUBSET Repos, batch : SUBSET Repos]
    BY DEF IInv, TypeOK, BatchRequested
  <1>c. /\ catchUp.running
        /\ UNCHANGED <<dirty, scanned, read, events, unseen, boot, watcher,
                       active, installed, degraded, matching, pending, indexing,
                       newer, timer, sync, toSync, syncing, sameMs, failures,
                       paused, inARow, running>>
    BY DEF BatchRequested
  <1>s. /\ waiting' \in Seq(Requests)
        /\ Asked' = Asked \union {Request("catch-up", b)}
        /\ OneEach'
    BY <1>q, Submitted DEF IInv, BatchRequested
  <1>1. TypeOK'
    BY <1>b, <1>c, <1>s DEF IInv, TypeOK
  <1>2. OneEach'
    BY <1>s
  <1>3. AskersWait'
    BY <1>a, <1>b, <1>c, <1>s, RequestFacts DEF IInv, AskersWait
  <1>4. CatchUpKept'
    BY <1>b, <1>c DEF IInv, CatchUpKept
  <1>5. NoLostChange'
    BY <1>b, <1>c DEF IInv, NoLostChange, Noticed, Excused
  <1>6. /\ StartedFirst' /\ SyncKept' /\ NewerKept' /\ EntriesKept' /\ ScanKept'
        /\ ChangedSinceRead'
    BY <1>c DEF IInv, StartedFirst, SyncKept, NewerKept, EntriesKept, ScanKept,
       ChangedSinceRead, Noticed
  <1>7. NoLostWakeUp' /\ IndexingIsInFlight' /\ StoppedMeansNoTimer'
    BY <1>c DEF IInv, NoLostWakeUp, Runnable, IndexingIsInFlight,
       StoppedMeansNoTimer
  <1> QED
    BY <1>1, <1>2, <1>3, <1>4, <1>5, <1>6, <1>7 DEF IInv

\* A worker takes a repository: its last sync has been answered, and no entry
\* is newer than this one.
LEMMA SyncRepoIInv ==
  ASSUME IInv, NEW r \in Repos, SyncRepo(r) PROVE IInv'
  <1> USE DEF IInv, SyncRepo
  <1>q. WatchRequest(r) \in Requests /\ WatchRequest(r) \notin Asked
    BY RequestFacts DEF AskersWait, SyncKept, Asked
  <1>s. /\ waiting' \in Seq(Requests)
        /\ Asked' = Asked \union {WatchRequest(r)}
        /\ OneEach'
    BY <1>q, Submitted
  <1>1. TypeOK'
    BY <1>s DEF TypeOK
  <1>2. OneEach'
    BY <1>s
  <1>3. AskersWait'
    BY <1>q, <1>s, RequestFacts DEF AskersWait, WatchRequest, Request
  <1>4. SyncKept'
    BY DEF TypeOK, SyncKept
  <1>5. NewerKept'
    BY DEF TypeOK, NewerKept, FilesOf
  <1>6. EntriesKept'
    BY DEF TypeOK, EntriesKept
  <1>7. ScanKept'
    BY ScannedBySync DEF TypeOK, ScanKept, FilesOf
  <1>8. ChangedSinceRead'
    BY ScannedBySync DEF TypeOK, ChangedSinceRead, Noticed, FilesOf, SyncKept
  <1>9. IndexingIsInFlight'
    BY DEF TypeOK, IndexingIsInFlight
  <1>10. /\ StartedFirst'
        /\ CatchUpKept'
        /\ NoLostChange'
        /\ NoLostWakeUp'
        /\ StoppedMeansNoTimer'
    BY DEF StartedFirst, CatchUpKept, NoLostChange, Noticed, Excused,
           NoLostWakeUp, Runnable, StoppedMeansNoTimer
  <1> QED
    BY <1>1, <1>2, <1>3, <1>4, <1>5, <1>6, <1>7, <1>8, <1>9, <1>10

\* A run begins, with nothing read.
LEMMA BeginIndexIInv ==
  ASSUME IInv, BeginIndex PROVE IInv'
  <1> USE DEF IInv, BeginIndex
  <1>1. TypeOK'
    <2>1. Line \subseteq Requests
      BY DEF TypeOK, Line
    <2>2. waiting' \in Seq(Requests) /\ running' \in Requests
      BY <2>1, Begun
    <2> QED
      BY <2>2 DEF TypeOK
  <1>2. OneEach'
    BY Begun
  <1>3. AskersWait'
    BY Begun DEF AskersWait
  <1>4. ScanKept'
    BY RequestFacts DEF ScanKept, FilesOf
  <1>5. ChangedSinceRead'
    BY RequestFacts DEF ScanKept, FilesOf, ChangedSinceRead
  <1>6. /\ StartedFirst'
        /\ CatchUpKept'
        /\ SyncKept'
        /\ NewerKept'
        /\ EntriesKept'
        /\ NoLostChange'
        /\ NoLostWakeUp'
        /\ IndexingIsInFlight'
        /\ StoppedMeansNoTimer'
    BY DEF StartedFirst, CatchUpKept, SyncKept, NewerKept, EntriesKept,
           NoLostChange, Noticed, Excused, NoLostWakeUp, Runnable,
           IndexingIsInFlight, StoppedMeansNoTimer
  <1> QED
    BY <1>1, <1>2, <1>3, <1>4, <1>5, <1>6

\* The scan reads one file.
LEMMA ReadFileIInv ==
  ASSUME IInv, NEW f \in Files, ReadFile(f) PROVE IInv'
  <1> USE DEF IInv, ReadFile
  <1>1. TypeOK'
    BY DEF TypeOK
  <1>2. ScanKept'
    BY DEF TypeOK, ScanKept, FilesOf
  <1>3. ChangedSinceRead'
    BY DEF TypeOK, ChangedSinceRead, Noticed
  <1>4. /\ OneEach'
        /\ AskersWait'
        /\ StartedFirst'
        /\ CatchUpKept'
        /\ SyncKept'
        /\ NewerKept'
        /\ EntriesKept'
        /\ NoLostChange'
        /\ NoLostWakeUp'
        /\ IndexingIsInFlight'
        /\ StoppedMeansNoTimer'
    BY DEF OneEach, Line, AskersWait, Asked, StartedFirst, CatchUpKept,
           SyncKept, NewerKept, EntriesKept, NoLostChange, Noticed, Excused,
           NoLostWakeUp, Runnable, IndexingIsInFlight, StoppedMeansNoTimer
  <1> QED
    BY <1>1, <1>2, <1>3, <1>4

\* An event is recorded: with a time later than the start of the sync, if the
\* sync's run has read the file.
LEMMA RecordEventIInv ==
  ASSUME IInv, NEW f \in Files, RecordEvent(f) PROVE IInv'
  <1> USE DEF IInv, RecordEvent, Scheduled
  <1>1. TypeOK'
    BY DEF TypeOK
  <1>2. StartedFirst'
    BY DEF TypeOK, StartedFirst
  <1>3. NewerKept'
    BY DEF TypeOK, NewerKept, SeenAfterStart
  <1>4. EntriesKept'
    BY DEF TypeOK, EntriesKept
  <1>5. ChangedSinceRead'
    BY ScannedBySync DEF TypeOK, ChangedSinceRead, Noticed, SeenAfterStart
  <1>6. NoLostChange'
    BY DEF TypeOK, NoLostChange, Noticed, Excused
  <1>7. NoLostWakeUp'
    BY DEF TypeOK, NoLostWakeUp, Runnable
  <1>8. IndexingIsInFlight'
    BY DEF TypeOK, IndexingIsInFlight
  <1>9. StoppedMeansNoTimer'
    BY DEF TypeOK, StoppedMeansNoTimer
  <1>10. /\ OneEach'
        /\ AskersWait'
        /\ CatchUpKept'
        /\ SyncKept'
        /\ ScanKept'
    BY DEF OneEach, Line, AskersWait, Asked, CatchUpKept, SyncKept, ScanKept,
           FilesOf
  <1> QED
    BY <1>1, <1>2, <1>3, <1>4, <1>5, <1>6, <1>7, <1>8, <1>9, <1>10

\* The debounce timer fires: entries are marked and a sync begins, unless one is
\* in flight already or there is nothing to sync.
LEMMA FireTimerIInv ==
  ASSUME IInv, FireTimer PROVE IInv'
  <1> DEFINE chosen == Runnable \ indexing
  <1>1. /\ timer' = FALSE
        /\ UNCHANGED <<diskVars, bootVars, stateVars, matching, pending, newer,
                       syncing, sameMs, failures, paused, inARow, queueVars>>
    BY DEF FireTimer
  <1>2. \/ /\ SyncAllowed /\ chosen # {}
           /\ indexing' = indexing \union chosen
           /\ sync' = TRUE
           /\ toSync' = {RepoOf[f] : f \in chosen}
        \/ /\ ~(SyncAllowed /\ chosen # {})
           /\ UNCHANGED <<indexing, sync, toSync>>
    BY DEF FireTimer
  <1>3. chosen \subseteq pending /\ \A f \in chosen : RepoOf[f] \in Repos \ paused
    BY DEF IInv, TypeOK, Runnable
  <1>4. ~sync => toSync = {} /\ syncing = {} /\ indexing = {} /\ newer = {}
    BY DEF IInv, SyncKept, IndexingIsInFlight, NewerKept
  <1>5. CASE UNCHANGED <<indexing, sync, toSync>>
    <2>1. TypeOK'
      <3>1. /\ UNCHANGED <<dirty, scanned, read, events, unseen, boot, watcher,
                           catchUp, active, installed, degraded, matching,
                           pending, indexing, newer, sync, toSync, syncing,
                           sameMs, failures, paused, inARow, waiting, running>>
            /\ timer' \in BOOLEAN
        BY <1>1, <1>5
      <3> QED
        BY <3>1 DEF IInv, TypeOK
    <2>2. /\ OneEach' /\ AskersWait' /\ StartedFirst' /\ CatchUpKept' /\ SyncKept'
          /\ NewerKept' /\ EntriesKept' /\ ScanKept' /\ ChangedSinceRead'
      BY <1>1, <1>5 DEF IInv, OneEach, Line, AskersWait, Asked, StartedFirst,
         CatchUpKept, SyncKept, NewerKept, EntriesKept, ScanKept,
         ChangedSinceRead, Noticed
    <2>3. NoLostChange' /\ IndexingIsInFlight' /\ StoppedMeansNoTimer'
      BY <1>1, <1>5 DEF IInv, NoLostChange, Noticed, Excused,
         IndexingIsInFlight, StoppedMeansNoTimer
    <2>4. NoLostWakeUp'
      <3>1. active /\ ~degraded /\ Runnable # {} => sync
        <4>1. SUFFICES ASSUME active, ~degraded, Runnable # {}, ~sync PROVE FALSE
          OBVIOUS
        <4>2. SyncAllowed /\ chosen # {}
          BY <4>1, <1>4 DEF SyncAllowed
        <4>3. sync' = TRUE
          BY <4>2, <1>2
        <4> QED
          BY <4>1, <4>3, <1>5
      <3> QED
        BY <3>1, <1>1, <1>5 DEF NoLostWakeUp, Runnable
    <2> QED
      BY <2>1, <2>2, <2>3, <2>4 DEF IInv
  <1>6. CASE /\ SyncAllowed /\ chosen # {}
             /\ indexing' = indexing \union chosen
             /\ sync' = TRUE
             /\ toSync' = {RepoOf[f] : f \in chosen}
    <2>1. /\ active /\ ~sync
          /\ toSync = {} /\ syncing = {} /\ indexing = {} /\ newer = {}
      BY <1>4, <1>6 DEF SyncAllowed
    <2>2. toSync' \subseteq Repos \ paused
      BY <1>3, <1>6
    <2> HIDE DEF chosen
    <2>3. TypeOK'
      <3>1. /\ indexing' \subseteq Files /\ toSync' \subseteq Repos
            /\ sync' \in BOOLEAN /\ timer' \in BOOLEAN
        BY <1>1, <1>3, <1>6, <2>2 DEF IInv, TypeOK
      <3>2. UNCHANGED <<dirty, scanned, read, events, unseen, boot, watcher,
                        catchUp, active, installed, degraded, matching, pending,
                        newer, syncing, sameMs, failures, paused, inARow,
                        waiting, running>>
        BY <1>1
      <3> QED
        BY <3>1, <3>2 DEF IInv, TypeOK
    <2>4. StartedFirst' /\ SyncKept' /\ NewerKept'
      BY <1>1, <1>6, <2>1, <2>2 DEF IInv, StartedFirst, SyncKept, NewerKept
    <2>5. EntriesKept'
      BY <1>1, <1>3, <1>6, <2>1 DEF IInv, EntriesKept
    <2>6. NoLostWakeUp' /\ IndexingIsInFlight' /\ StoppedMeansNoTimer'
      BY <1>1, <1>6, <2>1 DEF IInv, NoLostWakeUp, IndexingIsInFlight,
         StoppedMeansNoTimer
    <2>7. OneEach' /\ AskersWait' /\ CatchUpKept' /\ ScanKept'
      BY <1>1 DEF IInv, OneEach, Line, AskersWait, Asked, CatchUpKept, ScanKept
    <2>8. ChangedSinceRead' /\ NoLostChange'
      BY <1>1 DEF IInv, ChangedSinceRead, NoLostChange, Noticed, Excused
    <2> QED
      BY <2>3, <2>4, <2>5, <2>6, <2>7, <2>8 DEF IInv
  <1> QED
    BY <1>2, <1>5, <1>6

\* The sync is over: nothing is marked any more.
LEMMA SyncFinallyIInv ==
  ASSUME IInv, SyncFinally PROVE IInv'
  <1> USE DEF IInv, SyncFinally, TimerAfterSync, Scheduled
  <1>1. TypeOK'
    <2>1. timer' \in BOOLEAN /\ sync' \in BOOLEAN
      BY DEF TypeOK
    <2>2. UNCHANGED <<diskVars, bootVars, stateVars, fileVars, toSync, syncing,
                      sameMs, failures, paused, inARow, queueVars>>
      OBVIOUS
    <2> QED
      BY <2>1, <2>2, SMTT(60) DEF TypeOK
  <1>2. StartedFirst'
    BY DEF TypeOK, StartedFirst
  <1>3. SyncKept'
    BY DEF TypeOK, SyncKept
  <1>4. NoLostWakeUp'
    BY DEF TypeOK, NoLostWakeUp, Runnable
  <1>5. IndexingIsInFlight'
    BY DEF TypeOK, IndexingIsInFlight
  <1>6. StoppedMeansNoTimer'
    BY DEF TypeOK, StoppedMeansNoTimer
  <1>7. /\ OneEach'
        /\ AskersWait'
        /\ CatchUpKept'
        /\ NewerKept'
        /\ EntriesKept'
        /\ ScanKept'
        /\ ChangedSinceRead'
        /\ NoLostChange'
    BY DEF OneEach, Line, AskersWait, Asked, CatchUpKept, NewerKept,
           EntriesKept, ScanKept, FilesOf, ChangedSinceRead, Noticed,
           NoLostChange, Excused
  <1> QED
    BY <1>1, <1>2, <1>3, <1>4, <1>5, <1>6, <1>7

\* stop().
LEMMA UnwatchIInv ==
  ASSUME IInv, Unwatch PROVE IInv'
  <1> USE DEF IInv, Unwatch, Stopped
  <1>1. TypeOK'
    BY DEF TypeOK
  <1>2. StartedFirst'
    BY DEF TypeOK, StartedFirst
  <1>3. NewerKept'
    BY DEF TypeOK, NewerKept
  <1>4. EntriesKept'
    BY DEF TypeOK, EntriesKept
  <1>5. ChangedSinceRead'
    BY DEF TypeOK, ChangedSinceRead, Noticed
  <1>6. NoLostChange'
    BY DEF TypeOK, NoLostChange, Noticed, Excused
  <1>7. NoLostWakeUp'
    BY DEF TypeOK, NoLostWakeUp, Runnable
  <1>8. IndexingIsInFlight'
    BY DEF TypeOK, IndexingIsInFlight
  <1>9. StoppedMeansNoTimer'
    BY DEF TypeOK, StoppedMeansNoTimer
  <1>10. /\ OneEach'
        /\ AskersWait'
        /\ CatchUpKept'
        /\ SyncKept'
        /\ ScanKept'
    BY DEF OneEach, Line, AskersWait, Asked, CatchUpKept, SyncKept, ScanKept,
           FilesOf
  <1> QED
    BY <1>1, <1>2, <1>3, <1>4, <1>5, <1>6, <1>7, <1>8, <1>9, <1>10

\* degrade().
LEMMA DegradeIInv ==
  ASSUME IInv, Degrade PROVE IInv'
  <1> USE DEF IInv, Degrade, Stopped
  <1>1. TypeOK'
    BY DEF TypeOK
  <1>2. StartedFirst'
    BY DEF TypeOK, StartedFirst
  <1>3. NewerKept'
    BY DEF TypeOK, NewerKept
  <1>4. EntriesKept'
    BY DEF TypeOK, EntriesKept
  <1>5. ChangedSinceRead'
    BY DEF TypeOK, ChangedSinceRead, Noticed
  <1>6. NoLostChange'
    BY DEF TypeOK, NoLostChange, Noticed, Excused
  <1>7. NoLostWakeUp'
    BY DEF TypeOK, NoLostWakeUp, Runnable
  <1>8. IndexingIsInFlight'
    BY DEF TypeOK, IndexingIsInFlight
  <1>9. StoppedMeansNoTimer'
    BY DEF TypeOK, StoppedMeansNoTimer
  <1>10. /\ OneEach'
        /\ AskersWait'
        /\ CatchUpKept'
        /\ SyncKept'
        /\ ScanKept'
    BY DEF OneEach, Line, AskersWait, Asked, CatchUpKept, SyncKept, ScanKept,
           FilesOf
  <1> QED
    BY <1>1, <1>2, <1>3, <1>4, <1>5, <1>6, <1>7, <1>8, <1>9, <1>10

-----------------------------------------------------------------------------
(* The ends of index runs. *)

\* What every end of a run leaves: the request is answered, and a successful
\* run leaves no file of its repositories out of date that it has read in its
\* present state.
LEMMA RunEnded ==
  ASSUME IInv, NEW source \in {"watch", "manual", "initial", "catch-up"},
         NEW outcome, RunEnds(source, outcome), waiting' = waiting
  PROVE  /\ running \in Requests
         /\ running.source = source
         /\ dirty' \subseteq dirty /\ unseen' = unseen \intersect dirty'
         /\ scanned' = {} /\ read' = {} /\ running' = NoRequest
         /\ outcome = "ok" =>
                \A f \in dirty' : RepoOf[f] \in running.repos => f \in scanned \ read
         /\ Asked' \subseteq Asked \union {NoRequest}
         /\ running \notin Asked'
         /\ OneEach' /\ ScanKept' /\ ChangedSinceRead'
         /\ UNCHANGED <<events, stateVars, matching, timer, sync, toSync>>
  <1>1. running.source = source
    BY DEF RunEnds
  <1>2. running \in Requests
    BY <1>1, RequestFacts DEF IInv, TypeOK
  <1>3. /\ unseen' = unseen \intersect dirty'
        /\ scanned' = {} /\ read' = {} /\ running' = NoRequest
        /\ UNCHANGED <<events, stateVars, matching, timer, sync, toSync>>
    BY DEF RunEnds
  <1>4. PICK committed \in SUBSET running.repos :
            /\ FilesOf(committed) \subseteq scanned
            /\ outcome = "ok" => committed = running.repos
            /\ dirty' = dirty \ (read \intersect FilesOf(committed))
    BY DEF RunEnds
  <1>5. ASSUME outcome = "ok", NEW f \in dirty', RepoOf[f] \in running.repos
        PROVE  f \in scanned \ read
    <2>1. f \in FilesOf(committed)
      BY <1>4, <1>5 DEF IInv, TypeOK, FilesOf
    <2> QED
      BY <2>1, <1>4
  <1>6. /\ Asked' \subseteq Asked \union {NoRequest}
        /\ running \notin Asked'
        /\ OneEach'
    BY <1>2, <1>3, Answered, RequestFacts DEF IInv
  <1>7. ScanKept' /\ ChangedSinceRead'
    BY <1>3, RequestFacts DEF ScanKept, ChangedSinceRead
  <1> QED
    BY <1>1, <1>2, <1>3, <1>4, <1>5, <1>6, <1>7

\* A user's run, or the command's first one, ends: files become up to date.
LEMMA EndUserIndexIInv ==
  ASSUME IInv, NEW source \in {"manual", "initial"},
         NEW outcome \in {"ok", "failed"}, EndUserIndex(source, outcome)
  PROVE  IInv'
  <1>1. RunEnds(source, outcome) /\ waiting' = waiting
    BY DEF EndUserIndex
  <1>2. /\ UNCHANGED <<watcher, catchUp, pending, indexing, newer, syncing,
                       sameMs, failures, paused, inARow, waiting>>
        /\ boot' = IF source = "manual" THEN boot
                   ELSE IF outcome = "ok" THEN "indexed" ELSE "exited"
    BY DEF EndUserIndex
  <1>3. /\ running \in Requests
        /\ running.source = source
        /\ dirty' \subseteq dirty /\ unseen' = unseen \intersect dirty'
        /\ scanned' = {} /\ read' = {} /\ running' = NoRequest
        /\ Asked' \subseteq Asked \union {NoRequest}
        /\ running \notin Asked'
        /\ OneEach' /\ ScanKept' /\ ChangedSinceRead'
        /\ UNCHANGED <<events, stateVars, matching, timer, sync, toSync>>
    BY <1>1, RunEnded
  <1>4. source = "initial" => boot = "indexing"
    BY <1>3 DEF IInv, AskersWait, Asked
  <1>5. source = "initial" => \A q \in Asked' : q.source # "initial"
    BY <1>3, RequestFacts, AskedType DEF IInv
  <1>6. TypeOK'
    BY <1>2, <1>3 DEF IInv, TypeOK
  <1>7. AskersWait'
    BY <1>2, <1>3, <1>5, RequestFacts DEF IInv, AskersWait
  <1>8. StartedFirst' /\ CatchUpKept'
    BY <1>2, <1>3, <1>4 DEF IInv, StartedFirst, CatchUpKept
  <1>9. NoLostChange'
    BY <1>2, <1>3 DEF IInv, NoLostChange, Noticed, Excused
  <1>10. /\ SyncKept' /\ NewerKept' /\ EntriesKept' /\ NoLostWakeUp'
         /\ IndexingIsInFlight' /\ StoppedMeansNoTimer'
    BY <1>2, <1>3 DEF IInv, SyncKept, NewerKept, EntriesKept, NoLostWakeUp,
       Runnable, IndexingIsInFlight, StoppedMeansNoTimer
  <1> QED
    BY <1>3, <1>6, <1>7, <1>8, <1>9, <1>10 DEF IInv

\* The run of a batch ends: a file of the batch that is still out of date has
\* changed since it was read, and an active watcher has noticed.
LEMMA EndCatchUpIInv ==
  ASSUME IInv, NEW outcome \in {"ok", "failed"}, EndCatchUp(outcome)
  PROVE  IInv'
  <1> DEFINE left == IF outcome = "ok" THEN catchUp.left \ catchUp.batch
                                       ELSE catchUp.left
  <1>1. RunEnds("catch-up", outcome) /\ waiting' = waiting
    BY DEF EndCatchUp
  <1>2. /\ UNCHANGED <<boot, watcher, pending, indexing, newer, syncing,
                       sameMs, failures, paused, inARow, waiting>>
        /\ catchUp' = [running |-> outcome = "ok" /\ left # {},
                       failed |-> outcome = "failed",
                       left |-> left, batch |-> {}]
    BY DEF EndCatchUp
  <1>3. /\ running \in Requests
        /\ running.source = "catch-up"
        /\ dirty' \subseteq dirty /\ unseen' = unseen \intersect dirty'
        /\ scanned' = {} /\ read' = {} /\ running' = NoRequest
        /\ outcome = "ok" =>
               \A f \in dirty' : RepoOf[f] \in running.repos => f \in scanned \ read
        /\ Asked' \subseteq Asked \union {NoRequest}
        /\ running \notin Asked'
        /\ OneEach' /\ ScanKept' /\ ChangedSinceRead'
        /\ UNCHANGED <<events, stateVars, matching, timer, sync, toSync>>
    BY <1>1, RunEnded
  <1>4. running.repos = catchUp.batch /\ catchUp.batch # {}
    BY <1>3, RequestFacts DEF IInv, AskersWait, Asked
  <1>5. Startup = "mcp" /\ boot = "serving"
    BY <1>4, WatchAssumption DEF IInv, CatchUpKept
  <1>6. \A q \in Asked' : q.source # "catch-up"
    <2>1. \A q \in Asked : q.source = "catch-up" => q = running
      BY <1>3, <1>4, AskedType, RequestFacts DEF IInv, AskersWait, Asked
    <2> QED
      BY <2>1, <1>3, RequestFacts
  <1>7. /\ catchUp'.running = (outcome = "ok" /\ left # {})
        /\ catchUp'.failed = (outcome = "failed")
        /\ catchUp'.left = left
        /\ catchUp'.batch = {}
    BY <1>2
  <1>8. TypeOK'
    <2>1. left \subseteq Repos
      BY DEF IInv, TypeOK
    <2>2. catchUp' \in [running : BOOLEAN, failed : BOOLEAN,
                        left : SUBSET Repos, batch : SUBSET Repos]
      BY <2>1, <1>2
    <2> QED
      BY <2>2, <1>2, <1>3 DEF IInv, TypeOK
  <1>9. AskersWait'
    BY <1>2, <1>3, <1>6, RequestFacts DEF IInv, AskersWait
  <1>10. StartedFirst'
    BY <1>2, <1>3 DEF IInv, StartedFirst
  <1>11. CatchUpKept'
    BY <1>2, <1>5, <1>7 DEF CatchUpKept
  <1>12. NoLostChange'
    <2> SUFFICES ASSUME active, NEW f \in dirty'
                 PROVE  \/ (Noticed(f) \/ RepoOf[f] \in catchUp.left \/ Excused(f))'
                        \/ f \in unseen'
      BY <1>3 DEF NoLostChange
    <2>1. Noticed(f)' <=> Noticed(f)
      BY <1>2, <1>3 DEF Noticed
    <2>2. \/ Noticed(f) \/ RepoOf[f] \in catchUp.left \/ RepoOf[f] \in paused
          \/ f \in unseen'
      BY <1>3, <1>5 DEF IInv, NoLostChange, Excused
    <2>3. CASE RepoOf[f] \in catchUp.batch /\ outcome = "ok"
      <3>1. f \in scanned \ read
        BY <2>3, <1>3, <1>4
      <3>2. Noticed(f) \/ RepoOf[f] \in paused \/ f \in unseen'
        BY <3>1, <1>3 DEF IInv, ChangedSinceRead
      <3> QED
        BY <3>2, <2>1, <1>2 DEF Excused
    <2>4. CASE ~(RepoOf[f] \in catchUp.batch /\ outcome = "ok")
      BY <2>1, <2>2, <2>4, <1>2, <1>7 DEF Excused
    <2> QED
      BY <2>3, <2>4
  <1>13. /\ SyncKept' /\ NewerKept' /\ EntriesKept' /\ NoLostWakeUp'
         /\ IndexingIsInFlight' /\ StoppedMeansNoTimer'
    BY <1>2, <1>3 DEF IInv, SyncKept, NewerKept, EntriesKept, NoLostWakeUp,
       Runnable, IndexingIsInFlight, StoppedMeansNoTimer
  <1> QED
    BY <1>3, <1>8, <1>9, <1>10, <1>11, <1>12, <1>13 DEF IInv

\* The entries that a successful sync removes are of files up to date, or of
\* files whose change is noticed by other means.
LEMMA SyncedAreCurrent ==
  ASSUME IInv, active, NEW r \in Repos, running = WatchRequest(r),
         RunEnds("watch", "ok"), waiting' = waiting,
         NEW f \in dirty', RepoOf[f] = r
  PROVE  f \in events \union matching \union newer
  <1>1. RepoOf[f] \in running.repos
    BY RequestFacts
  <1>2. \A g \in dirty' : RepoOf[g] \in running.repos => g \in scanned \ read
    BY RunEnded
  <1>3. f \in scanned \ read
    BY <1>1, <1>2
  <1> QED
    BY <1>3, RequestFacts DEF IInv, ChangedSinceRead

\* The sync of a repository ends: its request is answered, and no other sync
\* is touched.
LEMMA SyncEnded ==
  ASSUME IInv, NEW r \in Repos, running = WatchRequest(r),
         NEW outcome, RunEnds("watch", outcome), waiting' = waiting,
         syncing' = syncing \ {r}, UNCHANGED bootVars
  PROVE  /\ r \in syncing /\ r \notin toSync /\ r \notin paused /\ sync
         /\ AskersWait'
  <1>1. r \in syncing
    BY RequestFacts DEF IInv, AskersWait, Asked
  <1>2. r \notin toSync /\ r \notin paused /\ sync
    BY <1>1 DEF IInv, SyncKept
  <1>3. Asked' \subseteq Asked \union {NoRequest} /\ running \notin Asked'
    BY RunEnded
  <1>4. AskersWait'
    BY <1>3, RequestFacts DEF IInv, AskersWait
  <1> QED
    BY <1>1, <1>2, <1>4

\* The sync of a repository succeeded: the entries it has indexed are removed,
\* those newer than its start stay.
LEMMA RepoSyncedIInv ==
  ASSUME IInv, NEW r \in Repos, RepoSynced(r)
  PROVE  IInv'
  <1>1. RunEnds("watch", "ok") /\ waiting' = waiting /\ running = WatchRequest(r)
    BY DEF RepoSynced
  <1>2. /\ syncing' = syncing \ {r}
        /\ sameMs' = sameMs \ {r}
        /\ pending' = pending \ Synced(r)
        /\ indexing' = indexing \ Synced(r)
        /\ newer' = newer \ FilesOf({r})
        /\ failures' = [failures EXCEPT ![r] = 0]
        /\ inARow' = [inARow EXCEPT ![r] = 0]
        /\ UNCHANGED <<bootVars, paused, waiting>>
    BY DEF RepoSynced, CountsAfterSync
  <1>3. /\ dirty' \subseteq dirty /\ unseen' = unseen \intersect dirty'
        /\ scanned' = {} /\ read' = {} /\ running' = NoRequest
        /\ OneEach' /\ ScanKept' /\ ChangedSinceRead'
        /\ UNCHANGED <<events, stateVars, matching, timer, sync, toSync>>
    BY <1>1, RunEnded
  <1>4. /\ r \in syncing /\ r \notin toSync /\ r \notin paused /\ sync
        /\ AskersWait'
    BY <1>1, <1>2, SyncEnded
  <1>5. TypeOK'
    BY <1>2, <1>3, WatchAssumption DEF IInv, TypeOK
  <1>6. StartedFirst' /\ CatchUpKept'
    BY <1>2, <1>3 DEF IInv, StartedFirst, CatchUpKept
  <1>7. SyncKept'
    BY <1>2, <1>3, <1>4, WatchAssumption DEF IInv, TypeOK, SyncKept
  <1>8. NewerKept'
    BY <1>2, <1>3 DEF IInv, TypeOK, NewerKept, Synced, FilesOf
  <1>9. EntriesKept'
    <2> SUFFICES ASSUME active, NEW o \in toSync \union syncing \union paused, o # r
                 PROVE  \E f \in pending' : RepoOf[f] = o
      BY <1>2, <1>3, <1>4 DEF EntriesKept
    <2>1. PICK f \in pending : RepoOf[f] = o
      BY DEF IInv, EntriesKept
    <2> QED
      BY <2>1, <1>2 DEF Synced, FilesOf
  <1>10. NoLostChange'
    <2> SUFFICES ASSUME active, NEW f \in dirty'
                 PROVE  \/ (Noticed(f) \/ RepoOf[f] \in catchUp.left \/ Excused(f))'
                        \/ f \in unseen'
      BY <1>3 DEF NoLostChange
    <2>1. \/ Noticed(f) \/ RepoOf[f] \in catchUp.left \/ Excused(f)
          \/ f \in unseen'
      BY <1>3 DEF IInv, NoLostChange
    <2>2. Excused(f) => Excused(f)'
      BY <1>2 DEF Excused
    <2>3. CASE Noticed(f) /\ RepoOf[f] = r
      <3>1. f \in events \union matching \union newer
        BY <2>3, <1>1, SyncedAreCurrent
      <3> QED
        BY <3>1, <1>2, <1>3 DEF IInv, NewerKept, Noticed, Synced
    <2>4. CASE Noticed(f) /\ RepoOf[f] # r
      BY <2>4, <1>2, <1>3 DEF Noticed, Synced, FilesOf
    <2> QED
      BY <2>1, <2>2, <2>3, <2>4, <1>2
  <1>11. NoLostWakeUp' /\ StoppedMeansNoTimer'
    BY <1>2, <1>3, <1>4 DEF IInv, NoLostWakeUp, StoppedMeansNoTimer
  <1>12. IndexingIsInFlight'
    BY <1>2, <1>3 DEF IInv, TypeOK, IndexingIsInFlight, NewerKept, Synced, FilesOf
  <1> QED
    BY <1>3, <1>4, <1>5, <1>6, <1>7, <1>8, <1>9, <1>10, <1>11, <1>12 DEF IInv

\* The sync of a repository failed: its entries wait for the next one, or are
\* kept as the trace of a repository given up.
LEMMA RepoFailedIInv ==
  ASSUME IInv, NEW r \in Repos, RepoFailed(r)
  PROVE  IInv'
  <1>1. RunEnds("watch", "failed") /\ waiting' = waiting /\ running = WatchRequest(r)
    BY DEF RepoFailed
  <1>2. /\ syncing' = syncing \ {r}
        /\ sameMs' = sameMs \ {r}
        /\ indexing' = indexing \ FilesOf({r})
        /\ newer' = newer \ FilesOf({r})
        /\ failures' = [failures EXCEPT ![r] = @ + 1]
        /\ inARow' = [inARow EXCEPT ![r] = @ + 1]
        /\ paused' = paused \union Pausing(r)
        /\ UNCHANGED <<bootVars, pending, waiting>>
    BY DEF RepoFailed, Released
  <1>3. /\ dirty' \subseteq dirty /\ unseen' = unseen \intersect dirty'
        /\ scanned' = {} /\ read' = {} /\ running' = NoRequest
        /\ OneEach' /\ ScanKept' /\ ChangedSinceRead'
        /\ UNCHANGED <<events, stateVars, matching, timer, sync, toSync>>
    BY <1>1, RunEnded
  <1>4. /\ r \in syncing /\ r \notin toSync /\ r \notin paused /\ sync
        /\ AskersWait'
    BY <1>1, <1>2, SyncEnded
  <1>5. failures[r] \in Nat /\ failures[r] < MaxFailures
    BY <1>4, WatchAssumption DEF IInv, TypeOK, SyncKept
  <1>6. Pausing(r) \subseteq {r} /\ (failures[r] + 1 = MaxFailures <=> r \in Pausing(r))
    BY <1>5, WatchAssumption DEF Pausing
  <1>7. TypeOK'
    <2>1. failures' \in [Repos -> 0..MaxFailures]
      BY <1>2, <1>5, WatchAssumption DEF IInv, TypeOK
    <2>2. inARow' \in [Repos -> 0..MaxFailures]
      BY <1>2, <1>5, WatchAssumption DEF IInv, TypeOK, SyncKept
    <2>3. paused' \subseteq Repos
      BY <1>2, <1>6 DEF IInv, TypeOK
    <2> QED
      BY <1>2, <1>3, <2>1, <2>2, <2>3 DEF IInv, TypeOK
  <1>8. StartedFirst' /\ CatchUpKept'
    BY <1>2, <1>3, <1>4 DEF IInv, StartedFirst, CatchUpKept
  <1>9. SyncKept'
    BY <1>2, <1>3, <1>4, <1>6 DEF IInv, TypeOK, SyncKept
  <1>10. NewerKept'
    BY <1>2, <1>3 DEF IInv, TypeOK, NewerKept, FilesOf
  <1>11. EntriesKept'
    BY <1>2, <1>3, <1>4, <1>6 DEF IInv, EntriesKept
  <1>12. NoLostChange'
    BY <1>2, <1>3 DEF IInv, NoLostChange, Noticed, Excused
  <1>13. NoLostWakeUp' /\ StoppedMeansNoTimer'
    BY <1>2, <1>3, <1>4 DEF IInv, NoLostWakeUp, StoppedMeansNoTimer
  <1>14. IndexingIsInFlight'
    BY <1>2, <1>3 DEF IInv, TypeOK, IndexingIsInFlight, FilesOf
  <1> QED
    BY <1>3, <1>4, <1>7, <1>8, <1>9, <1>10, <1>11, <1>12, <1>13, <1>14 DEF IInv

\* A step that changes nothing.
LEMMA StutterIInv == IInv /\ UNCHANGED vars => IInv'
  BY DEF IInv, TypeOK, OneEach, Line, AskersWait, Asked, StartedFirst,
     CatchUpKept, SyncKept, NewerKept, EntriesKept, ScanKept, ChangedSinceRead,
     NoLostChange, Noticed, Excused, NoLostWakeUp, Runnable,
     IndexingIsInFlight, StoppedMeansNoTimer

\* Every step keeps the inductive invariant.
LEMMA NextIInv == IInv /\ [Next]_vars => IInv'
  <1> SUFFICES ASSUME IInv, [Next]_vars PROVE IInv'
    OBVIOUS
  <1>1. CASE Environment
    BY <1>1, ChangeIInv, ClockTickIInv, CallIndexIInv,
       BeginWatchIInv DEF Environment
  <1>2. CASE Start
    <2>1. ASSUME IndexBatch PROVE IInv'
      <3>1. PICK b \in NextBatch(catchUp.left) : BatchRequested(b)
        BY <2>1 DEF IndexBatch, BatchRequested
      <3>2. b \in SUBSET Repos /\ b # {}
        BY DEF NextBatch, IInv, TypeOK
      <3> QED
        BY <3>1, <3>2, IndexBatchIInv
    <2> QED
      BY <1>2, <2>1, InitialIndexIInv, BeginWatchIInv, ActivateIInv,
         StartRefusedIInv, StartCatchUpIInv DEF Start
  <1>3. CASE Watch
    BY <1>3, DeliverEventIInv, RecordEventIInv, FireTimerIInv, UnwatchIInv,
       DegradeIInv DEF Watch
  <1>4. CASE Sync
    BY <1>4, SyncRepoIInv, SyncFinallyIInv DEF Sync
  <1>5. CASE Index
    BY <1>5, BeginIndexIInv, ReadFileIInv, EndUserIndexIInv, EndCatchUpIInv,
       RepoSyncedIInv, RepoFailedIInv DEF Index, EndIndex
  <1>6. CASE UNCHANGED vars
    BY <1>6, StutterIInv
  <1> QED
    BY <1>1, <1>2, <1>3, <1>4, <1>5, <1>6 DEF Next

\* IInv is an invariant of the watcher.
LEMMA Inductive == Spec => []IInv
  <1>1. Init => IInv
    BY InitIInv
  <1>2. IInv /\ [Next]_vars => IInv'
    BY NextIInv
  <1> QED
    BY <1>1, <1>2, PTL DEF Spec
-----------------------------------------------------------------------------
\* At every await the handlers of the watcher leave a sound state: every value
\* typed, no wake-up lost, no entry stuck as indexing, no timer armed after
\* stop().
THEOREM WatcherIsSound == Spec => []WatcherSound
  <1>1. IInv => WatcherSound
    BY DEF IInv, WatcherSound
  <1> QED
    BY <1>1, Inductive, PTL

\* While a watcher is active no change is lost: not one that comes during a sync,
\* nor before the catch-up, nor between the two; only one from before a start
\* that no catch-up follows.
THEOREM ChangesAreNotLost == Spec => []NoLostChange
  <1>1. IInv => NoLostChange
    BY DEF IInv
  <1> QED
    BY <1>1, Inductive, PTL

\* An answer that is not flagged as stale comes from a graph that is out of date
\* only for changes the watcher has yet to handle, or that came before
\* /watch/ensure started it.
THEOREM FreshnessIsHonest == Spec => []FreshnessHonest
  <1>1. ASSUME IInv PROVE FreshnessHonest
    <2> SUFFICES ASSUME Startup = "mcp", boot = "serving", active, ~Stale,
                        NEW f \in dirty
                 PROVE  f \in events \union matching \union unseen
      BY DEF FreshnessHonest
    <2>1. ~catchUp.running /\ ~catchUp.failed /\ pending = {}
      BY DEF Stale
    <2>2. catchUp.left = {}
      BY <2>1, <1>1 DEF IInv, CatchUpKept
    <2>3. RepoOf[f] \notin paused
      BY <2>1, <1>1 DEF IInv, EntriesKept
    <2>4. Noticed(f) \/ f \in unseen
      BY <2>1, <2>2, <2>3, <1>1 DEF IInv, NoLostChange, Excused
    <2> QED
      BY <2>1, <2>4 DEF Noticed
  <1> QED
    BY <1>1, Inductive, PTL
-----------------------------------------------------------------------------
(* Action properties. *)

\* The only steps that remove what an active watcher has noticed are the
\* delivery of an event and the end of a successful sync.
LEMMA NoticedKept ==
  ASSUME IInv, [Next]_vars, active, active', NEW f \in Files,
         Noticed(f), f \in dirty', RepoOf[f] \notin paused
  PROVE  Noticed(f)'
  <1>1. CASE Environment
    BY <1>1 DEF Environment, Change, ClockTick, CallIndex, EnsureWatch,
       BeginWatch, Noticed
  <1>2. CASE Start
    BY <1>2 DEF Start, InitialIndex, InstallWatchers, BeginWatch, Activate, StartRefused,
       StartCatchUp, IndexBatch, Noticed
  <1>3. CASE Watch
    <2>1. ASSUME NEW g \in Files, DeliverEvent(g) PROVE Noticed(f)'
      BY <2>1 DEF DeliverEvent, Noticed, IInv, StartedFirst
    <2>2. ASSUME NEW g \in Files, RecordEvent(g) PROVE Noticed(f)'
      BY <2>2 DEF RecordEvent, Noticed
    <2>3. ASSUME FireTimer PROVE Noticed(f)'
      BY <2>3 DEF FireTimer, Noticed
    <2>4. ~Unwatch /\ ~Degrade
      BY DEF Unwatch, Degrade, Stopped
    <2> QED
      BY <1>3, <2>1, <2>2, <2>3, <2>4 DEF Watch
  <1>4. CASE Sync
    BY <1>4 DEF Sync, SyncRepo, SyncFinally, Noticed
  <1>5. CASE Index
    <2>1. ASSUME NEW r \in Repos, RepoSynced(r) PROVE Noticed(f)'
      <3>1. /\ RunEnds("watch", "ok") /\ waiting' = waiting
            /\ running = WatchRequest(r)
            /\ pending' = pending \ Synced(r)
        BY <2>1 DEF RepoSynced
      <3>2. events' = events /\ matching' = matching
        BY <3>1 DEF RunEnds
      <3>3. CASE RepoOf[f] = r
        <4>1. f \in events \union matching \union newer
          BY <3>1, <3>3, SyncedAreCurrent
        <4> QED
          BY <4>1, <3>1, <3>2 DEF IInv, NewerKept, Noticed, Synced
      <3>4. CASE RepoOf[f] # r
        BY <3>4, <3>1, <3>2 DEF Noticed, Synced, FilesOf
      <3> QED
        BY <3>3, <3>4
    <2>2. ASSUME NEW r \in Repos, RepoFailed(r) PROVE Noticed(f)'
      BY <2>2 DEF RepoFailed, RunEnds, Noticed
    <2>3. ASSUME NEW source, NEW outcome, EndUserIndex(source, outcome)
          PROVE  Noticed(f)'
      BY <2>3 DEF EndUserIndex, RunEnds, Noticed
    <2>4. ASSUME NEW outcome, EndCatchUp(outcome) PROVE Noticed(f)'
      BY <2>4 DEF EndCatchUp, RunEnds, Noticed
    <2>5. ASSUME BeginIndex \/ \E g \in Files : ReadFile(g) PROVE Noticed(f)'
      BY <2>5 DEF BeginIndex, ReadFile, Noticed
    <2> QED
      BY <1>5, <2>1, <2>2, <2>3, <2>4, <2>5 DEF Index, EndIndex
  <1>6. CASE UNCHANGED vars
    BY <1>6 DEF Noticed
  <1> QED
    BY <1>1, <1>2, <1>3, <1>4, <1>5, <1>6 DEF Next

\* A change once noticed is not forgotten before it is indexed, whichever
\* program watches, and whoever else indexes in between.
THEOREM ChangesAreNotForgotten == Spec => NeverForgotten
  <1>1. IInv /\ [Next]_vars =>
          [active' => \A f \in Files :
              Noticed(f) => Noticed(f)' \/ f \notin dirty'
                              \/ ~active \/ RepoOf[f] \in paused]_vars
    BY NoticedKept
  <1> QED
    BY <1>1, Inductive, PTL DEF Spec, NeverForgotten

\* Every step is a step of the index queue, or leaves it alone: a request is
\* made only by who has none waiting or running.
LEMMA QueueStep ==
  ASSUME IInv, [Next]_vars
  PROVE  [Queue!Next]_(Queue!vars)
  <1> USE DEF Queue!vars
  <1>1. Asked = Queue!Queued \union {running}
    BY DEF Asked, Line, Queue!Queued
  <1>2. ASSUME NEW q \in Requests, q \notin Asked,
               waiting' = Append(waiting, q), running' = running
        PROVE  Queue!Next
    BY <1>1, <1>2 DEF Queue!Next, Queue!Submit
  <1>3. ASSUME NEW source, NEW outcome, RunEnds(source, outcome),
               source # "none", waiting' = waiting
        PROVE  Queue!Next
    BY <1>3, RequestFacts DEF RunEnds, Queue!Next, Queue!End
  <1>4. ASSUME CallIndex PROVE Queue!Next
    <2>1. Request("manual", Repos) \in Requests /\ Request("manual", Repos) \notin Asked
      BY <1>4, RequestFacts DEF CallIndex, Asked, Line
    <2> QED
      BY <2>1, <1>2, <1>4 DEF CallIndex
  <1>5. ASSUME InitialIndex PROVE Queue!Next
    <2>1. Request("initial", Repos) \in Requests /\ Request("initial", Repos) \notin Asked
      BY <1>5, RequestFacts DEF InitialIndex, IInv, AskersWait
    <2> QED
      BY <2>1, <1>2, <1>5 DEF InitialIndex
  <1>6. ASSUME IndexBatch PROVE Queue!Next
    <2>1. PICK b \in NextBatch(catchUp.left) :
             waiting' = Append(waiting, Request("catch-up", b))
      BY <1>6 DEF IndexBatch
    <2>2. b \in (SUBSET Repos) \ {{}}
      BY DEF NextBatch, IInv, TypeOK
    <2>3. \A q \in Asked : q.source # "catch-up"
      BY <1>6, RequestFacts, AskedType DEF IndexBatch, IInv, AskersWait
    <2>4. /\ Request("catch-up", b) \in Requests
          /\ Request("catch-up", b) \notin Asked
      BY <2>2, <2>3, RequestFacts
    <2> QED
      BY <2>1, <2>4, <1>2, <1>6 DEF IndexBatch
  <1>7. ASSUME NEW r \in Repos, SyncRepo(r) PROVE Queue!Next
    <2>1. WatchRequest(r) \in Requests /\ WatchRequest(r) \notin Asked
      BY <1>7, RequestFacts DEF SyncRepo, IInv, AskersWait, SyncKept
    <2> QED
      BY <2>1, <1>2, <1>7 DEF SyncRepo
  <1>8. ASSUME BeginIndex PROVE Queue!Next
    BY <1>8 DEF BeginIndex, Queue!Next, Queue!Begin
  <1>9. ASSUME EndIndex PROVE Queue!Next
    BY <1>9, <1>3 DEF EndIndex, EndUserIndex, EndCatchUp, RepoSynced, RepoFailed
  <1>10. CASE Environment
    BY <1>10, <1>4 DEF Environment, Change, ClockTick, EnsureWatch, BeginWatch
  <1>11. CASE Start
    BY <1>11, <1>5, <1>6 DEF Start, InstallWatchers, BeginWatch, Activate, StartRefused,
       StartCatchUp
  <1>12. CASE Watch
    BY <1>12 DEF Watch, DeliverEvent, RecordEvent, FireTimer, Unwatch, Degrade
  <1>13. CASE Sync
    BY <1>13, <1>7 DEF Sync, SyncFinally
  <1>14. CASE Index
    BY <1>14, <1>8, <1>9 DEF Index, ReadFile
  <1>15. CASE UNCHANGED vars
    BY <1>15
  <1> QED
    BY <1>10, <1>11, <1>12, <1>13, <1>14, <1>15 DEF Next

\* Syncs of different repositories interleave, never those of one; and a
\* repository is given up only after as many failed syncs in a row as it is
\* allowed, is not synced again, and keeps an entry that says so.
THEOREM SyncsStayApart == Spec => SyncsAreIsolated
  <1>1. Init => Queue!Init
    BY DEF Init, Queue!Init
  <1>2. IInv /\ [Next]_vars => [Queue!Next]_(Queue!vars)
    BY QueueStep
  <1>3. Spec => SyncsNeverOverlap
    BY <1>1, <1>2, Inductive, PTL DEF Spec, SyncsNeverOverlap, Queue!Spec
  <1>4. ASSUME IInv PROVE GivenUpForGood
    <2> SUFFICES ASSUME NEW r \in paused
                 PROVE  /\ inARow[r] >= MaxFailures
                        /\ r \notin toSync \union syncing
                        /\ active => \E f \in pending : RepoOf[f] = r
      BY DEF GivenUpForGood
    <2>1. inARow[r] >= MaxFailures
      BY <1>4, WatchAssumption DEF IInv, TypeOK, SyncKept
    <2>2. r \notin toSync \union syncing
      BY <1>4 DEF IInv, SyncKept
    <2>3. active => \E f \in pending : RepoOf[f] = r
      BY <1>4 DEF IInv, EntriesKept
    <2> QED
      BY <2>1, <2>2, <2>3
  <1>5. Spec => [][GivenUpForGood']_vars
    BY <1>4, Inductive, PTL
  <1> QED
    BY <1>3, <1>5 DEF SyncsAreIsolated
=============================================================================

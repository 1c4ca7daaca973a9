---------------------------- MODULE PluginManagement ----------------------------
(***************************************************************************)
(* The directory of installed plugins (core/plugins/management.ts), seen   *)
(* through one plugin: installs and removals of several processes, file    *)
(* operation by file operation, processes that die between any two of      *)
(* them, what `plugin list` says of the directory and what the discovery   *)
(* of an index run finds in it.  Nothing is locked.                        *)
(***************************************************************************)
LOCAL INSTANCE Integers
LOCAL INSTANCE FiniteSets
LOCAL INSTANCE TLC

CONSTANTS
    Processes,     \* those that install and remove
    MaxInstalls    \* bound on the installs of a behaviour; the n-th brings version n

VARIABLE shelf

\* A package is identified by its version wherever it is renamed to: the plugin's
\* own directory, one it was set aside to, a staging directory.  It is whole,
\* broken (its manifest is read, its entry does not load) or gone (no manifest),
\* and a staged tarball has its manifest one level down (:151-152).
Package(at, pieces, rooted) == [at |-> at, pieces |-> pieces, rooted |-> rooted]
At(place) == {v \in DOMAIN shelf.dirs : shelf.dirs[v].at = place}
Whole == {v \in DOMAIN shelf.dirs : shelf.dirs[v].pieces = "whole"}
Without(dirs, gone) == [v \in DOMAIN dirs \ gone |-> dirs[v]]

Idle == [pc |-> "idle", version |-> 0, force |-> FALSE, aside |-> {}, target |-> 0]
pc(p) == shelf.procs[p].pc
Busy == {p \in Processes : pc(p) # "idle"}

\* kept: an install succeeded and no removal since.  The rest tells what kind of
\* behaviour this is: whether work overlapped, a process died, a removal stuck.
Fresh ==
    [dirs |-> <<>>, procs |-> [p \in Processes |-> Idle], installs |-> 0, kept |-> FALSE,
     overlapped |-> FALSE, crashed |-> FALSE, stuck |-> FALSE]
Init == shelf = Fresh

Start(s, p, pc1) == [s EXCEPT !.procs[p].pc = pc1, !.overlapped = @ \/ Busy # {}]

\* The finally of installPlugin: what is still staged goes (:100).
Ended(s, p) ==
    [s EXCEPT !.procs[p] = Idle,
              !.dirs = Without(@, {v \in DOMAIN @ \intersect {s.procs[p].version} : @[v].at = "staging"})]
-----------------------------------------------------------------------------
(* installPlugin, a step for each change of the file system. *)

Begin(p) ==
    /\ pc(p) = "idle"
    /\ shelf.installs < MaxInstalls
    /\ \E force, rooted \in BOOLEAN, pieces \in {"gone", "broken"} :
         shelf' = [Start(shelf, p, "staging") EXCEPT !.installs = @ + 1,
                     !.dirs = @ @@ (shelf.installs + 1 :> Package("staging", pieces, rooted)),
                     !.procs[p].version = shelf.installs + 1, !.procs[p].force = force]

\* Copied, unpacked or fetched whole, with its dependencies; or not.
Stage(p) ==
    /\ pc(p) = "staging"
    /\ shelf' \in {Ended(shelf, p),
                   [shelf EXCEPT !.dirs[shelf.procs[p].version].pieces = "whole", !.procs[p].pc = "staged"]}

\* It is discovered and loaded, or refused; so is a second one without --force.
Validate(p) ==
    /\ pc(p) = "staged"
    /\ \/ shelf' = Ended(shelf, p)
       \/ /\ At("plugin") = {} \/ shelf.procs[p].force
          /\ shelf' = [shelf EXCEPT !.procs[p].pc = "validated", !.procs[p].aside = At("plugin")]

\* The directory seen is renamed, whatever is in it by now; none fails (:90).
SetAside(p) ==
    /\ pc(p) = "validated"
    /\ shelf' = IF shelf.procs[p].aside # {} /\ At("plugin") = {} THEN Ended(shelf, p)
                ELSE IF shelf.procs[p].aside = {} THEN [shelf EXCEPT !.procs[p].pc = "aside"]
                ELSE [shelf EXCEPT !.procs[p].pc = "aside", !.procs[p].aside = At("plugin"),
                        !.dirs = [v \in DOMAIN @ |-> IF v \in At("plugin") THEN [@[v] EXCEPT !.at = "backup"] ELSE @[v]]]

\* The staged package takes the name unless it is taken (:92), or cannot.
Publish(p) ==
    /\ pc(p) = "aside"
    /\ \/ shelf' = [shelf EXCEPT !.procs[p].pc = "failed"]
       \/ /\ At("plugin") = {}
          /\ shelf' = [shelf EXCEPT !.dirs[shelf.procs[p].version] = Package("plugin", "whole", TRUE),
                                    !.kept = TRUE, !.procs[p].pc = "published"]

\* :93; where it fails on the way the old package is left in pieces.
DropBackup(p) ==
    /\ pc(p) = "published"
    /\ \/ shelf' = Ended([shelf EXCEPT !.dirs = Without(@, shelf.procs[p].aside)], p)
       \/ \E v \in shelf.procs[p].aside \intersect DOMAIN shelf.dirs, pieces \in {"gone", "broken"} :
            shelf' = [shelf EXCEPT !.dirs[v].pieces = pieces, !.procs[p].pc = "failed", !.stuck = TRUE]

LeaveAside(s, aside) == s
\* The package set aside gets its name back, unless the name is taken (:95).
Restored(s, aside) ==
    IF At("plugin") # {} THEN s
    ELSE [s EXCEPT !.dirs = [v \in DOMAIN @ |-> IF v \in aside THEN [@[v] EXCEPT !.at = "plugin"] ELSE @[v]]]
RollBack(p) ==
    /\ pc(p) = "failed"
    /\ shelf' = Ended(Restored(shelf, shelf.procs[p].aside), p)

Install(p) == Begin(p) \/ Stage(p) \/ Validate(p) \/ SetAside(p) \/ Publish(p) \/ DropBackup(p) \/ RollBack(p)

\* A process dies; names of its own (mkdtemp, process id and time) keep what it
\* left from those who come later.
Crash(p) == pc(p) # "idle" /\ shelf' = [shelf EXCEPT !.procs[p] = Idle, !.crashed = TRUE]
-----------------------------------------------------------------------------
(* Reading the directory. *)

\* inspectInstalledPlugins lists all but the staging directories; one without
\* a manifest goes by its own name, and a name listed twice is invalid.
Named == {v \in At("plugin") \union At("backup") : shelf.dirs[v].pieces # "gone"}
Valid == IF Cardinality(Named) = 1 THEN Named ELSE {}

\* discoverAvailablePlugins takes every directory with a manifest, of several
\* with one name the first, in the order of the file system (register.ts:271-308).
Found == {v \in DOMAIN shelf.dirs : shelf.dirs[v].pieces # "gone" /\ shelf.dirs[v].rooted}

\* removePlugin: the first directory listed by that name, the plugin's own when
\* it is there (a manifest is not asked for); what is removed is the path.
Listed == IF At("plugin") # {} THEN At("plugin") ELSE Named
BeginRemove(p) ==
    /\ pc(p) = "idle"
    /\ \E v \in Listed : shelf' = [Start(shelf, p, "removing") EXCEPT
                                     !.procs[p].target = IF v \in At("plugin") THEN 0 ELSE v]
Remove(p) ==
    /\ pc(p) = "removing"
    /\ LET target == IF shelf.procs[p].target = 0 THEN At("plugin")
                     ELSE At("backup") \intersect {shelf.procs[p].target}
       IN \/ shelf' = Ended([shelf EXCEPT !.dirs = Without(@, target), !.kept = @ /\ target = {}], p)
          \/ \E v \in target, pieces \in {"gone", "broken"} :
               shelf' = Ended([shelf EXCEPT !.dirs[v].pieces = pieces, !.kept = FALSE, !.stuck = TRUE], p)

\* Another directory, once the bound is reached.
Renew == Busy = {} /\ shelf.installs = MaxInstalls /\ shelf' = Fresh

Next ==
    \/ \E p \in Processes : Install(p) \/ Crash(p) \/ BeginRemove(p) \/ Remove(p)
    \/ Renew
-----------------------------------------------------------------------------
(* Properties. *)

\* A plugin once installed is never lost to an install: at every moment, after
\* every failure and every crash, a whole copy of it stands under a name that
\* is discovered, until somebody removes it (the renames of :89-97).
InstalledSurvives == shelf.kept => Whole \intersect (At("plugin") \union At("backup")) # {}

\* Installs that run one after the other, whatever fails in them, leave one
\* package under the plugin's own name, the old one or the new (:94-100).
NothingIsLeftBehind ==
    Busy = {} /\ ~shelf.overlapped /\ ~shelf.crashed /\ ~shelf.stuck =>
        DOMAIN shelf.dirs = At("plugin") /\ (shelf.kept => At("plugin") # {})

\* Once no process works on it, a plugin that was not removed is one that the
\* discovery finds whole, and a healthy listing names what the discovery
\* finds.  The staging directory of a dead process is the exception: the
\* listing hides it (:110) and the discovery does not (register.ts:271-276).
ListedIsFound ==
    Busy = {} /\ ~shelf.stuck /\ At("staging") \intersect Found = {} =>
        /\ shelf.kept => Found # {} /\ Found \subseteq Whole
        /\ Valid # {} => Valid = Found

PluginsStayInstalled == InstalledSurvives /\ NothingIsLeftBehind /\ ListedIsFound
=============================================================================

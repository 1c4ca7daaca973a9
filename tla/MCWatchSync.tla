----------------------------- MODULE MCWatchSync -----------------------------
(* Instances of WatchSync for TLC.                                         *)
EXTENDS WatchSync, TLC

CONSTANTS r1, r2, f1, f2

\* Two repositories with a file each: syncs of different repositories meet.
TwoRepos == f1 :> r1 @@ f2 :> r2
\* One repository with two files: changes of different files meet one sync.
OneRepo == f1 :> r1 @@ f2 :> r1

\* One repository with one file, for the liveness runs.
OneFile == f1 :> r1

\* Exchanging the repositories together with their files changes nothing.
Swap == {r1 :> r1 @@ r2 :> r2 @@ f1 :> f1 @@ f2 :> f2,
         r1 :> r2 @@ r2 :> r1 @@ f1 :> f2 @@ f2 :> f1}
=============================================================================

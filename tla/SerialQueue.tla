----------------------------- MODULE SerialQueue -----------------------------
(***************************************************************************)
(* What the single-process index queue promises its callers, and nothing   *)
(* of how: submitted jobs wait in line, one job at a time is active, and   *)
(* the active job is always the one that has waited longest.               *)
(*                                                                         *)
(* IndexQueue (the promise chain of core/indexing/scheduler.ts) implements *)
(* this specification, and WatchSync uses it in place of that chain.       *)
(***************************************************************************)
EXTENDS Sequences

CONSTANTS Jobs,   \* what callers submit
          NoJob   \* "nothing is active", not one of the jobs

VARIABLES waiting,  \* submitted jobs that have not begun, oldest first
          active    \* the job being executed, or NoJob

vars == <<waiting, active>>

Queued == {waiting[i] : i \in DOMAIN waiting}

Init ==
    /\ waiting = <<>>
    /\ active = NoJob

\* A job is submitted at most once at a time.
Submit(j) ==
    /\ waiting' = Append(waiting, j)
    /\ UNCHANGED active
    /\ active # j
    /\ j \notin Queued

Begin ==
    /\ active = NoJob
    /\ waiting # <<>>
    /\ active' = Head(waiting)
    /\ waiting' = Tail(waiting)

End ==
    /\ active # NoJob
    /\ active' = NoJob
    /\ UNCHANGED waiting

Next == Begin \/ End \/ \E j \in Jobs : Submit(j)

Spec == Init /\ [][Next]_vars
=============================================================================

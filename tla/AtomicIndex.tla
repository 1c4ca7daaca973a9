----------------------------- MODULE AtomicIndex -----------------------------
(***************************************************************************)
(* What an index run promises whoever reads the index while it executes:   *)
(* the code graph and the lexical documents of a repository change         *)
(* together and at once, when a run succeeds, and not at all when it fails *)
(* or the process dies.  Only the recorded outcome may change then.        *)
(*                                                                         *)
(* GraphWrite implements this specification on a database adapter that has *)
(* transactions.                                                           *)
(***************************************************************************)
EXTENDS Naturals

CONSTANTS Files,    \* the files a repository may contain
          Batches   \* the ids of write batches, increasing

VARIABLES graph,    \* graph[f]: the batch whose facts of f are visible, or 0
          docs,     \* docs[f]: the same for the lexical documents of f
          outcome   \* the recorded outcome of the last run that recorded one

vars == <<graph, docs, outcome>>

Init ==
    /\ graph = [f \in Files |-> 0]
    /\ docs = [f \in Files |-> 0]
    /\ outcome = [status |-> "none", batch |-> 0]

\* Batch b replaces what is known of the files it has written; of the others
\* it may hide files, never change or reveal one.
Replaced(known, b, written, hidden) ==
    [f \in Files |-> IF f \in written THEN b ELSE IF f \in hidden THEN 0 ELSE known[f]]

Publish(b) ==
    /\ \E written, hideGraph, hideDocs \in SUBSET Files :
           /\ graph' = Replaced(graph, b, written, hideGraph)
           /\ docs' = Replaced(docs, b, written, hideDocs)
    /\ outcome' = [status |-> "succeeded", batch |-> b]

Fail(b) ==
    /\ outcome' = [status |-> "failed", batch |-> b]
    /\ UNCHANGED <<graph, docs>>

Next == \E b \in Batches : b > outcome.batch /\ (Publish(b) \/ Fail(b))

Spec == Init /\ [][Next]_vars
=============================================================================

------------------------------ MODULE GraphWrite ------------------------------
(***************************************************************************)
(* One repository's index runs, one after another, as the database sees    *)
(* them: the journal of graph-write batches, the facts and the lexical     *)
(* documents of each file, the recorded index state, and the transaction   *)
(* they are written in.  A run may fail in any step and the process may    *)
(* die between any two statements; the next run recovers.                  *)
(*                                                                         *)
(* The facts of a file (its File, Code, Section, Evidence and ContractSpec *)
(* rows with their relations) are one unit, and so are its documents: what *)
(* matters here is the batch that wrote them last and whether they are     *)
(* active.  Which contents a run reads is the subject of RepoIndex.        *)
(*                                                                         *)
(* GraphDB makes transactions optional, so the protocol is modelled with   *)
(* and without them.  A statement that fails changes nothing and leaves    *)
(* its transaction open, and a COMMIT that fails has not committed.        *)
(***************************************************************************)
EXTENDS Naturals

CONSTANTS Files,          \* the files the repository may contain
          MaxBatches,     \* bound: how many runs are started
          MaxFaults,      \* bound: how many statements fail, with crashes
          Provider,       \* config.graph.provider
          Transactional   \* the adapter implements transaction()

ASSUME BoundsAssumption == MaxBatches \in Nat /\ MaxFaults \in Nat
ASSUME AdapterAssumption ==
    Provider \in {"kuzu", "neo4j"} /\ Transactional \in BOOLEAN

VARIABLES db,      \* what the running process reads
          saved,   \* what a restarted process would read
          pc,      \* the step the current run has reached
          run,     \* the locals of the current (or last) run
          faults   \* how many statements have failed, with crashes

vars == <<db, saved, pc, run, faults>>

Batches == 1..MaxBatches
Incomplete == {"started", "awaiting-cleanup"}
JournalStatus == {"none", "committed", "failed", "recovered"} \union Incomplete
Routes == {"batched-full", "full-copy-bulk", "per-repo"}
Writers == {"merge", "bulk-copy", "append-copy", "bulk-upsert"}
WriteModes == {"auto", "merge", "bulk", "bulk-upsert"}

Fact == [batch : 0..MaxBatches, active : BOOLEAN]
Absent == [batch |-> 0, active |-> FALSE]

Database == [rows : [Files -> Fact],
             docs : [Files -> Fact],
             journal : [Batches -> JournalStatus],
             state : [status : {"none", "succeeded", "failed"}, batch : 0..MaxBatches],
             hasRepos : BOOLEAN]

TxSteps == {"recovering", "beginning", "clearing", "writing", "lexical", "reconciling",
            "journal", "stale", "state", "commit", "failing", "retrying", "rollback"}
Steps == TxSteps \union {"idle", "scanning", "cleaning", "recording"}

(***************************************************************************)
(* Planning: the route of a run, and the writer it selects.                *)
(***************************************************************************)
Options == [writeMode : WriteModes, changedOnly : BOOLEAN, batched : BOOLEAN]

Route(o) ==
    IF o.batched /\ ~o.changedOnly THEN "batched-full"
    ELSE IF o.writeMode = "bulk" \/ (o.writeMode = "auto" /\ ~o.changedOnly /\ ~db.hasRepos)
         THEN "full-copy-bulk"
         ELSE "per-repo"

\* The combinations that runIndexing refuses before it touches anything.
Accepted(o) ==
    /\ Route(o) = "batched-full" => o.writeMode \in {"auto", "bulk"}
    /\ Route(o) = "full-copy-bulk" =>
           ~o.changedOnly /\ (o.writeMode = "bulk" => ~db.hasRepos)

Selection(o) ==
    LET selected(mode, canFallBack) == [mode |-> mode, canFallBack |-> canFallBack]
    IN  CASE Provider # "kuzu" -> selected("merge", FALSE)
          [] Route(o) = "batched-full" ->
                 selected(IF db.hasRepos THEN "append-copy" ELSE "bulk-copy", FALSE)
          [] Route(o) = "full-copy-bulk" -> selected("bulk-copy", FALSE)
          [] OTHER ->
                 IF o.writeMode = "auto" /\ ~o.changedOnly THEN selected("append-copy", TRUE)
                 ELSE IF o.writeMode \in {"auto", "bulk-upsert"}
                      THEN selected("bulk-upsert", o.writeMode = "auto")
                      ELSE selected("merge", FALSE)

(***************************************************************************)
(* Statements.  Inside a transaction they reach saved with the COMMIT.     *)
(***************************************************************************)
ExecuteAtOnce(d) == db' = d /\ saved' = d

Execute(d) ==
    /\ db' = d
    /\ saved' = IF Transactional /\ pc \in TxSteps THEN saved ELSE d

Goto(step) == pc' = step
Current == run.batch

Of(facts, b) == {f \in Files : facts[f].batch = b /\ facts[f].active}

\* cleanupGraphWriteBatch and cleanupBatch: the facts of batch b become
\* inactive, those in left excepted (a cleanup that stopped half way).
Deactivated(facts, b, left) ==
    [f \in Files |-> IF f \in Of(facts, b) \ left THEN [batch |-> b, active |-> FALSE]
                                                  ELSE facts[f]]

Written(facts, files) ==
    [f \in Files |-> IF f \in files THEN [batch |-> Current, active |-> TRUE] ELSE facts[f]]

Fault == faults < MaxFaults /\ faults' = faults + 1
NoFault == UNCHANGED faults

-----------------------------------------------------------------------------
(***************************************************************************)
(* A run starts and scans the repository.                                  *)
(***************************************************************************)
StartRun(o) ==
    /\ pc = "idle" /\ Current < MaxBatches /\ Accepted(o)
    /\ Execute([db EXCEPT !.hasRepos = @ \/ Route(o) = "per-repo"])
    /\ run' = [batch |-> Current + 1, changedOnly |-> o.changedOnly, route |-> Route(o),
               writer |-> Selection(o).mode, canFallBack |-> Selection(o).canFallBack,
               scanned |-> FALSE, present |-> {}, parsed |-> {}, left |-> {},
               graphWritten |-> FALSE]
    /\ Goto("scanning") /\ NoFault

\* A full run parses every file it finds; a changed-only run skips those
\* whose content it knows, which a file without a row never is.
Scan(present, parsed) ==
    /\ pc = "scanning"
    /\ parsed \subseteq present
    /\ {f \in present : ~run.changedOnly \/ db.rows[f] = Absent} \subseteq parsed
    /\ run' = [run EXCEPT !.scanned = TRUE, !.present = present, !.parsed = parsed]
    /\ Goto("recovering") /\ NoFault /\ UNCHANGED <<db, saved>>

(***************************************************************************)
(* runGraphWritePhase: recover, journal, write the graph, then the         *)
(* documents, and commit the journal.                                      *)
(***************************************************************************)
RecoverAny(b) ==
    /\ pc = "recovering" /\ db.journal[b] \notin {"none", "recovered"}
    /\ Execute([db EXCEPT !.rows = Deactivated(@, b, {}),
                          !.docs = Deactivated(@, b, {}),
                          !.journal[b] = "recovered"])
    /\ NoFault /\ UNCHANGED <<pc, run>>

Recover(b) ==
    /\ pc = "recovering" /\ db.journal[b] \in Incomplete
    /\ Execute([db EXCEPT !.rows = Deactivated(@, b, {}),
                          !.docs = Deactivated(@, b, {}),
                          !.journal[b] = "recovered"])
    /\ NoFault /\ UNCHANGED <<pc, run>>

\* One of the two cleanups of batch b fails; the journal is marked, if that
\* works, and the run throws.
RecoverFails(b, rowsLeft, docsLeft, status) ==
    /\ pc = "recovering" /\ db.journal[b] \in Incomplete
    /\ rowsLeft \subseteq Of(db.rows, b) /\ docsLeft \in {{}, Of(db.docs, b)}
    /\ status \in {"awaiting-cleanup", db.journal[b]}
    /\ Execute([db EXCEPT !.rows = Deactivated(@, b, rowsLeft),
                          !.docs = Deactivated(@, b, docsLeft),
                          !.journal[b] = status])
    /\ Goto("rollback") /\ Fault /\ UNCHANGED run

RecoveredAnyway ==
    /\ pc = "recovering"
    /\ Goto("beginning") /\ NoFault /\ UNCHANGED <<db, saved, run>>

Recovered ==
    /\ pc = "recovering" /\ \A b \in Batches : db.journal[b] \notin Incomplete
    /\ Goto("beginning") /\ NoFault /\ UNCHANGED <<db, saved, run>>

BeginBatchResuming ==
    /\ pc \in {"beginning", "retrying"}
    /\ Execute([db EXCEPT !.journal[Current] = "started"])
    /\ run' = [run EXCEPT !.left = IF pc = "retrying" THEN @ ELSE run.parsed,
                          !.writer = IF pc = "retrying" THEN "merge" ELSE @,
                          !.canFallBack = @ /\ pc = "beginning"]
    /\ Goto(IF run'.writer = "append-copy" THEN "clearing" ELSE "writing") /\ NoFault

BeginBatch ==
    /\ pc \in {"beginning", "retrying"}
    /\ Execute([db EXCEPT !.journal[Current] = "started"])
    /\ run' = [run EXCEPT !.left = run.parsed,
                          !.writer = IF pc = "retrying" THEN "merge" ELSE @,
                          !.canFallBack = @ /\ pc = "beginning"]
    /\ Goto(IF run'.writer = "append-copy" THEN "clearing" ELSE "writing") /\ NoFault

\* clearRepoIndexedArtifacts deletes in a transaction of its own.
Clear ==
    /\ pc = "clearing"
    /\ Execute([db EXCEPT !.rows = [f \in Files |-> Absent]])
    /\ Goto("writing") /\ NoFault /\ UNCHANGED run

\* The copying writers insert, so they need a table without the row.
WriteRow(f) ==
    /\ pc = "writing" /\ f \in run.left
    /\ run.writer \in {"bulk-copy", "append-copy"} => db.rows[f] = Absent
    /\ Execute([db EXCEPT !.rows = Written(@, {f}), !.hasRepos = TRUE])
    /\ run' = [run EXCEPT !.left = @ \ {f}]
    /\ NoFault /\ UNCHANGED pc

GraphWritten ==
    /\ pc = "writing" /\ run.left = {}
    /\ Execute([db EXCEPT !.hasRepos = TRUE])
    /\ run' = [run EXCEPT !.graphWritten = TRUE]
    /\ Goto("lexical") /\ NoFault

WriteDocs ==
    /\ pc = "lexical"
    /\ Execute([db EXCEPT !.docs = Written(@, run.parsed)])
    /\ Goto("reconciling") /\ NoFault /\ UNCHANGED run

\* A full run deactivates the documents it has not written; the skip of an
\* empty workspace by the bulk route is the same.  A changed-only run
\* deactivates those of the files that are gone, and claims them.
Reconciled(docs) ==
    IF run.changedOnly
    THEN [f \in Files |-> IF f \notin run.present /\ docs[f].active
                          THEN [batch |-> Current, active |-> FALSE] ELSE docs[f]]
    ELSE [f \in Files |-> IF f \in run.parsed THEN docs[f]
                          ELSE [batch |-> docs[f].batch, active |-> FALSE]]

Reconcile ==
    /\ pc = "reconciling"
    /\ Execute([db EXCEPT !.docs = Reconciled(@)])
    /\ Goto("journal") /\ NoFault /\ UNCHANGED run

CommitJournal ==
    /\ pc = "journal"
    /\ Execute([db EXCEPT !.journal[Current] = "committed"])
    /\ Goto(IF run.route = "per-repo" THEN "stale" ELSE "state") /\ NoFault /\ UNCHANGED run

(***************************************************************************)
(* The rest of the run: only the per-repository route marks the files that *)
(* are gone; then the index state, and the end of the transaction.         *)
(***************************************************************************)
WithoutGone(rows) ==
    [f \in Files |-> IF f \notin run.present /\ rows[f].active
                     THEN [batch |-> Current, active |-> FALSE] ELSE rows[f]]

MarkStale ==
    /\ pc = "stale"
    /\ Execute([db EXCEPT !.rows = WithoutGone(@)])
    /\ Goto("state") /\ NoFault /\ UNCHANGED run

SaveState ==
    /\ pc = "state"
    /\ Execute([db EXCEPT !.state = [status |-> "succeeded", batch |-> Current]])
    /\ Goto("commit") /\ NoFault /\ UNCHANGED run

Commit ==
    /\ pc = "commit"
    /\ saved' = db
    /\ Goto("idle") /\ NoFault /\ UNCHANGED <<db, run>>

(***************************************************************************)
(* Failures.                                                               *)
(***************************************************************************)
\* An exception before the batch is journalled or after it is committed.
Throw ==
    /\ pc \in {"scanning", "recovering", "beginning", "retrying", "stale", "state", "commit"}
    /\ pc = "commit" => Transactional
    /\ Goto(IF pc = "scanning" THEN "cleaning" ELSE "rollback")
    /\ Fault /\ UNCHANGED <<db, saved, run>>

\* An exception of the graph writer, of the lexical write or of the journal.
ThrowInBatch ==
    /\ pc \in {"clearing", "writing", "lexical", "reconciling", "journal"}
    /\ Goto("failing") /\ Fault /\ UNCHANGED <<db, saved, run>>

\* A clean batch is retried once with the merge writer, unless its graph was
\* already written.
AfterCleanup(status) ==
    Goto(IF run.canFallBack /\ ~run.graphWritten /\ status = "failed"
         THEN "retrying" ELSE "rollback")

\* cleanupFailedBatch.  Every part of it is tried, and it is "failed" only
\* when both stores are clean and the journal took that status.
CleanUpBatch ==
    /\ pc = "failing"
    /\ Execute([db EXCEPT !.rows = Deactivated(@, Current, {}),
                          !.docs = Deactivated(@, Current, {}),
                          !.journal[Current] = "failed"])
    /\ AfterCleanup("failed") /\ NoFault /\ UNCHANGED run

CleanUpBatchFails(rowsLeft, docsLeft, status) ==
    /\ pc = "failing"
    /\ rowsLeft \subseteq Of(db.rows, Current) /\ docsLeft \in {{}, Of(db.docs, Current)}
    /\ status \in {"awaiting-cleanup", db.journal[Current]}
    /\ Execute([db EXCEPT !.rows = Deactivated(@, Current, rowsLeft),
                          !.docs = Deactivated(@, Current, docsLeft),
                          !.journal[Current] = status])
    /\ AfterCleanup("awaiting-cleanup") /\ Fault /\ UNCHANGED run

Rollback ==
    /\ pc = "rollback"
    /\ db' = IF Transactional THEN saved ELSE db
    /\ Goto("cleaning") /\ NoFault /\ UNCHANGED <<saved, run>>

\* The orchestrator cleans the graph, not the documents, as well as it can,
\* and records the failure if the scan has told it the repository.
CleanAfterFailure(rowsLeft) ==
    /\ pc = "cleaning" /\ rowsLeft \subseteq Of(db.rows, Current)
    /\ Execute([db EXCEPT !.rows = Deactivated(@, Current, rowsLeft)])
    /\ IF rowsLeft = {} THEN NoFault ELSE Fault
    /\ Goto(IF run.scanned \/ run.route = "per-repo" THEN "recording" ELSE "idle")
    /\ UNCHANGED run

RecordFailureOfNext ==
    /\ pc = "recording"
    /\ Execute([db EXCEPT !.state = [status |-> "failed", batch |-> Current + 1]])
    /\ Goto("idle") /\ NoFault /\ UNCHANGED run

RecordFailure ==
    /\ pc = "recording"
    /\ Execute([db EXCEPT !.state = [status |-> "failed", batch |-> Current]])
    /\ Goto("idle") /\ NoFault /\ UNCHANGED run

RecordFails ==
    /\ pc = "recording"
    /\ Goto("idle") /\ Fault /\ UNCHANGED <<db, saved, run>>

\* The process dies; the next one finds what was saved.
Crash ==
    /\ pc # "idle"
    /\ db' = saved
    /\ Goto("idle") /\ Fault /\ UNCHANGED <<saved, run>>

-----------------------------------------------------------------------------
Init ==
    /\ db \in {[rows |-> [f \in Files |-> Absent], docs |-> [f \in Files |-> Absent],
                journal |-> [b \in Batches |-> "none"],
                state |-> [status |-> "none", batch |-> 0],
                hasRepos |-> others] : others \in BOOLEAN}
    /\ saved = db
    /\ pc = "idle"
    /\ run = [batch |-> 0, changedOnly |-> FALSE, route |-> "per-repo", writer |-> "merge",
              canFallBack |-> FALSE, scanned |-> FALSE, present |-> {}, parsed |-> {},
              left |-> {}, graphWritten |-> FALSE]
    /\ faults = 0

Writing ==
    \/ \E o \in Options : StartRun(o)
    \/ \E present, parsed \in SUBSET Files : Scan(present, parsed)
    \/ Recovered
    \/ BeginBatch
    \/ Clear
    \/ \E f \in Files : WriteRow(f)
    \/ GraphWritten
    \/ WriteDocs
    \/ Reconcile
    \/ CommitJournal
    \/ MarkStale
    \/ SaveState
    \/ Commit

Failing ==
    \/ Throw
    \/ ThrowInBatch
    \/ CleanUpBatch
    \/ \E rowsLeft, docsLeft \in SUBSET Files, status \in Incomplete :
           CleanUpBatchFails(rowsLeft, docsLeft, status)
    \/ Rollback
    \/ \E rowsLeft \in SUBSET Files : CleanAfterFailure(rowsLeft)
    \/ RecordFailure
    \/ RecordFails
    \/ Crash

Recovering ==
    \E b \in Batches :
        \/ Recover(b)
        \/ \E rowsLeft, docsLeft \in SUBSET Files, status \in Incomplete :
               RecoverFails(b, rowsLeft, docsLeft, status)

Next == Writing \/ Failing \/ Recovering

Spec == Init /\ [][Next]_vars

-----------------------------------------------------------------------------
(***************************************************************************)
(* Properties.                                                             *)
(***************************************************************************)
\* Every variable has a value the code can give it.
TypeOK ==
    /\ db \in Database /\ saved \in Database
    /\ pc \in Steps
    /\ run \in [batch : 0..MaxBatches, changedOnly : BOOLEAN, route : Routes,
                writer : Writers, canFallBack : BOOLEAN, scanned : BOOLEAN,
                present : SUBSET Files, parsed : SUBSET Files, left : SUBSET Files,
                graphWritten : BOOLEAN]
    /\ faults \in 0..MaxFaults

\* Once a run has recovered and begun its batch, the active facts and
\* documents come from batches whose journal is committed, or from the
\* current one: nothing half-written by a failed run or a dead process is
\* left (graphWrite.ts recovers before it begins).
RecoveredBeforeWriting ==
    pc \in {"clearing", "writing", "lexical", "reconciling", "journal", "stale",
            "state", "commit"} =>
        \A f \in Files : \A fact \in {db.rows[f], db.docs[f]} :
            fact.active => fact.batch = Current \/ db.journal[fact.batch] = "committed"

\* Recovery deactivates nothing that a committed batch has written.
RecoverySparesCommitted ==
    [][pc = "recovering" => \A f \in Files :
           /\ db.rows[f].active /\ db.journal[db.rows[f].batch] = "committed"
                  => db'.rows[f] = db.rows[f]
           /\ db.docs[f].active /\ db.journal[db.docs[f].batch] = "committed"
                  => db'.docs[f] = db.docs[f]]_vars

\* The writers that COPY rows never meet a row they would duplicate.
CopyNeedsEmptyTable ==
    pc = "writing" /\ run.writer \in {"bulk-copy", "append-copy"} =>
        \A f \in run.left : db.rows[f] = Absent

Succeeded == Current > 0 /\ saved.state = [status |-> "succeeded", batch |-> Current]

\* A run recorded as succeeded has committed its journal, and all it parsed
\* is active under its batch, in the graph and in the lexical index.
SucceededMeansPublished ==
    Succeeded =>
        /\ saved.journal[Current] = "committed"
        /\ \A f \in run.parsed : /\ saved.rows[f] = [batch |-> Current, active |-> TRUE]
                                 /\ saved.docs[f] = [batch |-> Current, active |-> TRUE]

\* The two together: each writer inserts and publishes every row exactly once.
WritesLand == CopyNeedsEmptyTable /\ SucceededMeansPublished

\* In a transaction no incomplete journal is ever saved: the journal is
\* written with the data it describes, and there is nothing to recover.
NothingToRecover ==
    Transactional => \A b \in Batches : saved.journal[b] \notin Incomplete

\* With transactions, whoever reads the saved database sees each run happen
\* at once or not at all.
Visible(facts) == [f \in Files |-> IF facts[f].active THEN facts[f].batch ELSE 0]

Atomic == INSTANCE AtomicIndex WITH graph <- Visible(saved.rows),
                                    docs <- Visible(saved.docs),
                                    outcome <- saved.state

ImplementsAtomicIndex == Atomic!Spec
=============================================================================

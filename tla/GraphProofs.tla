------------------------------ MODULE GraphProofs ------------------------------
(***************************************************************************)
(* Proofs about the graph: that it is written whole or not at all          *)
(* (GraphWrite), for any files, any number of runs and of faults, with and *)
(* without transactions; and that searches of it are complete              *)
(* (ImpactSearch), for any graphs, targets, changes and bounds.            *)
(***************************************************************************)
EXTENDS GraphWrite, FiniteSetTheorems, WellFoundedInduction, TLAPS

\* Of the searches of ImpactSearch.
CONSTANTS Graphs, Targets, Changes, HopBounds
VARIABLE search

Search == INSTANCE ImpactSearch

\* cleanupGraphWriteBatch and cleanupBatch only take activity away.
LEMMA DeactivatedFacts ==
    ASSUME NEW facts \in [Files -> Fact], NEW b, NEW left
    PROVE  /\ Deactivated(facts, b, left) \in [Files -> Fact]
           /\ \A f \in Files :
                  /\ Deactivated(facts, b, left)[f].batch = facts[f].batch
                  /\ Deactivated(facts, b, left)[f].active =>
                         facts[f].active /\ (facts[f].batch # b \/ f \in left)
                  /\ facts[f].batch # b => Deactivated(facts, b, left)[f] = facts[f]
                  /\ facts[f] = Absent => Deactivated(facts, b, left)[f] = Absent
<1> DEFINE D == Deactivated(facts, b, left)
<1>1. ASSUME NEW f \in Files
      PROVE  D[f] = IF f \in Of(facts, b) \ left THEN [batch |-> b, active |-> FALSE] ELSE facts[f]
  BY <1>1 DEF Deactivated
<1>2. ASSUME NEW f \in Files
      PROVE  facts[f].batch \in 0..MaxBatches /\ facts[f] \in Fact
  BY <1>2 DEF Fact
<1>3. ASSUME NEW f \in Files
      PROVE  f \in Of(facts, b) <=> facts[f].batch = b /\ facts[f].active
  BY <1>3 DEF Of
<1>4. ASSUME NEW f \in Files
      PROVE  /\ D[f] \in Fact
             /\ D[f].batch = facts[f].batch
             /\ D[f].active => facts[f].active /\ (facts[f].batch # b \/ f \in left)
             /\ facts[f].batch # b => D[f] = facts[f]
             /\ facts[f] = Absent => D[f] = Absent
  <2>1. CASE f \in Of(facts, b) \ left
    <3>1. D[f] = [batch |-> b, active |-> FALSE]
      BY <1>1, <2>1
    <3>2. facts[f].batch = b /\ facts[f].active
      BY <1>3, <2>1
    <3>3. facts[f] # Absent
      BY <3>2 DEF Absent
    <3> QED
      BY <3>1, <3>2, <3>3, <1>2 DEF Fact
  <2>2. CASE f \notin Of(facts, b) \ left
    <3>1. D[f] = facts[f]
      BY <1>1, <2>2
    <3> QED
      BY <3>1, <1>2, <1>3, <2>2
  <2> QED
    BY <2>1, <2>2
<1>5. D = [f \in Files |-> D[f]]
  BY DEF Deactivated
<1> QED
  BY <1>4, <1>5

\* The facts of the files written are active and of the current batch.
LEMMA WrittenFacts ==
    ASSUME NEW facts \in [Files -> Fact], NEW files, Current \in 0..MaxBatches
    PROVE  /\ Written(facts, files) \in [Files -> Fact]
           /\ \A f \in Files : Written(facts, files)[f] =
                  IF f \in files THEN [batch |-> Current, active |-> TRUE] ELSE facts[f]
  BY DEF Written, Fact

LEMMA WrittenOrKept ==
    ASSUME NEW facts, NEW files
    PROVE  \A f \in Files : \/ Written(facts, files)[f] = facts[f]
                           \/ Written(facts, files)[f] = [batch |-> Current, active |-> TRUE]
  BY DEF Written

LEMMA ReconciledFacts ==
    ASSUME NEW docs \in [Files -> Fact], Current \in 0..MaxBatches
    PROVE  /\ Reconciled(docs) \in [Files -> Fact]
           /\ \A f \in Files :
                  /\ Reconciled(docs)[f].active =>
                         docs[f].active /\ Reconciled(docs)[f].batch = docs[f].batch
                  /\ f \in run.parsed /\ run.parsed \subseteq run.present
                         => Reconciled(docs)[f] = docs[f]
                  /\ f \notin run.present /\ run.parsed \subseteq run.present
                         => ~Reconciled(docs)[f].active
<1>1. ASSUME NEW f \in Files
      PROVE  docs[f] \in Fact /\ docs[f].batch \in 0..MaxBatches /\ docs[f].active \in BOOLEAN
  BY <1>1 DEF Fact
<1>2. CASE run.changedOnly
  <2>1. ASSUME NEW f \in Files
        PROVE  Reconciled(docs)[f] = IF f \notin run.present /\ docs[f].active
                                     THEN [batch |-> Current, active |-> FALSE] ELSE docs[f]
    BY <1>2, <2>1 DEF Reconciled
  <2>2. Reconciled(docs) \in [Files -> Fact]
    BY <1>1, <1>2 DEF Reconciled, Fact
  <2> QED
    BY <2>1, <2>2
<1>3. CASE ~run.changedOnly
  <2>1. ASSUME NEW f \in Files
        PROVE  Reconciled(docs)[f] = IF f \in run.parsed THEN docs[f]
                                     ELSE [batch |-> docs[f].batch, active |-> FALSE]
    BY <1>3, <2>1 DEF Reconciled
  <2>2. Reconciled(docs) \in [Files -> Fact]
    BY <1>1, <1>3 DEF Reconciled, Fact
  <2> QED
    BY <2>1, <2>2
<1> QED
  BY <1>2, <1>3

LEMMA WithoutGoneFacts ==
    ASSUME NEW rows \in [Files -> Fact], Current \in 0..MaxBatches
    PROVE  /\ WithoutGone(rows) \in [Files -> Fact]
           /\ \A f \in Files :
                  /\ WithoutGone(rows)[f].active => WithoutGone(rows)[f] = rows[f]
                  /\ f \in run.present => WithoutGone(rows)[f] = rows[f]
                  /\ f \notin run.present => ~WithoutGone(rows)[f].active
<1>1. ASSUME NEW f \in Files
      PROVE  WithoutGone(rows)[f] = IF f \notin run.present /\ rows[f].active
                                    THEN [batch |-> Current, active |-> FALSE] ELSE rows[f]
  BY <1>1 DEF WithoutGone
<1>2. WithoutGone(rows) \in [Files -> Fact]
  BY DEF WithoutGone, Fact
<1> QED
  BY <1>1, <1>2

-----------------------------------------------------------------------------
(***************************************************************************)
(* Type correctness.                                                       *)
(***************************************************************************)
RunType == [batch : 0..MaxBatches, changedOnly : BOOLEAN, route : Routes,
            writer : Writers, canFallBack : BOOLEAN, scanned : BOOLEAN,
            present : SUBSET Files, parsed : SUBSET Files, left : SUBSET Files,
            graphWritten : BOOLEAN]

LEMMA AbsentIsFact == Absent \in Fact
  BY BoundsAssumption DEF Absent, Fact

LEMMA InitTypeOK == Init => TypeOK
<1> SUFFICES ASSUME Init PROVE TypeOK
  OBVIOUS
<1>1. db \in Database
  <2>1. PICK others \in BOOLEAN :
            db = [rows |-> [f \in Files |-> Absent], docs |-> [f \in Files |-> Absent],
                  journal |-> [b \in Batches |-> "none"],
                  state |-> [status |-> "none", batch |-> 0],
                  hasRepos |-> others]
    BY DEF Init
  <2>2. [f \in Files |-> Absent] \in [Files -> Fact]
    BY AbsentIsFact
  <2>3. [b \in Batches |-> "none"] \in [Batches -> JournalStatus]
    BY DEF JournalStatus
  <2>4. [status |-> "none", batch |-> 0]
            \in [status : {"none", "succeeded", "failed"}, batch : 0..MaxBatches]
    BY BoundsAssumption
  <2> QED
    BY <2>1, <2>2, <2>3, <2>4 DEF Database
<1>2. run \in RunType
  BY BoundsAssumption DEF Init, RunType, Routes, Writers
<1>3. pc \in Steps /\ faults \in 0..MaxFaults /\ saved = db
  BY BoundsAssumption DEF Init, Steps
<1> QED
  BY <1>1, <1>2, <1>3 DEF TypeOK, RunType

\* A statement keeps the databases well typed.
LEMMA ExecuteType ==
    ASSUME TypeOK, NEW d \in Database, Execute(d)
    PROVE  db' \in Database /\ saved' \in Database
  BY DEF TypeOK, Execute

\* A run that executes has the id of a batch.
Started == pc # "idle" => Current \in Batches

LEMMA CurrentInRange == ASSUME TypeOK PROVE Current \in 0..MaxBatches
  BY DEF TypeOK, Current

\* A step that updates facts, documents or the journal by a statement.
LEMMA TypeOfUpdate ==
    ASSUME TypeOK, NEW d \in Database, Execute(d),
           pc' \in Steps, run' \in RunType, faults' \in 0..MaxFaults
    PROVE  TypeOK'
<1>1. db' \in Database /\ saved' \in Database
  BY ExecuteType
<1> QED
  BY <1>1 DEF TypeOK, RunType

LEMMA FaultType ==
    ASSUME TypeOK, Fault \/ NoFault PROVE faults' \in 0..MaxFaults
  BY BoundsAssumption DEF TypeOK, Fault, NoFault

LEMMA WritingTypeOK == ASSUME TypeOK, Started, Writing PROVE TypeOK' /\ Started'
<1> USE DEF RunType, Goto
<1>0. db \in Database /\ saved \in Database /\ run \in RunType /\ Current \in 0..MaxBatches
  BY CurrentInRange DEF TypeOK
<1>a. ASSUME UNCHANGED run, pc' \in Steps, pc # "idle" PROVE Started'
  BY <1>a DEF Started, Current
<1>1. CASE \E o \in Options : StartRun(o)
  <2>1. PICK o \in Options : StartRun(o)
    BY <1>1
  <2>2. Current + 1 \in Batches
    BY <2>1, <1>0, BoundsAssumption DEF StartRun, Batches
  <2>3. Selection(o).mode \in Writers /\ Selection(o).canFallBack \in BOOLEAN
    BY <2>1 DEF Selection, Writers, Options
  <2>4. Route(o) \in Routes
    BY DEF Route, Routes
  <2>5. run' \in RunType
    <3>1. run' = [batch |-> Current + 1, changedOnly |-> o.changedOnly, route |-> Route(o),
               writer |-> Selection(o).mode, canFallBack |-> Selection(o).canFallBack,
               scanned |-> FALSE, present |-> {}, parsed |-> {}, left |-> {},
               graphWritten |-> FALSE]
      BY <2>1 DEF StartRun
    <3>2. Current + 1 \in 0..MaxBatches
      BY <2>2 DEF Batches
    <3>3. o.changedOnly \in BOOLEAN
      BY DEF Options
    <3> QED
      BY <3>1, <3>2, <3>3, <2>3, <2>4
  <2>6. (db.hasRepos \/ Route(o) = "per-repo") \in BOOLEAN
    OBVIOUS
  <2>7. [db EXCEPT !.hasRepos = @ \/ Route(o) = "per-repo"] \in Database
    BY <2>6, <1>0 DEF Database
  <2>8. pc' \in Steps /\ faults' \in 0..MaxFaults
    BY <2>1, FaultType DEF StartRun, Steps, TxSteps
  <2>9. Execute([db EXCEPT !.hasRepos = @ \/ Route(o) = "per-repo"])
    BY <2>1 DEF StartRun
  <2>10. TypeOK'
    BY <2>5, <2>7, <2>8, <2>9, TypeOfUpdate
  <2>11. Current' = Current + 1
    BY <2>1, <1>0 DEF StartRun, Current
  <2> QED
    BY <2>2, <2>10, <2>11 DEF Started, Batches
<1>2. CASE \E present, parsed \in SUBSET Files : Scan(present, parsed)
  <2>1. PICK present \in SUBSET Files, parsed \in SUBSET Files : Scan(present, parsed)
    BY <1>2
  <2>2. run' \in RunType /\ run'.batch = run.batch
    BY <2>1, <1>0 DEF Scan
  <2>3. pc' \in Steps /\ faults' \in 0..MaxFaults /\ UNCHANGED <<db, saved>>
    BY <2>1, FaultType DEF Scan, Steps, TxSteps
  <2>4. pc # "idle"
    BY <2>1 DEF Scan
  <2> QED
    BY <2>2, <2>3, <2>4, <1>0 DEF TypeOK, Started, Current, Batches
<1>3. CASE Recovered
  BY <1>3, <1>0, <1>a, FaultType DEF Recovered, TypeOK, Started, Current, Steps, TxSteps
<1>4. CASE BeginBatch
  <2>1. pc' \in Steps /\ faults' \in 0..MaxFaults /\ pc # "idle"
    BY <1>4, FaultType DEF BeginBatch, Steps, TxSteps
  <2>2. run' \in RunType /\ run'.batch = run.batch
    <3>1. (run.canFallBack /\ pc = "beginning") \in BOOLEAN
      OBVIOUS
    <3>2. (IF pc = "retrying" THEN "merge" ELSE run.writer) \in Writers
      BY <1>0 DEF Writers
    <3>3. run.parsed \in SUBSET Files
      BY <1>0
    <3>4. run' = [run EXCEPT !.left = run.parsed,
                             !.writer = IF pc = "retrying" THEN "merge" ELSE @,
                             !.canFallBack = @ /\ pc = "beginning"]
      BY <1>4 DEF BeginBatch
    <3> QED
      BY <3>1, <3>2, <3>3, <3>4, <1>0
  <2>3. Execute([db EXCEPT !.journal[Current] = "started"]) /\ Current \in Batches
    BY <1>4, <2>1 DEF BeginBatch, Started
  <2>4. [db EXCEPT !.journal[Current] = "started"] \in Database
    BY <1>0, <2>3 DEF Database, JournalStatus, Incomplete
  <2> QED
    BY <2>1, <2>2, <2>3, <2>4, <1>0, TypeOfUpdate DEF Started, Current
<1>5. CASE Clear
  <2>1. pc' \in Steps /\ faults' \in 0..MaxFaults /\ pc # "idle" /\ UNCHANGED run
    BY <1>5, FaultType DEF Clear, Steps, TxSteps
  <2>2. Execute([db EXCEPT !.rows = [f \in Files |-> Absent]]) /\ Current \in Batches
    BY <1>5, <2>1 DEF Clear, Started
  <2>3. [db EXCEPT !.rows = [f \in Files |-> Absent]] \in Database
    BY <1>0, <2>2, AbsentIsFact DEF Database
  <2> QED
    BY <2>1, <2>2, <2>3, <1>0, <1>a, TypeOfUpdate
<1>6. CASE \E f \in Files : WriteRow(f)
  <2>1. PICK f \in Files : WriteRow(f)
    BY <1>6
  <2>2. pc' \in Steps /\ faults' \in 0..MaxFaults /\ pc # "idle"
    BY <2>1, FaultType DEF WriteRow, Steps, TxSteps
  <2>3. run' \in RunType /\ run'.batch = run.batch
    BY <2>1, <1>0 DEF WriteRow
  <2>4. Execute([db EXCEPT !.rows = Written(@, {f}), !.hasRepos = TRUE])
    BY <2>1 DEF WriteRow
  <2>5. db.rows \in [Files -> Fact]
    BY <1>0 DEF Database
  <2>6. Written(db.rows, {f}) \in [Files -> Fact]
    BY <2>5, <1>0, WrittenFacts
  <2>7. [db EXCEPT !.rows = Written(@, {f}), !.hasRepos = TRUE] \in Database
    BY <2>6, <1>0 DEF Database
  <2> QED
    BY <2>2, <2>3, <2>4, <2>7, <1>0, TypeOfUpdate DEF Started, Current
<1>7. CASE GraphWritten
  <2>1. pc' \in Steps /\ faults' \in 0..MaxFaults /\ pc # "idle"
    BY <1>7, FaultType DEF GraphWritten, Steps, TxSteps
  <2>2. run' \in RunType /\ run'.batch = run.batch
    BY <1>7, <1>0 DEF GraphWritten
  <2>3. Execute([db EXCEPT !.hasRepos = TRUE])
    BY <1>7 DEF GraphWritten
  <2>4. [db EXCEPT !.hasRepos = TRUE] \in Database
    BY <1>0 DEF Database
  <2> QED
    BY <2>1, <2>2, <2>3, <2>4, <1>0, TypeOfUpdate DEF Started, Current
<1>8. CASE WriteDocs
  <2>1. pc' \in Steps /\ faults' \in 0..MaxFaults /\ pc # "idle" /\ UNCHANGED run
    BY <1>8, FaultType DEF WriteDocs, Steps, TxSteps
  <2>2. Execute([db EXCEPT !.docs = Written(@, run.parsed)])
    BY <1>8 DEF WriteDocs
  <2>3. db.docs \in [Files -> Fact]
    BY <1>0 DEF Database
  <2>4. Written(db.docs, run.parsed) \in [Files -> Fact]
    BY <2>3, <1>0, WrittenFacts
  <2>5. [db EXCEPT !.docs = Written(@, run.parsed)] \in Database
    BY <2>4, <1>0 DEF Database
  <2> QED
    BY <2>1, <2>2, <2>5, <1>0, <1>a, TypeOfUpdate
<1>9. CASE Reconcile
  <2>1. pc' \in Steps /\ faults' \in 0..MaxFaults /\ pc # "idle" /\ UNCHANGED run
    BY <1>9, FaultType DEF Reconcile, Steps, TxSteps
  <2>2. Execute([db EXCEPT !.docs = Reconciled(@)])
    BY <1>9 DEF Reconcile
  <2>3. Reconciled(db.docs) \in [Files -> Fact]
    BY <1>0, ReconciledFacts DEF Database
  <2>4. [db EXCEPT !.docs = Reconciled(@)] \in Database
    BY <2>3, <1>0 DEF Database
  <2> QED
    BY <2>1, <2>2, <2>4, <1>0, <1>a, TypeOfUpdate
<1>10. CASE CommitJournal
  <2>1. pc' \in Steps /\ faults' \in 0..MaxFaults /\ pc # "idle" /\ UNCHANGED run
    BY <1>10, FaultType DEF CommitJournal, Steps, TxSteps
  <2>2. Execute([db EXCEPT !.journal[Current] = "committed"]) /\ Current \in Batches
    BY <1>10, <2>1 DEF CommitJournal, Started
  <2>3. [db EXCEPT !.journal[Current] = "committed"] \in Database
    BY <1>0, <2>2, BoundsAssumption DEF Database, JournalStatus
  <2> QED
    BY <2>1, <2>2, <2>3, <1>0, <1>a, TypeOfUpdate
<1>11. CASE MarkStale
  <2>1. pc' \in Steps /\ faults' \in 0..MaxFaults /\ pc # "idle" /\ UNCHANGED run
    BY <1>11, FaultType DEF MarkStale, Steps, TxSteps
  <2>2. Execute([db EXCEPT !.rows = WithoutGone(@)])
    BY <1>11 DEF MarkStale
  <2>3. WithoutGone(db.rows) \in [Files -> Fact]
    BY <1>0, WithoutGoneFacts DEF Database
  <2>4. [db EXCEPT !.rows = WithoutGone(@)] \in Database
    BY <2>3, <1>0 DEF Database
  <2> QED
    BY <2>1, <2>2, <2>4, <1>0, <1>a, TypeOfUpdate
<1>12. CASE SaveState
  <2>1. pc' \in Steps /\ faults' \in 0..MaxFaults /\ pc # "idle" /\ UNCHANGED run
    BY <1>12, FaultType DEF SaveState, Steps, TxSteps
  <2>2. Execute([db EXCEPT !.state = [status |-> "succeeded", batch |-> Current]]) /\ Current \in Batches
    BY <1>12, <2>1 DEF SaveState, Started
  <2>3. [db EXCEPT !.state = [status |-> "succeeded", batch |-> Current]] \in Database
    BY <1>0, <2>2 DEF Database
  <2> QED
    BY <2>1, <2>2, <2>3, <1>0, <1>a, TypeOfUpdate
<1>13. CASE Commit
  BY <1>13, <1>0, <1>a, FaultType DEF Commit, TypeOK, Steps
<1> QED
  BY <1>1, <1>2, <1>3, <1>4, <1>5, <1>6, <1>7, <1>8, <1>9, <1>10, <1>11, <1>12, <1>13
     DEF Writing

\* Both cleanups of a batch, complete or not, with the journal's new status.
LEMMA CleanupType ==
    ASSUME NEW d \in Database, NEW b \in Batches, NEW rowsLeft, NEW docsLeft,
           NEW status \in JournalStatus
    PROVE  /\ [d EXCEPT !.rows = Deactivated(@, b, rowsLeft),
                        !.docs = Deactivated(@, b, docsLeft),
                        !.journal[b] = status] \in Database
           /\ [d EXCEPT !.rows = Deactivated(@, b, rowsLeft)] \in Database
<1>1. d.rows \in [Files -> Fact] /\ d.docs \in [Files -> Fact]
  BY DEF Database
<1>2. /\ Deactivated(d.rows, b, rowsLeft) \in [Files -> Fact]
      /\ Deactivated(d.docs, b, docsLeft) \in [Files -> Fact]
  BY <1>1, DeactivatedFacts
<1> QED
  BY <1>2 DEF Database

LEMMA RecoveringTypeOK == ASSUME TypeOK, Started, Recovering PROVE TypeOK' /\ Started'
<1> USE DEF Goto
<1>0. db \in Database /\ saved \in Database /\ run \in RunType
  BY DEF TypeOK, RunType
<1>a. ASSUME UNCHANGED run, pc # "idle" PROVE Started' /\ run' \in RunType
  BY <1>a, <1>0 DEF Started, Current
<1>1. PICK b \in Batches :
        \/ Recover(b)
        \/ \E rowsLeft, docsLeft \in SUBSET Files, status \in Incomplete :
               RecoverFails(b, rowsLeft, docsLeft, status)
  BY DEF Recovering
<1>2. CASE Recover(b)
  <2>1. pc' \in Steps /\ faults' \in 0..MaxFaults /\ pc # "idle" /\ UNCHANGED run
    BY <1>2, FaultType DEF Recover, Steps, TxSteps
  <2>2. Execute([db EXCEPT !.rows = Deactivated(@, b, {}), !.docs = Deactivated(@, b, {}),
                           !.journal[b] = "recovered"])
    BY <1>2 DEF Recover
  <2>3. [db EXCEPT !.rows = Deactivated(@, b, {}), !.docs = Deactivated(@, b, {}),
                   !.journal[b] = "recovered"] \in Database
    BY <1>0, CleanupType DEF JournalStatus
  <2> QED
    BY <2>1, <2>2, <2>3, <1>a, TypeOfUpdate
<1>3. CASE \E rowsLeft, docsLeft \in SUBSET Files, status \in Incomplete :
               RecoverFails(b, rowsLeft, docsLeft, status)
  <2>1. PICK rowsLeft \in SUBSET Files, docsLeft \in SUBSET Files, status \in Incomplete :
            RecoverFails(b, rowsLeft, docsLeft, status)
    BY <1>3
  <2>2. pc' \in Steps /\ faults' \in 0..MaxFaults /\ pc # "idle" /\ UNCHANGED run
    BY <2>1, FaultType DEF RecoverFails, Steps, TxSteps
  <2>3. Execute([db EXCEPT !.rows = Deactivated(@, b, rowsLeft),
                           !.docs = Deactivated(@, b, docsLeft), !.journal[b] = status])
    BY <2>1 DEF RecoverFails
  <2>4. [db EXCEPT !.rows = Deactivated(@, b, rowsLeft),
                   !.docs = Deactivated(@, b, docsLeft), !.journal[b] = status] \in Database
    BY <1>0, CleanupType DEF JournalStatus
  <2> QED
    BY <2>2, <2>3, <2>4, <1>a, TypeOfUpdate
<1> QED
  BY <1>1, <1>2, <1>3

LEMMA FailingTypeOK == ASSUME TypeOK, Started, Failing PROVE TypeOK' /\ Started'
<1> USE DEF Goto
<1>0. db \in Database /\ saved \in Database /\ run \in RunType
  BY DEF TypeOK, RunType
<1>a. ASSUME UNCHANGED run, pc # "idle" PROVE Started' /\ run' \in RunType
  BY <1>a, <1>0 DEF Started, Current
<1>b. ASSUME db' \in Database, saved' \in Database, run' \in RunType, pc' \in Steps,
             faults' \in 0..MaxFaults
      PROVE  TypeOK'
  BY <1>b DEF TypeOK, RunType
<1>1. CASE Throw \/ ThrowInBatch \/ RecordFails
  <2>1. pc' \in Steps /\ faults' \in 0..MaxFaults /\ pc # "idle"
    BY <1>1, FaultType DEF Throw, ThrowInBatch, RecordFails, Steps, TxSteps
  <2>2. UNCHANGED <<db, saved, run>>
    BY <1>1 DEF Throw, ThrowInBatch, RecordFails
  <2> QED
    BY <2>1, <2>2, <1>0, <1>a, <1>b
<1>2. CASE CleanUpBatch
  <2>1. pc' \in Steps /\ faults' \in 0..MaxFaults /\ pc # "idle" /\ UNCHANGED run
    BY <1>2, FaultType DEF CleanUpBatch, AfterCleanup, Steps, TxSteps
  <2>2. /\ Execute([db EXCEPT !.rows = Deactivated(@, Current, {}),
                              !.docs = Deactivated(@, Current, {}),
                              !.journal[Current] = "failed"])
        /\ Current \in Batches
    BY <1>2, <2>1 DEF CleanUpBatch, Started
  <2>3. [db EXCEPT !.rows = Deactivated(@, Current, {}), !.docs = Deactivated(@, Current, {}),
                   !.journal[Current] = "failed"] \in Database
    BY <1>0, <2>2, CleanupType DEF JournalStatus
  <2> QED
    BY <2>1, <2>2, <2>3, <1>a, TypeOfUpdate
<1>3. CASE \E rowsLeft, docsLeft \in SUBSET Files, status \in Incomplete :
               CleanUpBatchFails(rowsLeft, docsLeft, status)
  <2>1. PICK rowsLeft \in SUBSET Files, docsLeft \in SUBSET Files, status \in Incomplete :
            CleanUpBatchFails(rowsLeft, docsLeft, status)
    BY <1>3
  <2>2. pc' \in Steps /\ faults' \in 0..MaxFaults /\ pc # "idle" /\ UNCHANGED run
    BY <2>1, FaultType DEF CleanUpBatchFails, AfterCleanup, Steps, TxSteps
  <2>3. /\ Execute([db EXCEPT !.rows = Deactivated(@, Current, rowsLeft),
                              !.docs = Deactivated(@, Current, docsLeft),
                              !.journal[Current] = status])
        /\ Current \in Batches
    BY <2>1, <2>2 DEF CleanUpBatchFails, Started
  <2>4. [db EXCEPT !.rows = Deactivated(@, Current, rowsLeft),
                   !.docs = Deactivated(@, Current, docsLeft),
                   !.journal[Current] = status] \in Database
    BY <1>0, <2>3, CleanupType DEF JournalStatus
  <2> QED
    BY <2>2, <2>3, <2>4, <1>a, TypeOfUpdate
<1>4. CASE Rollback
  <2>1. pc' \in Steps /\ faults' \in 0..MaxFaults /\ pc # "idle" /\ UNCHANGED <<saved, run>>
    BY <1>4, FaultType DEF Rollback, Steps, TxSteps
  <2>2. db' \in Database
    BY <1>4, <1>0 DEF Rollback
  <2> QED
    BY <2>1, <2>2, <1>0, <1>a, <1>b
<1>5. CASE \E rowsLeft \in SUBSET Files : CleanAfterFailure(rowsLeft)
  <2>1. PICK rowsLeft \in SUBSET Files : CleanAfterFailure(rowsLeft)
    BY <1>5
  <2>2. pc' \in Steps /\ faults' \in 0..MaxFaults /\ pc # "idle" /\ UNCHANGED run
    BY <2>1, FaultType DEF CleanAfterFailure, Steps, TxSteps
  <2>3. /\ Execute([db EXCEPT !.rows = Deactivated(@, Current, rowsLeft)])
        /\ Current \in Batches
    BY <2>1, <2>2 DEF CleanAfterFailure, Started
  <2>4. [db EXCEPT !.rows = Deactivated(@, Current, rowsLeft)] \in Database
    BY <1>0, <2>3, CleanupType DEF JournalStatus
  <2> QED
    BY <2>2, <2>3, <2>4, <1>a, TypeOfUpdate
<1>6. CASE RecordFailure
  <2>1. pc' \in Steps /\ faults' \in 0..MaxFaults /\ pc # "idle" /\ UNCHANGED run
    BY <1>6, FaultType DEF RecordFailure, Steps
  <2>2. /\ Execute([db EXCEPT !.state = [status |-> "failed", batch |-> Current]])
        /\ Current \in Batches
    BY <1>6, <2>1 DEF RecordFailure, Started
  <2>3. [status |-> "failed", batch |-> Current]
            \in [status : {"none", "succeeded", "failed"}, batch : 0..MaxBatches]
    BY <2>2, BoundsAssumption DEF Batches
  <2>4. [db EXCEPT !.state = [status |-> "failed", batch |-> Current]] \in Database
    BY <1>0, <2>3 DEF Database
  <2> QED
    BY <2>1, <2>2, <2>4, <1>a, TypeOfUpdate
<1>7. CASE Crash
  <2>1. pc' \in Steps /\ faults' \in 0..MaxFaults /\ pc # "idle" /\ UNCHANGED <<saved, run>>
    BY <1>7, FaultType DEF Crash, Steps
  <2>2. db' \in Database
    BY <1>7, <1>0 DEF Crash
  <2> QED
    BY <2>1, <2>2, <1>0, <1>a, <1>b
<1> QED
  BY <1>1, <1>2, <1>3, <1>4, <1>5, <1>6, <1>7 DEF Failing

LEMMA StepTypeOK == ASSUME TypeOK, Started, [Next]_vars PROVE TypeOK' /\ Started'
<1>1. CASE UNCHANGED vars
  BY <1>1 DEF vars, TypeOK, Started, Current
<1>2. CASE Next
  BY <1>2, WritingTypeOK, RecoveringTypeOK, FailingTypeOK DEF Next
<1> QED
  BY <1>1, <1>2

\* Every variable keeps a value the code can give it.
THEOREM TypeCorrect == Spec => []TypeOK
<1>1. Init => TypeOK /\ Started
  BY InitTypeOK DEF Init, Started
<1>2. TypeOK /\ Started /\ [Next]_vars => (TypeOK /\ Started)'
  BY StepTypeOK
<1> QED
  BY <1>1, <1>2, PTL DEF Spec

-----------------------------------------------------------------------------
(***************************************************************************)
(* Recovery: what is active is covered by a journal.                       *)
(***************************************************************************)
Live == {"committed"} \union Incomplete

\* Every active fact and document comes from a batch whose journal says that
\* it is committed, or that it still has to be cleaned up.
Covers(d, fact) == fact.active => fact.batch \in Batches /\ d.journal[fact.batch] \in Live
Covered(d) == \A f \in Files : Covers(d, d.rows[f]) /\ Covers(d, d.docs[f])

\* Outside of a transaction nothing waits for a COMMIT.
Settled == saved = db \/ (Transactional /\ pc \in TxSteps)

BatchOpen == pc \in {"clearing", "writing", "lexical", "reconciling", "journal", "failing"}
BatchClosed == pc \in {"stale", "state", "commit"}

OwnJournal ==
    /\ BatchOpen => db.journal[Current] = "started"
    /\ BatchClosed => db.journal[Current] = "committed"
    /\ pc \in {"beginning", "retrying"} => db.journal[Current] \notin Incomplete

\* From the end of the recovery on, only the current batch can be incomplete.
OthersSettled ==
    BatchOpen \/ BatchClosed \/ pc \in {"beginning", "retrying"} =>
        \A b \in Batches \ {Current} : db.journal[b] \notin Incomplete

\* The inductive invariant.  RecoveredBeforeWriting alone is not inductive: a
\* run can only rely on what earlier runs, failed or dead, have left.
IInv == /\ TypeOK /\ Started /\ Settled
        /\ Covered(db) /\ Covered(saved)
        /\ OwnJournal /\ OthersSettled /\ NothingToRecover

LEMMA InitIInv == Init => IInv
<1> SUFFICES ASSUME Init PROVE IInv
  OBVIOUS
<1>1. /\ \A f \in Files : db.rows[f] = Absent /\ db.docs[f] = Absent
      /\ \A b \in Batches : db.journal[b] = "none"
      /\ saved = db /\ pc = "idle"
  BY DEF Init
<1>2. Covered(db) /\ Covered(saved)
  BY <1>1 DEF Covered, Covers, Absent
<1>3. NothingToRecover
  BY <1>1 DEF NothingToRecover, Incomplete
<1> QED
  BY <1>1, <1>2, <1>3, InitTypeOK
     DEF IInv, Started, Settled, OwnJournal, OthersSettled, BatchOpen, BatchClosed

(***************************************************************************)
(* Settled.                                                                *)
(***************************************************************************)
LEMMA SettledStep == ASSUME Settled, Next PROVE Settled'
<1> USE DEF Settled, Execute, Goto, TxSteps
<1>1. CASE \E o \in Options : StartRun(o)
  BY <1>1 DEF StartRun
<1>2. CASE \E present, parsed \in SUBSET Files : Scan(present, parsed)
  BY <1>2 DEF Scan
<1>3. CASE Recovered
  BY <1>3 DEF Recovered
<1>4. CASE BeginBatch
  BY <1>4 DEF BeginBatch
<1>5. CASE Clear
  BY <1>5 DEF Clear
<1>6. CASE \E f \in Files : WriteRow(f)
  BY <1>6 DEF WriteRow
<1>7. CASE GraphWritten
  BY <1>7 DEF GraphWritten
<1>8. CASE WriteDocs
  BY <1>8 DEF WriteDocs
<1>9. CASE Reconcile
  BY <1>9 DEF Reconcile
<1>10. CASE CommitJournal
  BY <1>10 DEF CommitJournal
<1>11. CASE MarkStale
  BY <1>11 DEF MarkStale
<1>12. CASE SaveState
  BY <1>12 DEF SaveState
<1>13. CASE Commit
  BY <1>13 DEF Commit
<1>14. CASE Throw \/ ThrowInBatch \/ RecordFails
  BY <1>14 DEF Throw, ThrowInBatch, RecordFails
<1>15. CASE CleanUpBatch
  BY <1>15 DEF CleanUpBatch, AfterCleanup
<1>16. CASE \E rowsLeft, docsLeft \in SUBSET Files, status \in Incomplete :
               CleanUpBatchFails(rowsLeft, docsLeft, status)
  BY <1>16 DEF CleanUpBatchFails, AfterCleanup
<1>17. CASE Rollback
  BY <1>17 DEF Rollback
<1>18. CASE \E rowsLeft \in SUBSET Files : CleanAfterFailure(rowsLeft)
  BY <1>18 DEF CleanAfterFailure
<1>19. CASE RecordFailure
  BY <1>19 DEF RecordFailure
<1>20. CASE Crash
  BY <1>20 DEF Crash
<1>21. CASE Recovering
  <2>1. PICK b \in Batches :
          \/ Recover(b)
          \/ \E rowsLeft, docsLeft \in SUBSET Files, status \in Incomplete :
                 RecoverFails(b, rowsLeft, docsLeft, status)
    BY <1>21 DEF Recovering
  <2>2. CASE Recover(b)
    BY <2>2 DEF Recover
  <2>3. CASE \E rowsLeft, docsLeft \in SUBSET Files, status \in Incomplete :
                 RecoverFails(b, rowsLeft, docsLeft, status)
    BY <2>3 DEF RecoverFails
  <2> QED
    BY <2>1, <2>2, <2>3
<1> QED
  BY <1>1, <1>2, <1>3, <1>4, <1>5, <1>6, <1>7, <1>8, <1>9, <1>10, <1>11, <1>12, <1>13,
     <1>14, <1>15, <1>16, <1>17, <1>18, <1>19, <1>20, <1>21 DEF Next, Writing, Failing

(***************************************************************************)
(* The journal.                                                            *)
(***************************************************************************)
JournalInv == OwnJournal /\ OthersSettled

\* A step that leaves the journal and the batch alone, and does not enter a
\* phase that promises something of the journal.
LEMMA SameJournal ==
    ASSUME JournalInv, db'.journal = db.journal, run'.batch = run.batch,
           \/ pc' \notin {"beginning", "retrying", "stale", "state", "commit", "clearing",
                         "writing", "lexical", "reconciling", "journal", "failing"}
           \/ BatchOpen /\ BatchOpen'
           \/ BatchClosed /\ BatchClosed'
    PROVE  JournalInv'
  BY DEF JournalInv, OwnJournal, OthersSettled, BatchOpen, BatchClosed, Current

LEMMA JournalStep == ASSUME TypeOK, Started, Settled, JournalInv, Next PROVE JournalInv'
<1> USE DEF Goto, Execute
<1>0. db \in Database /\ db.journal \in [Batches -> JournalStatus]
  BY DEF TypeOK, Database
<1>1. CASE \E o \in Options : StartRun(o)
  BY <1>1 DEF StartRun, JournalInv, OwnJournal, OthersSettled, BatchOpen, BatchClosed
<1>2. CASE \E present, parsed \in SUBSET Files : Scan(present, parsed)
  BY <1>2 DEF Scan, JournalInv, OwnJournal, OthersSettled, BatchOpen, BatchClosed
<1>3. CASE Recovered
  <2>1. pc' = "beginning" /\ UNCHANGED <<db, run>> /\ pc # "idle"
    BY <1>3 DEF Recovered
  <2>2. \A b \in Batches : db.journal[b] \notin Incomplete
    BY <1>3 DEF Recovered
  <2>3. Current \in Batches
    BY <2>1 DEF Started
  <2> QED
    BY <2>1, <2>2, <2>3 DEF JournalInv, OwnJournal, OthersSettled, BatchOpen, BatchClosed, Current
<1>4. CASE BeginBatch
  <2>1. pc \in {"beginning", "retrying"} /\ pc' \in {"clearing", "writing"}
    BY <1>4 DEF BeginBatch
  <2>2. Current \in Batches
    BY <2>1 DEF Started
  <2>3. db' = [db EXCEPT !.journal[Current] = "started"] /\ run'.batch = run.batch
    <3>1. run' = [run EXCEPT !.left = run.parsed,
                             !.writer = IF pc = "retrying" THEN "merge" ELSE @,
                             !.canFallBack = @ /\ pc = "beginning"]
      BY <1>4 DEF BeginBatch
    <3>2. run \in RunType
      BY DEF TypeOK, RunType
    <3> QED
      BY <1>4, <3>1, <3>2 DEF BeginBatch, RunType
  <2>4. db'.journal = [db.journal EXCEPT ![Current] = "started"]
    BY <2>3, <1>0 DEF Database
  <2>5. db'.journal[Current] = "started" /\ Current' = Current
    BY <2>2, <2>3, <2>4, <1>0 DEF Current
  <2>6. \A b \in Batches \ {Current} : db'.journal[b] \notin Incomplete
    BY <2>1, <2>4, <1>0 DEF JournalInv, OthersSettled
  <2> QED
    BY <2>1, <2>5, <2>6 DEF JournalInv, OwnJournal, OthersSettled, BatchOpen, BatchClosed
<1>5. CASE Clear \/ GraphWritten \/ WriteDocs \/ Reconcile
  <2>1. db'.journal = db.journal
    BY <1>5, <1>0 DEF Clear, GraphWritten, WriteDocs, Reconcile, Database
  <2>2. run'.batch = run.batch
    BY <1>5 DEF Clear, GraphWritten, WriteDocs, Reconcile, TypeOK
  <2>3. BatchOpen /\ BatchOpen'
    BY <1>5 DEF Clear, GraphWritten, WriteDocs, Reconcile, BatchOpen
  <2> QED
    BY <2>1, <2>2, <2>3, SameJournal
<1>6. CASE \E f \in Files : WriteRow(f)
  <2>1. PICK f \in Files : WriteRow(f)
    BY <1>6
  <2>2. db'.journal = db.journal
    BY <2>1, <1>0 DEF WriteRow, Database
  <2>3. run'.batch = run.batch
    BY <2>1 DEF WriteRow, TypeOK
  <2>4. BatchOpen /\ BatchOpen'
    BY <2>1 DEF WriteRow, BatchOpen
  <2> QED
    BY <2>2, <2>3, <2>4, SameJournal
<1>10. CASE CommitJournal
  <2>1. pc = "journal" /\ pc' \in {"stale", "state"} /\ UNCHANGED run
    BY <1>10 DEF CommitJournal
  <2>2. Current \in Batches /\ Current' = Current
    BY <2>1 DEF Started, Current
  <2>3. db'.journal = [db.journal EXCEPT ![Current] = "committed"]
    BY <1>10, <1>0 DEF CommitJournal, Database
  <2>4. db'.journal[Current] = "committed"
    BY <2>2, <2>3, <1>0
  <2>5. \A b \in Batches \ {Current} : db'.journal[b] \notin Incomplete
    BY <2>1, <2>3, <1>0 DEF JournalInv, OthersSettled, BatchOpen
  <2> QED
    BY <2>1, <2>2, <2>4, <2>5 DEF JournalInv, OwnJournal, OthersSettled, BatchOpen, BatchClosed
<1>11. CASE MarkStale \/ SaveState
  <2>1. db'.journal = db.journal
    BY <1>11, <1>0 DEF MarkStale, SaveState, Database
  <2>2. run' = run /\ BatchClosed /\ BatchClosed'
    BY <1>11 DEF MarkStale, SaveState, BatchClosed
  <2> QED
    BY <2>1, <2>2, SameJournal
<1>13. CASE Commit \/ Crash \/ Rollback
  <2>1. pc' \in {"idle", "cleaning"}
    BY <1>13 DEF Commit, Crash, Rollback
  <2> QED
    BY <2>1 DEF JournalInv, OwnJournal, OthersSettled, BatchOpen, BatchClosed
<1>14. CASE Throw \/ ThrowInBatch \/ RecordFails
  <2>1. UNCHANGED <<db, run>>
    BY <1>14 DEF Throw, ThrowInBatch, RecordFails
  <2>2. pc' \in {"cleaning", "rollback", "idle"} \/ (BatchOpen /\ BatchOpen')
    BY <1>14 DEF Throw, ThrowInBatch, RecordFails, BatchOpen
  <2> QED
    BY <2>1, <2>2, SameJournal
<1>15. CASE CleanUpBatch
  <2>1. pc = "failing" /\ pc' \in {"retrying", "rollback"} /\ UNCHANGED run
    BY <1>15 DEF CleanUpBatch, AfterCleanup
  <2>2. Current \in Batches /\ Current' = Current
    BY <2>1 DEF Started, Current
  <2>3. db'.journal = [db.journal EXCEPT ![Current] = "failed"]
    BY <1>15, <1>0 DEF CleanUpBatch, Database
  <2>4. db'.journal[Current] \notin Incomplete
    BY <2>2, <2>3, <1>0 DEF Incomplete
  <2>5. \A b \in Batches \ {Current} : db'.journal[b] \notin Incomplete
    BY <2>1, <2>3, <1>0 DEF JournalInv, OthersSettled, BatchOpen
  <2> QED
    BY <2>1, <2>2, <2>4, <2>5 DEF JournalInv, OwnJournal, OthersSettled, BatchOpen, BatchClosed
<1>16. CASE \E rowsLeft, docsLeft \in SUBSET Files, status \in Incomplete :
               CleanUpBatchFails(rowsLeft, docsLeft, status)
  <2>1. pc' = "rollback"
    BY <1>16 DEF CleanUpBatchFails, AfterCleanup
  <2> QED
    BY <2>1 DEF JournalInv, OwnJournal, OthersSettled, BatchOpen, BatchClosed
<1>18. CASE RecordFailure \/ \E rowsLeft \in SUBSET Files : CleanAfterFailure(rowsLeft)
  <2>1. pc' \in {"idle", "recording"}
    BY <1>18 DEF CleanAfterFailure, RecordFailure
  <2> QED
    BY <2>1 DEF JournalInv, OwnJournal, OthersSettled, BatchOpen, BatchClosed
<1>21. CASE Recovering
  <2>1. pc' \in {"recovering", "rollback"}
    <3>1. PICK b \in Batches : \/ Recover(b)
                               \/ \E rowsLeft, docsLeft \in SUBSET Files, status \in Incomplete :
                                      RecoverFails(b, rowsLeft, docsLeft, status)
      BY <1>21 DEF Recovering
    <3>2. CASE Recover(b)
      BY <3>2 DEF Recover
    <3>3. CASE \E rowsLeft, docsLeft \in SUBSET Files, status \in Incomplete :
                  RecoverFails(b, rowsLeft, docsLeft, status)
      BY <3>3 DEF RecoverFails
    <3> QED
      BY <3>1, <3>2, <3>3
  <2> QED
    BY <2>1 DEF JournalInv, OwnJournal, OthersSettled, BatchOpen, BatchClosed
<1> QED
  BY <1>1, <1>2, <1>3, <1>4, <1>5, <1>6, <1>10, <1>11, <1>13,
     <1>14, <1>15, <1>16, <1>18, <1>21 DEF Next, Writing, Failing

\* No incomplete journal reaches the saved database through a COMMIT.
LEMMA NothingToRecoverStep ==
    ASSUME TypeOK, Settled, JournalInv, NothingToRecover, Started, Next
    PROVE  NothingToRecover'
<1> SUFFICES ASSUME Transactional, NEW b \in Batches PROVE saved'.journal[b] \notin Incomplete
  BY DEF NothingToRecover
<1>0. saved.journal[b] \notin Incomplete
  BY DEF NothingToRecover
<1>1. CASE saved' = saved
  BY <1>0, <1>1
<1>2. CASE saved' # saved /\ pc = "commit"
  <2>1. saved' = db
    BY <1>2 DEF Next, Writing, Failing, Recovering, StartRun, Scan, Recovered, BeginBatch, Clear,
       WriteRow, GraphWritten, WriteDocs, Reconcile, CommitJournal, MarkStale, SaveState,
       Commit, Throw, ThrowInBatch, CleanUpBatch, CleanUpBatchFails, Rollback,
       CleanAfterFailure, RecordFailure, RecordFails, Crash, Recover, RecoverFails
  <2>2. db.journal[b] \notin Incomplete
    <3>1. CASE b = Current
      BY <1>2, <3>1 DEF JournalInv, OwnJournal, BatchClosed, Incomplete
    <3>2. CASE b # Current
      BY <1>2, <3>2 DEF JournalInv, OthersSettled, BatchClosed
    <3> QED
      BY <3>1, <3>2
  <2> QED
    BY <2>1, <2>2
<1>3. CASE saved' # saved /\ pc # "commit"
  <2>1. pc \notin TxSteps
    <3>1. CASE Writing
      BY <1>3, <3>1 DEF Writing, StartRun, Scan, Recovered, BeginBatch, Clear, WriteRow, GraphWritten,
         WriteDocs, Reconcile, CommitJournal, MarkStale, SaveState, Commit, Execute
    <3>2. CASE Failing
      BY <1>3, <3>2 DEF Failing, Throw, ThrowInBatch, CleanUpBatch, CleanUpBatchFails, Rollback,
         CleanAfterFailure, RecordFailure, RecordFails, Crash, Execute
    <3>3. CASE Recovering
      <4>1. PICK c \in Batches : \/ Recover(c)
                                 \/ \E rowsLeft, docsLeft \in SUBSET Files, status \in Incomplete :
                                        RecoverFails(c, rowsLeft, docsLeft, status)
        BY <3>3 DEF Recovering
      <4> QED
        BY <1>3, <4>1 DEF Recover, RecoverFails, Execute
    <3> QED
      BY <1>3, <3>1, <3>2, <3>3 DEF Next
  <2>2. \/ \E o \in Options : StartRun(o)
        \/ \E rowsLeft \in SUBSET Files : CleanAfterFailure(rowsLeft)
        \/ RecordFailure
    BY <1>3, <2>1 DEF Next, Writing, Failing, Recovering, Scan, Recovered, BeginBatch, Clear,
       WriteRow, GraphWritten, WriteDocs, Reconcile, CommitJournal, MarkStale, SaveState,
       Commit, Throw, ThrowInBatch, CleanUpBatch, CleanUpBatchFails, Rollback,
       RecordFails, Crash, Recover, RecoverFails, TxSteps
  <2>3. saved' = db' /\ saved = db /\ db \in Database
    BY <1>3, <2>1, <2>2 DEF StartRun, CleanAfterFailure, RecordFailure, Execute, Settled, TypeOK
  <2>4. db'.journal = db.journal
    BY <2>2, <2>3 DEF StartRun, CleanAfterFailure, RecordFailure, Execute, Database
  <2> QED
    BY <2>3, <2>4, <1>0
<1> QED
  BY <1>1, <1>2, <1>3

(***************************************************************************)
(* Coverage.                                                               *)
(***************************************************************************)
\* Nothing active appears in the facts e that was not active in d.
NothingNew(d, e) ==
    \A f \in Files : e[f].active => d[f].active /\ e[f].batch = d[f].batch

\* Coverage survives a change that makes nothing active, when the journal of
\* every batch with something active stays live.
LEMMA CoverageKept ==
    ASSUME NEW d, NEW e, Covered(d), NothingNew(d.rows, e.rows), NothingNew(d.docs, e.docs),
           \A f \in Files : \A fact \in {e.rows[f], e.docs[f]} :
               fact.active /\ d.journal[fact.batch] \in Live => e.journal[fact.batch] \in Live
    PROVE  Covered(e)
<1> SUFFICES ASSUME NEW f \in Files
             PROVE  Covers(e, e.rows[f]) /\ Covers(e, e.docs[f])
  BY DEF Covered
<1>1. Covers(d, d.rows[f]) /\ Covers(d, d.docs[f])
  BY DEF Covered
<1>2. Covers(e, e.rows[f])
  BY <1>1 DEF Covers, NothingNew
<1>3. Covers(e, e.docs[f])
  BY <1>1 DEF Covers, NothingNew
<1> QED
  BY <1>2, <1>3

LEMMA CoverageOfSameJournal ==
    ASSUME NEW d, NEW e, Covered(d), NothingNew(d.rows, e.rows), NothingNew(d.docs, e.docs),
           e.journal = d.journal
    PROVE  Covered(e)
  BY CoverageKept

\* What a batch that is live writes is covered.
LEMMA CoverageOfWritten ==
    ASSUME NEW d, NEW e, Covered(d), e.journal = d.journal,
           Current \in Batches, d.journal[Current] \in Live,
           \A f \in Files : \/ e.rows[f] = d.rows[f]
                          \/ e.rows[f] = [batch |-> Current, active |-> TRUE],
           \A f \in Files : \/ e.docs[f] = d.docs[f]
                          \/ e.docs[f] = [batch |-> Current, active |-> TRUE]
    PROVE  Covered(e)
<1> SUFFICES ASSUME NEW f \in Files
             PROVE  Covers(e, e.rows[f]) /\ Covers(e, e.docs[f])
  BY DEF Covered
<1>1. Covers(d, d.rows[f]) /\ Covers(d, d.docs[f])
  BY DEF Covered
<1>2. Covers(e, [batch |-> Current, active |-> TRUE])
  BY DEF Covers
<1>3. Covers(e, d.rows[f]) /\ Covers(e, d.docs[f])
  BY <1>1 DEF Covers
<1> QED
  BY <1>2, <1>3

LEMMA SameFacts == ASSUME NEW facts PROVE NothingNew(facts, facts)
  BY DEF NothingNew

\* Coverage of the database executed on is coverage of both.
LEMMA CoveredAfter ==
    ASSUME Covered(saved), NEW d, Covered(d), Execute(d)
    PROVE  Covered(db)' /\ Covered(saved)'
  BY DEF Covered, Covers, Execute

CoverInv == TypeOK /\ Started /\ Covered(db) /\ Covered(saved)

LEMMA WritingCovered ==
    ASSUME CoverInv, JournalInv, Writing PROVE Covered(db)' /\ Covered(saved)'
<1>0. /\ db \in Database /\ Current \in 0..MaxBatches
      /\ db.rows \in [Files -> Fact] /\ db.docs \in [Files -> Fact]
      /\ db.journal \in [Batches -> JournalStatus]
      /\ Covered(db) /\ Covered(saved)
      /\ pc # "idle" => Current \in Batches
  BY CurrentInRange DEF CoverInv, TypeOK, Database, Started
<1>1. CASE \E o \in Options : StartRun(o)
  <2>1. PICK o \in Options : StartRun(o)
    BY <1>1
  <2> DEFINE d == [db EXCEPT !.hasRepos = @ \/ Route(o) = "per-repo"]
  <2>2. d.rows = db.rows /\ d.docs = db.docs /\ d.journal = db.journal
    BY <1>0 DEF Database
  <2>3. Covered(d)
    <3> HIDE DEF d
    <3> QED
      BY <2>2, <1>0, SameFacts, CoverageOfSameJournal
  <2>4. Execute(d)
    BY <2>1 DEF StartRun
  <2> QED
    BY <2>3, <2>4, <1>0, CoveredAfter
<1>2. CASE (\E present, parsed \in SUBSET Files : Scan(present, parsed)) \/ Recovered
  <2>1. UNCHANGED <<db, saved>>
    BY <1>2 DEF Scan, Recovered
  <2> QED
    BY <2>1, <1>0 DEF Covered, Covers
<1>4. CASE BeginBatch
  <2> DEFINE d == [db EXCEPT !.journal[Current] = "started"]
  <2>1. d.rows = db.rows /\ d.docs = db.docs
        /\ d.journal = [db.journal EXCEPT ![Current] = "started"]
    BY <1>0 DEF Database
  <2>2. \A b \in Batches : db.journal[b] \in Live => d.journal[b] \in Live
    BY <2>1, <1>0 DEF Live, Incomplete
  <2>3. Covered(d)
    <3> SUFFICES ASSUME NEW f \in Files
                 PROVE  Covers(d, d.rows[f]) /\ Covers(d, d.docs[f])
      BY DEF Covered
    <3>1. Covers(db, db.rows[f]) /\ Covers(db, db.docs[f])
      BY <1>0 DEF Covered
    <3> QED
      BY <3>1, <2>1, <2>2 DEF Covers
  <2>4. Execute(d)
    BY <1>4 DEF BeginBatch
  <2> QED
    BY <2>3, <2>4, <1>0, CoveredAfter
<1>5. CASE Clear
  <2> DEFINE d == [db EXCEPT !.rows = [f \in Files |-> Absent]]
  <2>1. d.rows = [f \in Files |-> Absent] /\ d.docs = db.docs /\ d.journal = db.journal
    BY <1>0 DEF Database
  <2>2. NothingNew(db.rows, d.rows)
    BY <2>1 DEF NothingNew, Absent
  <2>3. Covered(d)
    <3> HIDE DEF d
    <3> QED
      BY <2>1, <2>2, <1>0, SameFacts, CoverageOfSameJournal
  <2>4. Execute(d)
    BY <1>5 DEF Clear
  <2> QED
    BY <2>3, <2>4, <1>0, CoveredAfter
<1>6. CASE \E f \in Files : WriteRow(f)
  <2>1. PICK f \in Files : WriteRow(f)
    BY <1>6
  <2> DEFINE d == [db EXCEPT !.rows = Written(@, {f}), !.hasRepos = TRUE]
  <2>2. d.rows = Written(db.rows, {f}) /\ d.docs = db.docs /\ d.journal = db.journal
    BY <1>0 DEF Database
  <2>3. pc = "writing" /\ Current \in Batches /\ db.journal[Current] = "started"
    BY <2>1, <1>0 DEF WriteRow, JournalInv, OwnJournal, BatchOpen
  <2>4. Covered(d)
    <3>1. \A g \in Files : \/ Written(db.rows, {f})[g] = db.rows[g]
                           \/ Written(db.rows, {f})[g] = [batch |-> Current, active |-> TRUE]
      BY WrittenOrKept
    <3>2. db.journal[Current] \in Live
      BY <2>3 DEF Live, Incomplete
    <3> HIDE DEF d
    <3>3. \A g \in Files : \/ d.rows[g] = db.rows[g]
                           \/ d.rows[g] = [batch |-> Current, active |-> TRUE]
      BY <3>1, <2>2
    <3> QED
      BY <3>2, <3>3, <2>2, <2>3, <1>0, CoverageOfWritten
  <2>5. Execute(d)
    BY <2>1 DEF WriteRow
  <2> QED
    BY <2>4, <2>5, <1>0, CoveredAfter
<1>7. CASE GraphWritten
  <2> DEFINE d == [db EXCEPT !.hasRepos = TRUE]
  <2>1. d.rows = db.rows /\ d.docs = db.docs /\ d.journal = db.journal
    BY <1>0 DEF Database
  <2>2. Covered(d)
    <3> HIDE DEF d
    <3> QED
      BY <2>1, <1>0, SameFacts, CoverageOfSameJournal
  <2>3. Execute(d)
    BY <1>7 DEF GraphWritten
  <2> QED
    BY <2>2, <2>3, <1>0, CoveredAfter
<1>8. CASE WriteDocs
  <2> DEFINE d == [db EXCEPT !.docs = Written(@, run.parsed)]
  <2>2. d.rows = db.rows /\ d.docs = Written(db.docs, run.parsed) /\ d.journal = db.journal
    BY <1>0 DEF Database
  <2>3. pc = "lexical" /\ Current \in Batches /\ db.journal[Current] = "started"
    BY <1>8, <1>0 DEF WriteDocs, JournalInv, OwnJournal, BatchOpen
  <2>4. Covered(d)
    <3>1. \A g \in Files : \/ Written(db.docs, run.parsed)[g] = db.docs[g]
                           \/ Written(db.docs, run.parsed)[g] = [batch |-> Current, active |-> TRUE]
      BY WrittenOrKept
    <3>2. db.journal[Current] \in Live
      BY <2>3 DEF Live, Incomplete
    <3> HIDE DEF d
    <3>3. \A g \in Files : \/ d.docs[g] = db.docs[g]
                           \/ d.docs[g] = [batch |-> Current, active |-> TRUE]
      BY <3>1, <2>2
    <3> QED
      BY <3>2, <3>3, <2>2, <2>3, <1>0, CoverageOfWritten
  <2>5. Execute(d)
    BY <1>8 DEF WriteDocs
  <2> QED
    BY <2>4, <2>5, <1>0, CoveredAfter
<1>9. CASE Reconcile
  <2> DEFINE d == [db EXCEPT !.docs = Reconciled(@)]
  <2>1. d.rows = db.rows /\ d.docs = Reconciled(db.docs) /\ d.journal = db.journal
    BY <1>0 DEF Database
  <2>2. NothingNew(db.docs, d.docs)
    BY <2>1, <1>0, ReconciledFacts DEF NothingNew
  <2>3. Covered(d)
    <3> HIDE DEF d
    <3> QED
      BY <2>1, <2>2, <1>0, SameFacts, CoverageOfSameJournal
  <2>4. Execute(d)
    BY <1>9 DEF Reconcile
  <2> QED
    BY <2>3, <2>4, <1>0, CoveredAfter
<1>10. CASE CommitJournal
  <2> DEFINE d == [db EXCEPT !.journal[Current] = "committed"]
  <2>1. d.rows = db.rows /\ d.docs = db.docs
        /\ d.journal = [db.journal EXCEPT ![Current] = "committed"]
    BY <1>0 DEF Database
  <2>2. \A b \in Batches : db.journal[b] \in Live => d.journal[b] \in Live
    BY <2>1, <1>0 DEF Live
  <2>3. Covered(d)
    <3> SUFFICES ASSUME NEW f \in Files
                 PROVE  Covers(d, d.rows[f]) /\ Covers(d, d.docs[f])
      BY DEF Covered
    <3>1. Covers(db, db.rows[f]) /\ Covers(db, db.docs[f])
      BY <1>0 DEF Covered
    <3> QED
      BY <3>1, <2>1, <2>2 DEF Covers
  <2>4. Execute(d)
    BY <1>10 DEF CommitJournal
  <2> QED
    BY <2>3, <2>4, <1>0, CoveredAfter
<1>11. CASE MarkStale
  <2> DEFINE d == [db EXCEPT !.rows = WithoutGone(@)]
  <2>1. d.rows = WithoutGone(db.rows) /\ d.docs = db.docs /\ d.journal = db.journal
    BY <1>0 DEF Database
  <2>2. NothingNew(db.rows, d.rows)
    BY <2>1, <1>0, WithoutGoneFacts DEF NothingNew
  <2>3. Covered(d)
    <3> HIDE DEF d
    <3> QED
      BY <2>1, <2>2, <1>0, SameFacts, CoverageOfSameJournal
  <2>4. Execute(d)
    BY <1>11 DEF MarkStale
  <2> QED
    BY <2>3, <2>4, <1>0, CoveredAfter
<1>12. CASE SaveState
  <2> DEFINE d == [db EXCEPT !.state = [status |-> "succeeded", batch |-> Current]]
  <2>1. d.rows = db.rows /\ d.docs = db.docs /\ d.journal = db.journal
    BY <1>0 DEF Database
  <2>2. Covered(d)
    <3> HIDE DEF d
    <3> QED
      BY <2>1, <1>0, SameFacts, CoverageOfSameJournal
  <2>3. Execute(d)
    BY <1>12 DEF SaveState
  <2> QED
    BY <2>2, <2>3, <1>0, CoveredAfter
<1>13. CASE Commit
  BY <1>13, <1>0 DEF Commit, Covered, Covers
<1> QED
  BY <1>1, <1>2, <1>4, <1>5, <1>6, <1>7, <1>8, <1>9, <1>10, <1>11, <1>12, <1>13 DEF Writing

\* A cleanup, complete or not, that leaves the journal of what it has left live.
LEMMA CleanupCovered ==
    ASSUME NEW d \in Database, Covered(d), NEW b \in Batches, NEW rowsLeft, NEW docsLeft,
           NEW status \in JournalStatus,
           status \in Live \/ (rowsLeft = {} /\ docsLeft = {})
    PROVE  /\ Covered([d EXCEPT !.rows = Deactivated(@, b, rowsLeft),
                                !.docs = Deactivated(@, b, docsLeft),
                                !.journal[b] = status])
           /\ Covered([d EXCEPT !.rows = Deactivated(@, b, rowsLeft)])
<1> DEFINE e == [d EXCEPT !.rows = Deactivated(@, b, rowsLeft),
                          !.docs = Deactivated(@, b, docsLeft),
                          !.journal[b] = status]
           g == [d EXCEPT !.rows = Deactivated(@, b, rowsLeft)]
<1>1. /\ d.rows \in [Files -> Fact] /\ d.docs \in [Files -> Fact]
      /\ d.journal \in [Batches -> JournalStatus]
  BY DEF Database
<1>2. /\ e.rows = Deactivated(d.rows, b, rowsLeft)
      /\ e.docs = Deactivated(d.docs, b, docsLeft)
      /\ e.journal = [d.journal EXCEPT ![b] = status]
      /\ g.rows = Deactivated(d.rows, b, rowsLeft)
      /\ g.docs = d.docs /\ g.journal = d.journal
  BY DEF Database
<1>3. \A f \in Files :
          /\ Deactivated(d.rows, b, rowsLeft)[f].active =>
                 /\ d.rows[f].batch # b \/ f \in rowsLeft
                 /\ d.rows[f].active
                 /\ Deactivated(d.rows, b, rowsLeft)[f].batch = d.rows[f].batch
          /\ Deactivated(d.docs, b, docsLeft)[f].active =>
                 /\ d.docs[f].batch # b \/ f \in docsLeft
                 /\ d.docs[f].active
                 /\ Deactivated(d.docs, b, docsLeft)[f].batch = d.docs[f].batch
  BY <1>1, DeactivatedFacts
<1> HIDE DEF e, g
<1>4. /\ NothingNew(d.rows, e.rows) /\ NothingNew(d.docs, e.docs)
      /\ NothingNew(d.rows, g.rows) /\ NothingNew(d.docs, g.docs)
  BY <1>2, <1>3 DEF NothingNew
<1>5. Covered(g)
  BY <1>2, <1>4, CoverageOfSameJournal
<1>6. \A f \in Files : \A fact \in {e.rows[f], e.docs[f]} :
          fact.active /\ d.journal[fact.batch] \in Live => e.journal[fact.batch] \in Live
  <2> SUFFICES ASSUME NEW f \in Files, NEW fact \in {e.rows[f], e.docs[f]}, fact.active,
                      d.journal[fact.batch] \in Live
               PROVE  e.journal[fact.batch] \in Live
    OBVIOUS
  <2>1. fact.batch \in Batches
    BY <1>4 DEF NothingNew, Covered, Covers
  <2>2. CASE fact.batch = b
    <3>1. rowsLeft # {} \/ docsLeft # {}
      BY <1>2, <1>3, <2>2
    <3> QED
      BY <3>1, <1>1, <1>2, <2>2
  <2>3. CASE fact.batch # b
    BY <1>1, <1>2, <2>1, <2>3
  <2> QED
    BY <2>2, <2>3
<1>7. Covered(e)
  BY <1>4, <1>6, CoverageKept
<1> QED
  BY <1>5, <1>7 DEF e, g

LEMMA RecoveringCovered ==
    ASSUME CoverInv, Recovering PROVE Covered(db)' /\ Covered(saved)'
<1>0. db \in Database /\ Covered(db) /\ Covered(saved)
  BY DEF CoverInv, TypeOK
<1>1. PICK b \in Batches :
        \/ Recover(b)
        \/ \E rowsLeft, docsLeft \in SUBSET Files, status \in Incomplete :
               RecoverFails(b, rowsLeft, docsLeft, status)
  BY DEF Recovering
<1>2. CASE Recover(b)
  <2>1. Execute([db EXCEPT !.rows = Deactivated(@, b, {}), !.docs = Deactivated(@, b, {}),
                           !.journal[b] = "recovered"])
    BY <1>2 DEF Recover
  <2>2. Covered([db EXCEPT !.rows = Deactivated(@, b, {}), !.docs = Deactivated(@, b, {}),
                           !.journal[b] = "recovered"])
    BY <1>0, CleanupCovered DEF JournalStatus
  <2> QED
    BY <2>1, <2>2, <1>0, CoveredAfter
<1>3. CASE \E rowsLeft, docsLeft \in SUBSET Files, status \in Incomplete :
               RecoverFails(b, rowsLeft, docsLeft, status)
  <2>1. PICK rowsLeft \in SUBSET Files, docsLeft \in SUBSET Files, status \in Incomplete :
            RecoverFails(b, rowsLeft, docsLeft, status)
    BY <1>3
  <2>2. Execute([db EXCEPT !.rows = Deactivated(@, b, rowsLeft),
                           !.docs = Deactivated(@, b, docsLeft), !.journal[b] = status])
    BY <2>1 DEF RecoverFails
  <2>3. status \in JournalStatus /\ status \in Live
    BY DEF JournalStatus, Live
  <2>4. Covered([db EXCEPT !.rows = Deactivated(@, b, rowsLeft),
                           !.docs = Deactivated(@, b, docsLeft), !.journal[b] = status])
    BY <1>0, <2>3, CleanupCovered
  <2> QED
    BY <2>2, <2>4, <1>0, CoveredAfter
<1> QED
  BY <1>1, <1>2, <1>3

LEMMA FailingCovered ==
    ASSUME CoverInv, Failing PROVE Covered(db)' /\ Covered(saved)'
<1>0. /\ db \in Database /\ Covered(db) /\ Covered(saved)
      /\ pc # "idle" => Current \in Batches
  BY DEF CoverInv, TypeOK, Started
<1>a. ASSUME db' \in {db, saved}, saved' = saved PROVE Covered(db)' /\ Covered(saved)'
  BY <1>a, <1>0 DEF Covered, Covers
<1>1. CASE Throw \/ ThrowInBatch \/ RecordFails \/ Rollback \/ Crash
  <2>1. db' \in {db, saved} /\ saved' = saved
    BY <1>1 DEF Throw, ThrowInBatch, RecordFails, Rollback, Crash
  <2> QED
    BY <2>1, <1>a
<1>2. CASE CleanUpBatch
  <2>1. /\ Execute([db EXCEPT !.rows = Deactivated(@, Current, {}),
                              !.docs = Deactivated(@, Current, {}),
                              !.journal[Current] = "failed"])
        /\ Current \in Batches
    BY <1>2, <1>0 DEF CleanUpBatch
  <2>2. Covered([db EXCEPT !.rows = Deactivated(@, Current, {}),
                           !.docs = Deactivated(@, Current, {}),
                           !.journal[Current] = "failed"])
    BY <1>0, <2>1, CleanupCovered DEF JournalStatus
  <2> QED
    BY <2>1, <2>2, <1>0, CoveredAfter
<1>3. CASE \E rowsLeft, docsLeft \in SUBSET Files, status \in Incomplete :
               CleanUpBatchFails(rowsLeft, docsLeft, status)
  <2>1. PICK rowsLeft \in SUBSET Files, docsLeft \in SUBSET Files, status \in Incomplete :
            CleanUpBatchFails(rowsLeft, docsLeft, status)
    BY <1>3
  <2>2. /\ Execute([db EXCEPT !.rows = Deactivated(@, Current, rowsLeft),
                              !.docs = Deactivated(@, Current, docsLeft),
                              !.journal[Current] = status])
        /\ Current \in Batches
    BY <2>1, <1>0 DEF CleanUpBatchFails
  <2>3. status \in JournalStatus /\ status \in Live
    BY DEF JournalStatus, Live
  <2>4. Covered([db EXCEPT !.rows = Deactivated(@, Current, rowsLeft),
                           !.docs = Deactivated(@, Current, docsLeft),
                           !.journal[Current] = status])
    BY <1>0, <2>2, <2>3, CleanupCovered
  <2> QED
    BY <2>2, <2>4, <1>0, CoveredAfter
<1>4. CASE \E rowsLeft \in SUBSET Files : CleanAfterFailure(rowsLeft)
  <2>1. PICK rowsLeft \in SUBSET Files : CleanAfterFailure(rowsLeft)
    BY <1>4
  <2>2. /\ Execute([db EXCEPT !.rows = Deactivated(@, Current, rowsLeft)])
        /\ Current \in Batches
    BY <2>1, <1>0 DEF CleanAfterFailure
  <2>3. "started" \in JournalStatus /\ "started" \in Live
    BY DEF JournalStatus, Live, Incomplete
  <2>4. Covered([db EXCEPT !.rows = Deactivated(@, Current, rowsLeft)])
    BY <1>0, <2>2, <2>3, CleanupCovered
  <2> QED
    BY <2>2, <2>4, <1>0, CoveredAfter
<1>5. CASE RecordFailure
  <2> DEFINE d == [db EXCEPT !.state = [status |-> "failed", batch |-> Current]]
  <2>1. d.rows = db.rows /\ d.docs = db.docs /\ d.journal = db.journal
    BY <1>0 DEF Database
  <2>2. Execute(d)
    BY <1>5 DEF RecordFailure
  <2> HIDE DEF d
  <2>3. Covered(d)
    BY <2>1, <1>0, SameFacts, CoverageOfSameJournal
  <2> QED
    BY <2>2, <2>3, <1>0, CoveredAfter
<1> QED
  BY <1>1, <1>2, <1>3, <1>4, <1>5 DEF Failing

-----------------------------------------------------------------------------
(***************************************************************************)
(* The theorems.                                                           *)
(***************************************************************************)
LEMMA IInvStep == ASSUME IInv, [Next]_vars PROVE IInv'
<1>1. CASE UNCHANGED vars
  BY <1>1 DEF vars, IInv, TypeOK, Started, Settled, Covered, Covers, OwnJournal, OthersSettled,
              BatchOpen, BatchClosed, NothingToRecover, Current
<1>2. CASE Next
  <2>1. CoverInv /\ JournalInv
    BY DEF IInv, CoverInv, JournalInv
  <2>2. TypeOK' /\ Started'
    BY <1>2, StepTypeOK DEF IInv
  <2>3. Settled'
    BY <1>2, SettledStep DEF IInv
  <2>4. Covered(db)' /\ Covered(saved)'
    BY <1>2, <2>1, WritingCovered, RecoveringCovered, FailingCovered DEF Next
  <2>5. JournalInv'
    BY <1>2, <2>1, JournalStep DEF IInv
  <2>6. NothingToRecover'
    BY <1>2, <2>1, NothingToRecoverStep DEF IInv
  <2> QED
    BY <2>2, <2>3, <2>4, <2>5, <2>6 DEF IInv, JournalInv
<1> QED
  BY <1>1, <1>2

LEMMA Invariance == Spec => []IInv
<1>1. Init => IInv
  BY InitIInv
<1>2. IInv /\ [Next]_vars => IInv'
  BY IInvStep
<1> QED
  BY <1>1, <1>2, PTL DEF Spec

\* Once a run has recovered and begun its batch, nothing is active that a run
\* which failed or a process that died has left: with or without
\* transactions, whatever failed and however often.
THEOREM RecoveredFirst == Spec => []RecoveredBeforeWriting
<1>1. IInv => RecoveredBeforeWriting
  <2> SUFFICES ASSUME IInv,
                      pc \in {"clearing", "writing", "lexical", "reconciling", "journal", "stale",
                              "state", "commit"},
                      NEW f \in Files, NEW fact \in {db.rows[f], db.docs[f]}, fact.active
               PROVE  fact.batch = Current \/ db.journal[fact.batch] = "committed"
    BY DEF RecoveredBeforeWriting
  <2>1. Covers(db, fact)
    BY DEF IInv, Covered
  <2>2. fact.batch \in Batches /\ db.journal[fact.batch] \in Live
    BY <2>1 DEF Covers
  <2>3. \A b \in Batches \ {Current} : db.journal[b] \notin Incomplete
    BY DEF IInv, OthersSettled, BatchOpen, BatchClosed
  <2> QED
    BY <2>2, <2>3 DEF Live
<1> QED
  BY <1>1, Invariance, PTL

\* With transactions no restart ever finds an incomplete journal.
THEOREM NothingLeftToRecover == Spec => []NothingToRecover
<1>1. IInv => NothingToRecover
  BY DEF IInv
<1> QED
  BY <1>1, Invariance, PTL
-----------------------------------------------------------------------------
(***************************************************************************)
(* What a run publishes.  Recovery leaves nothing half-written behind; it  *)
(* spares what was committed, every row is inserted and published once,    *)
(* and, with transactions, the protocol implements AtomicIndex.            *)
(***************************************************************************)

\* What the current batch writes.
Own == [batch |-> Current, active |-> TRUE]

\* A database without repositories has no rows.
TablesKnown ==
    /\ ~db.hasRepos => \A f \in Files : db.rows[f] = Absent
    /\ ~saved.hasRepos => \A f \in Files : saved.rows[f] = Absent

\* A run plans to copy in bulk only into a database without repositories, and
\* nobody adds one before it writes.
CopyPlanned ==
    run.writer = "bulk-copy" /\ pc \in {"scanning", "recovering", "beginning"} =>
        ~db.hasRepos

\* What a run has written so far, step by step.
Landed ==
    /\ run.parsed \subseteq run.present
    /\ pc \in {"clearing", "writing"} => run.left \subseteq run.parsed
    /\ pc = "clearing" => run.left = run.parsed
    /\ pc = "writing" => \A f \in run.parsed \ run.left : db.rows[f] = Own
    /\ pc \in {"lexical", "reconciling", "journal", "stale", "state", "commit"} =>
           \A f \in run.parsed : db.rows[f] = Own
    /\ pc \in {"reconciling", "journal", "stale", "state", "commit"} =>
           \A f \in run.parsed : db.docs[f] = Own

\* The recorded outcome is of an earlier run until the current one records its
\* own, in the database it reads and in the saved one.
OutcomeKnown ==
    /\ db.state.batch <= Current /\ saved.state.batch <= Current
    /\ pc \notin {"idle", "commit", "rollback"} => db.state.batch < Current
    /\ pc # "idle" /\ (Transactional \/ pc # "commit") => saved.state.batch < Current
    /\ pc = "commit" => db.state = [status |-> "succeeded", batch |-> Current]

\* A database that records the current run as succeeded has all it parsed.
Published(d) ==
    Current > 0 /\ d.state = [status |-> "succeeded", batch |-> Current] =>
        /\ d.journal[Current] = "committed"
        /\ \A f \in run.parsed : d.rows[f] = Own /\ d.docs[f] = Own

\* A fact of file f that the run's transaction reads is the saved one, or one
\* it has written, or one it has hidden.
FromSaved(fact, old, f) == ~fact.active \/ fact = old \/ (f \in run.parsed /\ fact = Own)

\* A transaction shows nothing of its run before the COMMIT, and changes of the
\* saved facts only those it has written or hidden.
Isolated ==
    Transactional =>
        /\ \A f \in Files : /\ FromSaved(db.rows[f], saved.rows[f], f)
                            /\ FromSaved(db.docs[f], saved.docs[f], f)
        /\ \A f \in Files : saved.rows[f].active =>
               /\ saved.rows[f].batch <= Current
               /\ pc # "idle" => saved.rows[f].batch < Current

\* Nothing waits for a COMMIT while a run recovers: without transactions nothing
\* ever does, with them there is nothing to recover.
RecoversSaved == pc = "recovering" => saved = db

\* The inductive invariant: IInv knows what recovery relies on, the rest what
\* the run has done since and for whom.
PParts ==
    /\ TablesKnown /\ CopyPlanned /\ CopyNeedsEmptyTable
    /\ Landed /\ OutcomeKnown
    /\ Published(db) /\ Published(saved)
    /\ Isolated /\ RecoversSaved

PInv == IInv /\ PParts

-----------------------------------------------------------------------------
(***************************************************************************)
(* What every step may rely on.                                            *)
(***************************************************************************)
LEMMA Types ==
    ASSUME IInv
    PROVE  /\ db \in Database /\ saved \in Database /\ run \in RunType
           /\ Current \in 0..MaxBatches
           /\ pc # "idle" => Current \in Batches
           /\ \A d \in {db, saved} :
                  /\ d.rows \in [Files -> Fact] /\ d.docs \in [Files -> Fact]
                  /\ d.journal \in [Batches -> JournalStatus]
                  /\ d.state.batch \in 0..MaxBatches
<1>1. db \in Database /\ saved \in Database /\ run \in RunType /\ Current \in 0..MaxBatches
  BY CurrentInRange DEF IInv, TypeOK, RunType
<1>2. pc # "idle" => Current \in Batches
  BY DEF IInv, Started
<1> QED
  BY <1>1, <1>2 DEF Database

\* A statement reaches the saved database at once, unless a transaction is
\* open; where none is, the two are the same before and after.
LEMMA Executed ==
    ASSUME Settled, NEW d, Execute(d)
    PROVE  /\ db' = d
           /\ \/ Transactional /\ pc \in TxSteps /\ saved' = saved
              \/ saved = db /\ saved' = db'
  BY DEF Settled, Execute

\* Before a run records its outcome there is nothing to show for it.
LEMMA NotYetPublished ==
    ASSUME IInv', OutcomeKnown', pc' \notin {"idle", "commit", "rollback"}
    PROVE  Published(db)' /\ Published(saved)'
<1>1. /\ db'.state.batch \in 0..MaxBatches /\ saved'.state.batch \in 0..MaxBatches
      /\ Current' \in 0..MaxBatches
  BY DEF IInv, TypeOK, Database, Current
<1>2. db'.state.batch < Current' /\ saved'.state.batch < Current'
  BY DEF OutcomeKnown
<1> QED
  BY <1>1, <1>2 DEF Published

LEMMA InitPInv == Init => PInv
<1> SUFFICES ASSUME Init PROVE PInv
  OBVIOUS
<1>1. /\ \A f \in Files : db.rows[f] = Absent /\ db.docs[f] = Absent
      /\ db.state = [status |-> "none", batch |-> 0]
      /\ saved = db /\ pc = "idle"
      /\ Current = 0 /\ run.parsed = {} /\ run.present = {} /\ run.writer = "merge"
  BY DEF Init, Current
<1>2. TablesKnown /\ CopyPlanned /\ CopyNeedsEmptyTable /\ Landed /\ RecoversSaved
  BY <1>1 DEF TablesKnown, CopyPlanned, CopyNeedsEmptyTable, Landed, RecoversSaved
<1>3. OutcomeKnown /\ Published(db) /\ Published(saved)
  BY <1>1 DEF OutcomeKnown, Published
<1>4. Isolated
  BY <1>1 DEF Isolated, FromSaved, Absent
<1> QED
  BY <1>2, <1>3, <1>4, InitIInv DEF PInv, PParts

-----------------------------------------------------------------------------
(***************************************************************************)
(* A run that starts, scans, recovers and begins its batch.                *)
(***************************************************************************)
LEMMA StartRunParts ==
    ASSUME PInv, IInv', NEW o \in Options, StartRun(o) PROVE PParts'
<1>0. PParts /\ IInv
  BY DEF PInv
<1>1. /\ pc = "idle" /\ pc' = "scanning" /\ Accepted(o)
      /\ Execute([db EXCEPT !.hasRepos = @ \/ Route(o) = "per-repo"])
      /\ run' = [batch |-> Current + 1, changedOnly |-> o.changedOnly, route |-> Route(o),
               writer |-> Selection(o).mode, canFallBack |-> Selection(o).canFallBack,
               scanned |-> FALSE, present |-> {}, parsed |-> {}, left |-> {},
               graphWritten |-> FALSE]
  BY DEF StartRun, Goto
<1>2. saved = db /\ saved' = db' /\ db' = [db EXCEPT !.hasRepos = @ \/ Route(o) = "per-repo"]
  BY <1>0, <1>1, Executed DEF IInv, TxSteps
<1>3. /\ db'.rows = db.rows /\ db'.docs = db.docs /\ db'.state = db.state
      /\ db'.hasRepos = (db.hasRepos \/ Route(o) = "per-repo")
  BY <1>0, <1>2, Types DEF Database
<1>4. Current' = Current + 1 /\ run'.parsed = {} /\ run'.present = {}
      /\ run'.writer = Selection(o).mode
  BY <1>1 DEF Current
<1>5. Current \in Nat /\ db.state.batch \in Nat
  BY <1>0, Types
<1>6. TablesKnown'
  <2>1. ~db'.hasRepos => ~db.hasRepos
    BY <1>3
  <2> QED
    BY <2>1, <1>0, <1>2, <1>3 DEF PParts, TablesKnown
<1>7. CopyPlanned'
  <2> SUFFICES ASSUME run'.writer = "bulk-copy" PROVE ~db'.hasRepos
    BY DEF CopyPlanned
  <2>1. Route(o) \in {"batched-full", "full-copy-bulk"} /\ (Route(o) = "batched-full" => ~db.hasRepos)
    BY <1>4 DEF Selection, Route
  <2>2. Route(o) = "full-copy-bulk" => ~db.hasRepos
    BY <1>1 DEF Accepted, Route
  <2> QED
    BY <2>1, <2>2, <1>3
<1>8. CopyNeedsEmptyTable' /\ Landed' /\ RecoversSaved'
  BY <1>1, <1>4 DEF CopyNeedsEmptyTable, Landed, RecoversSaved
<1>9. OutcomeKnown'
  BY <1>0, <1>1, <1>2, <1>3, <1>4, <1>5 DEF PParts, OutcomeKnown
<1>10. Published(db)' /\ Published(saved)'
  BY <1>1, <1>9, NotYetPublished
<1>11. Isolated'
  <2>1. Transactional => \A f \in Files : db.rows[f].active => db.rows[f].batch <= Current
    BY <1>0, <1>2 DEF PParts, Isolated
  <2>2. \A f \in Files : db.rows[f].batch \in 0..MaxBatches
    BY <1>0, Types DEF Fact
  <2>3. Transactional => \A f \in Files : db.rows[f].active => db.rows[f].batch < Current + 1
    BY <2>1, <2>2, <1>5
  <2> QED
    BY <2>3, <2>2, <1>2, <1>3, <1>4, <1>5 DEF Isolated, FromSaved
<1> QED
  BY <1>6, <1>7, <1>8, <1>9, <1>10, <1>11 DEF PParts

\* A step that leaves both databases, and all that is written so far, alone.
LEMMA QuietParts ==
    ASSUME PInv, IInv', UNCHANGED <<db, saved>>,
           run'.batch = run.batch, run'.parsed = run.parsed, run'.present = run.present,
           run'.writer = run.writer,
           pc \notin {"idle", "rollback"},
           pc' \in {"beginning", "failing", "rollback", "cleaning", "idle"},
           pc' = "beginning" => pc = "recovering",
           pc = "commit" => pc' = "rollback" /\ Transactional
    PROVE  PParts'
<1>0. PParts /\ IInv /\ Current' = Current
  BY DEF PInv, Current
<1>1. TablesKnown' /\ CopyPlanned' /\ CopyNeedsEmptyTable' /\ Landed' /\ RecoversSaved'
  BY <1>0 DEF PParts, TablesKnown, CopyPlanned, CopyNeedsEmptyTable, Landed, RecoversSaved
<1>2. Published(db)' /\ Published(saved)'
  BY <1>0 DEF PParts, Published, Own
<1>3. OutcomeKnown'
  BY <1>0 DEF PParts, OutcomeKnown
<1>4. Isolated'
  BY <1>0 DEF PParts, Isolated, FromSaved, Own
<1> QED
  BY <1>1, <1>2, <1>3, <1>4 DEF PParts

LEMMA ScanParts ==
    ASSUME PInv, IInv', NEW present \in SUBSET Files, NEW parsed \in SUBSET Files,
           Scan(present, parsed)
    PROVE  PParts'
<1>0. PParts /\ IInv
  BY DEF PInv
<1>1. /\ pc = "scanning" /\ pc' = "recovering" /\ UNCHANGED <<db, saved>>
      /\ parsed \subseteq present
      /\ run' = [run EXCEPT !.scanned = TRUE, !.present = present, !.parsed = parsed]
  BY DEF Scan, Goto
<1>2. run'.parsed = parsed /\ run'.present = present /\ run'.writer = run.writer
      /\ Current' = Current
  BY <1>0, <1>1, Types DEF RunType, Current
<1>3. saved = db
  BY <1>0, <1>1 DEF IInv, Settled, TxSteps
<1>4. TablesKnown' /\ CopyPlanned' /\ CopyNeedsEmptyTable' /\ Landed' /\ RecoversSaved'
  BY <1>0, <1>1, <1>2, <1>3 DEF PParts, TablesKnown, CopyPlanned, CopyNeedsEmptyTable, Landed,
                                RecoversSaved
<1>5. OutcomeKnown'
  BY <1>0, <1>1, <1>2 DEF PParts, OutcomeKnown
<1>6. Published(db)' /\ Published(saved)'
  BY <1>1, <1>5, NotYetPublished
<1>7. Isolated'
  BY <1>0, <1>1, <1>2, <1>3 DEF PParts, Isolated, FromSaved
<1> QED
  BY <1>4, <1>5, <1>6, <1>7 DEF PParts

LEMMA BeginBatchParts == ASSUME PInv, IInv', BeginBatch PROVE PParts'
<1>0. PParts /\ IInv
  BY DEF PInv
<1>1. /\ pc \in {"beginning", "retrying"}
      /\ Execute([db EXCEPT !.journal[Current] = "started"])
      /\ run' = [run EXCEPT !.left = run.parsed,
                            !.writer = IF pc = "retrying" THEN "merge" ELSE @,
                            !.canFallBack = @ /\ pc = "beginning"]
      /\ pc' = IF run'.writer = "append-copy" THEN "clearing" ELSE "writing"
  BY DEF BeginBatch, Goto
<1>2. /\ run'.parsed = run.parsed /\ run'.left = run.parsed /\ run'.present = run.present
      /\ run'.writer = IF pc = "retrying" THEN "merge" ELSE run.writer
      /\ Current' = Current
  BY <1>0, <1>1, Types DEF RunType, Current
<1>3. /\ db' = [db EXCEPT !.journal[Current] = "started"]
      /\ \/ Transactional /\ saved' = saved
         \/ saved = db /\ saved' = db'
  BY <1>0, <1>1, Executed DEF IInv
<1>4. db'.rows = db.rows /\ db'.docs = db.docs /\ db'.state = db.state
      /\ db'.hasRepos = db.hasRepos
  BY <1>0, <1>3, Types DEF Database
<1>5. TablesKnown'
  BY <1>0, <1>3, <1>4 DEF PParts, TablesKnown
<1>6. CopyPlanned' /\ Landed' /\ RecoversSaved'
  BY <1>0, <1>1, <1>2 DEF PParts, CopyPlanned, Landed, RecoversSaved
<1>7. CopyNeedsEmptyTable'
  <2> SUFFICES ASSUME pc' = "writing", run'.writer \in {"bulk-copy", "append-copy"}
               PROVE  \A f \in Files : db'.rows[f] = Absent
    BY <1>0, <1>2, Types DEF CopyNeedsEmptyTable, RunType
  <2>1. pc = "beginning" /\ run.writer = "bulk-copy"
    BY <1>1, <1>2
  <2> QED
    BY <2>1, <1>0, <1>4 DEF PParts, CopyPlanned, TablesKnown
<1>8. OutcomeKnown'
  BY <1>0, <1>1, <1>2, <1>3, <1>4 DEF PParts, OutcomeKnown
<1>9. Published(db)' /\ Published(saved)'
  BY <1>1, <1>8, NotYetPublished
<1>10. Isolated'
  BY <1>0, <1>1, <1>2, <1>3, <1>4 DEF PParts, Isolated, FromSaved, Own
<1> QED
  BY <1>5, <1>6, <1>7, <1>8, <1>9, <1>10 DEF PParts

-----------------------------------------------------------------------------
(***************************************************************************)
(* The batch is written, in a transaction or not.                          *)
(***************************************************************************)
\* Every step of a batch but the last leaves the outcome alone.
LEMMA BatchOutcome ==
    ASSUME PInv, IInv', run'.batch = run.batch,
           pc \notin {"idle", "commit", "rollback"}, pc' \notin {"idle", "commit", "rollback"},
           db'.state = db.state, saved' = saved \/ saved' = db'
    PROVE  OutcomeKnown' /\ Published(db)' /\ Published(saved)'
<1>1. OutcomeKnown'
  BY DEF PInv, PParts, OutcomeKnown, Current
<1> QED
  BY <1>1, NotYetPublished

\* In its transaction a run hides a saved fact, writes its own, or keeps it.
LEMMA BatchIsolated ==
    ASSUME PInv, run'.batch = run.batch, run'.parsed = run.parsed, pc # "idle", pc' # "idle",
           Transactional => saved' = saved,
           \A f \in Files :
               /\ db'.rows[f] = db.rows[f] \/ ~db'.rows[f].active
                  \/ (f \in run.parsed /\ db'.rows[f] = Own)
               /\ db'.docs[f] = db.docs[f] \/ ~db'.docs[f].active
                  \/ (f \in run.parsed /\ db'.docs[f] = Own)
    PROVE  Isolated'
  BY DEF PInv, PParts, Isolated, FromSaved, Own, Current

LEMMA ClearParts == ASSUME PInv, IInv', Clear PROVE PParts'
<1>0. PParts /\ IInv
  BY DEF PInv
<1>1. /\ pc = "clearing" /\ pc' = "writing" /\ UNCHANGED run
      /\ Execute([db EXCEPT !.rows = [f \in Files |-> Absent]])
  BY DEF Clear, Goto
<1>2. /\ db' = [db EXCEPT !.rows = [f \in Files |-> Absent]]
      /\ \/ Transactional /\ saved' = saved
         \/ saved = db /\ saved' = db'
  BY <1>0, <1>1, Executed DEF IInv
<1>3. db'.docs = db.docs /\ db'.state = db.state /\ \A f \in Files : db'.rows[f] = Absent
  BY <1>0, <1>2, Types DEF Database
<1>4. /\ db'.hasRepos = db.hasRepos
  BY <1>0, <1>2, Types DEF Database
<1>5. TablesKnown'
  BY <1>0, <1>2, <1>3, <1>4 DEF PParts, TablesKnown
<1>6. CopyPlanned' /\ Landed' /\ RecoversSaved'
  BY <1>0, <1>1 DEF PParts, CopyPlanned, Landed, RecoversSaved
<1>7. CopyNeedsEmptyTable'
  BY <1>0, <1>1, <1>3, Types DEF CopyNeedsEmptyTable, RunType
<1>8. OutcomeKnown' /\ Published(db)' /\ Published(saved)'
  BY <1>1, <1>2, <1>3, BatchOutcome
<1>9. Isolated'
  <2>1. \A f \in Files : ~db'.rows[f].active /\ db'.docs[f] = db.docs[f]
    BY <1>3 DEF Absent
  <2>2. Transactional => saved' = saved
    BY <1>1, <1>2, <1>0 DEF IInv, Settled, TxSteps, Execute, Goto, Clear
  <2> QED
    BY <2>1, <2>2, <1>1, BatchIsolated
<1> QED
  BY <1>5, <1>6, <1>7, <1>8, <1>9 DEF PParts

LEMMA WriteRowParts ==
    ASSUME PInv, IInv', NEW f \in Files, WriteRow(f) PROVE PParts'
<1>0. PParts /\ IInv
  BY DEF PInv
<1>1. /\ pc = "writing" /\ pc' = "writing" /\ f \in run.left
      /\ Execute([db EXCEPT !.rows = Written(@, {f}), !.hasRepos = TRUE])
      /\ run' = [run EXCEPT !.left = @ \ {f}]
  BY DEF WriteRow
<1>2. /\ db' = [db EXCEPT !.rows = Written(@, {f}), !.hasRepos = TRUE]
      /\ saved' = saved \/ saved' = db'
      /\ Transactional => saved' = saved
  BY <1>0, <1>1, Executed DEF IInv, Execute, TxSteps
<1>3. /\ db'.docs = db.docs /\ db'.state = db.state /\ db'.hasRepos = TRUE
      /\ db'.rows = Written(db.rows, {f})
  BY <1>0, <1>2, Types DEF Database
<1>4. \A g \in Files : db'.rows[g] = IF g = f THEN Own ELSE db.rows[g]
  BY <1>3 DEF Written, Own
<1>5. /\ run'.left = run.left \ {f} /\ run'.parsed = run.parsed /\ run'.present = run.present
      /\ run'.writer = run.writer /\ run'.batch = run.batch /\ Own' = Own
      /\ run.left \subseteq Files /\ run.parsed \subseteq Files
  BY <1>0, <1>1, Types DEF RunType, Own, Current
<1>6. run.left \subseteq run.parsed /\ f \in run.parsed
  BY <1>0, <1>1 DEF PParts, Landed
<1>7. TablesKnown'
  BY <1>0, <1>2, <1>3 DEF PParts, TablesKnown
<1>8. CopyPlanned' /\ RecoversSaved'
  BY <1>1 DEF CopyPlanned, RecoversSaved
<1>9. CopyNeedsEmptyTable'
  BY <1>0, <1>1, <1>4, <1>5 DEF PParts, CopyNeedsEmptyTable
<1>10. Landed'
  BY <1>0, <1>1, <1>4, <1>5, <1>6 DEF PParts, Landed
<1>11. OutcomeKnown' /\ Published(db)' /\ Published(saved)'
  BY <1>1, <1>2, <1>3, <1>5, BatchOutcome
<1>12. Isolated'
  BY <1>1, <1>2, <1>3, <1>4, <1>5, <1>6, BatchIsolated
<1> QED
  BY <1>7, <1>8, <1>9, <1>10, <1>11, <1>12 DEF PParts

LEMMA GraphWrittenParts == ASSUME PInv, IInv', GraphWritten PROVE PParts'
<1>0. PParts /\ IInv
  BY DEF PInv
<1>1. /\ pc = "writing" /\ pc' = "lexical" /\ run.left = {}
      /\ Execute([db EXCEPT !.hasRepos = TRUE])
      /\ run' = [run EXCEPT !.graphWritten = TRUE]
  BY DEF GraphWritten, Goto
<1>2. /\ db' = [db EXCEPT !.hasRepos = TRUE]
      /\ saved' = saved \/ saved' = db'
      /\ Transactional => saved' = saved
  BY <1>0, <1>1, Executed DEF IInv, Execute, TxSteps
<1>3. /\ db'.rows = db.rows /\ db'.docs = db.docs /\ db'.state = db.state
      /\ db'.hasRepos = TRUE
  BY <1>0, <1>2, Types DEF Database
<1>4. /\ run'.parsed = run.parsed /\ run'.present = run.present
      /\ run'.batch = run.batch /\ Own' = Own /\ run.parsed \subseteq Files
  BY <1>0, <1>1, Types DEF RunType, Own, Current
<1>5. TablesKnown'
  BY <1>0, <1>2, <1>3 DEF PParts, TablesKnown
<1>6. CopyPlanned' /\ RecoversSaved' /\ CopyNeedsEmptyTable'
  BY <1>1 DEF CopyPlanned, RecoversSaved, CopyNeedsEmptyTable
<1>7. Landed'
  BY <1>0, <1>1, <1>3, <1>4 DEF PParts, Landed
<1>8. OutcomeKnown' /\ Published(db)' /\ Published(saved)'
  BY <1>1, <1>2, <1>3, <1>4, BatchOutcome
<1>9. Isolated'
  BY <1>1, <1>2, <1>3, <1>4, BatchIsolated
<1> QED
  BY <1>5, <1>6, <1>7, <1>8, <1>9 DEF PParts

\* The steps after the graph is written, which leave the run alone: the facts
\* of the files it has parsed are as it left them.
LEMMA BatchParts ==
    ASSUME PInv, IInv', UNCHANGED run,
           pc \notin {"idle", "commit", "rollback"},
           pc' \in {"reconciling", "journal", "stale", "state"},
           db'.hasRepos = db.hasRepos, db'.state = db.state,
           saved' = saved \/ saved' = db', Transactional => saved' = saved,
           \A f \in Files : db.rows[f] = Absent => db'.rows[f] = Absent,
           \A f \in run.parsed : db'.rows[f] = Own /\ db'.docs[f] = Own,
           \A f \in Files :
               /\ db'.rows[f] = db.rows[f] \/ ~db'.rows[f].active
                  \/ (f \in run.parsed /\ db'.rows[f] = Own)
               /\ db'.docs[f] = db.docs[f] \/ ~db'.docs[f].active
                  \/ (f \in run.parsed /\ db'.docs[f] = Own)
    PROVE  PParts'
<1>0. PParts /\ IInv /\ Own' = Own
  BY DEF PInv, Own, Current
<1>1. TablesKnown'
  BY <1>0 DEF PParts, TablesKnown
<1>2. CopyPlanned' /\ RecoversSaved' /\ CopyNeedsEmptyTable' /\ Landed'
  BY <1>0 DEF PParts, CopyPlanned, RecoversSaved, CopyNeedsEmptyTable, Landed
<1>3. OutcomeKnown' /\ Published(db)' /\ Published(saved)'
  BY BatchOutcome
<1>4. Isolated'
  BY BatchIsolated
<1> QED
  BY <1>1, <1>2, <1>3, <1>4 DEF PParts

LEMMA WriteDocsParts == ASSUME PInv, IInv', WriteDocs PROVE PParts'
<1>0. PParts /\ IInv
  BY DEF PInv
<1>1. /\ pc = "lexical" /\ pc' = "reconciling" /\ UNCHANGED run
      /\ Execute([db EXCEPT !.docs = Written(@, run.parsed)])
  BY DEF WriteDocs, Goto
<1>2. /\ db' = [db EXCEPT !.docs = Written(@, run.parsed)]
      /\ saved' = saved \/ saved' = db'
      /\ Transactional => saved' = saved
  BY <1>0, <1>1, Executed DEF IInv, Execute, TxSteps
<1>3. /\ db'.rows = db.rows /\ db'.state = db.state /\ db'.hasRepos = db.hasRepos
      /\ db'.docs = Written(db.docs, run.parsed)
  BY <1>0, <1>2, Types DEF Database
<1>4. \A g \in Files : db'.docs[g] = IF g \in run.parsed THEN Own ELSE db.docs[g]
  BY <1>3 DEF Written, Own
<1>5. run.parsed \subseteq Files /\ \A f \in run.parsed : db.rows[f] = Own
  BY <1>0, <1>1, Types DEF RunType, PParts, Landed
<1> QED
  BY <1>1, <1>2, <1>3, <1>4, <1>5, BatchParts

LEMMA ReconcileParts == ASSUME PInv, IInv', Reconcile PROVE PParts'
<1>0. PParts /\ IInv
  BY DEF PInv
<1>1. /\ pc = "reconciling" /\ pc' = "journal" /\ UNCHANGED run
      /\ Execute([db EXCEPT !.docs = Reconciled(@)])
  BY DEF Reconcile, Goto
<1>2. /\ db' = [db EXCEPT !.docs = Reconciled(@)]
      /\ saved' = saved \/ saved' = db'
      /\ Transactional => saved' = saved
  BY <1>0, <1>1, Executed DEF IInv, Execute, TxSteps
<1>3. /\ db'.rows = db.rows /\ db'.state = db.state /\ db'.hasRepos = db.hasRepos
      /\ db'.docs = Reconciled(db.docs)
  BY <1>0, <1>2, Types DEF Database
<1>4. /\ run.parsed \subseteq Files /\ run.parsed \subseteq run.present
      /\ \A f \in run.parsed : db.rows[f] = Own /\ db.docs[f] = Own
  BY <1>0, <1>1, Types DEF RunType, PParts, Landed
<1>5. \A f \in run.parsed : db'.docs[f] = db.docs[f]
  BY <1>0, <1>3, <1>4, Types, ReconciledFacts
<1>6. \A f \in Files : db'.docs[f] = db.docs[f] \/ ~db'.docs[f].active
  BY <1>3 DEF Reconciled
<1> QED
  BY <1>1, <1>2, <1>3, <1>4, <1>5, <1>6, BatchParts

LEMMA CommitJournalParts == ASSUME PInv, IInv', CommitJournal PROVE PParts'
<1>0. PParts /\ IInv
  BY DEF PInv
<1>1. /\ pc = "journal" /\ pc' \in {"stale", "state"} /\ UNCHANGED run
      /\ Execute([db EXCEPT !.journal[Current] = "committed"])
  BY DEF CommitJournal, Goto
<1>2. /\ db' = [db EXCEPT !.journal[Current] = "committed"]
      /\ saved' = saved \/ saved' = db'
      /\ Transactional => saved' = saved
  BY <1>0, <1>1, Executed DEF IInv, Execute, TxSteps
<1>3. /\ db'.rows = db.rows /\ db'.docs = db.docs
      /\ db'.state = db.state /\ db'.hasRepos = db.hasRepos
  BY <1>0, <1>2, Types DEF Database
<1>4. \A f \in run.parsed : db.rows[f] = Own /\ db.docs[f] = Own
  BY <1>0, <1>1 DEF PParts, Landed
<1> QED
  BY <1>1, <1>2, <1>3, <1>4, BatchParts

LEMMA MarkStaleParts == ASSUME PInv, IInv', MarkStale PROVE PParts'
<1>0. PParts /\ IInv
  BY DEF PInv
<1>1. /\ pc = "stale" /\ pc' = "state" /\ UNCHANGED run
      /\ Execute([db EXCEPT !.rows = WithoutGone(@)])
  BY DEF MarkStale, Goto
<1>2. /\ db' = [db EXCEPT !.rows = WithoutGone(@)]
      /\ saved' = saved \/ saved' = db'
      /\ Transactional => saved' = saved
  BY <1>0, <1>1, Executed DEF IInv, Execute, TxSteps
<1>3. /\ db'.docs = db.docs /\ db'.state = db.state /\ db'.hasRepos = db.hasRepos
      /\ db'.rows = WithoutGone(db.rows)
  BY <1>0, <1>2, Types DEF Database
<1>4. /\ run.parsed \subseteq Files /\ run.parsed \subseteq run.present
      /\ \A f \in run.parsed : db.rows[f] = Own /\ db.docs[f] = Own
  BY <1>0, <1>1, Types DEF RunType, PParts, Landed
<1>5. \A f \in Files : /\ f \in run.present => db'.rows[f] = db.rows[f]
                       /\ db'.rows[f].active => db'.rows[f] = db.rows[f]
  BY <1>0, <1>3, Types, WithoutGoneFacts
<1>6. \A f \in Files : db.rows[f] = Absent => db'.rows[f] = Absent
  BY <1>3 DEF WithoutGone, Absent
<1> QED
  BY <1>1, <1>2, <1>3, <1>4, <1>5, <1>6, BatchParts

LEMMA SaveStateParts == ASSUME PInv, IInv', SaveState PROVE PParts'
<1>0. PParts /\ IInv
  BY DEF PInv
<1>1. /\ pc = "state" /\ pc' = "commit" /\ UNCHANGED run
      /\ Execute([db EXCEPT !.state = [status |-> "succeeded", batch |-> Current]])
  BY DEF SaveState, Goto
<1>2. /\ db' = [db EXCEPT !.state = [status |-> "succeeded", batch |-> Current]]
      /\ \/ Transactional /\ saved' = saved
         \/ saved = db /\ saved' = db' /\ ~Transactional
  BY <1>0, <1>1, Executed DEF IInv, Execute, TxSteps
<1>3. /\ db'.rows = db.rows /\ db'.docs = db.docs /\ db'.journal = db.journal
      /\ db'.state = [status |-> "succeeded", batch |-> Current]
      /\ db'.hasRepos = db.hasRepos
  BY <1>0, <1>2, Types DEF Database
<1>4. Own' = Own /\ Current' = Current
  BY <1>1 DEF Own, Current
<1>5. TablesKnown'
  BY <1>0, <1>2, <1>3 DEF PParts, TablesKnown
<1>6. CopyPlanned' /\ RecoversSaved' /\ CopyNeedsEmptyTable' /\ Landed'
  BY <1>0, <1>1, <1>3, <1>4
     DEF PParts, CopyPlanned, RecoversSaved, CopyNeedsEmptyTable, Landed
<1>7. Current \in Nat /\ saved.state.batch \in Nat
  BY <1>0, Types
<1>8. OutcomeKnown'
  <2>1. db'.state.batch = Current
    BY <1>3
  <2>3. saved' = saved \/ saved' = db'
    BY <1>2
  <2>2. saved.state.batch < Current /\ (Transactional => saved' = saved)
    BY <1>0, <1>1, <1>2 DEF PParts, OutcomeKnown
  <2> QED
    BY <2>1, <2>2, <2>3, <1>1, <1>3, <1>4, <1>7 DEF OutcomeKnown
<1>9. Published(db)'
  BY <1>0, <1>1, <1>3, <1>4 DEF PParts, Landed, Published, IInv, OwnJournal, BatchClosed
<1>10. Published(saved)'
  BY <1>0, <1>1, <1>2, <1>4, <1>9 DEF PParts, Published
<1>11. Isolated'
  BY <1>1, <1>2, <1>3, BatchIsolated
<1> QED
  BY <1>5, <1>6, <1>8, <1>9, <1>10, <1>11 DEF PParts

LEMMA CommitParts == ASSUME PInv, IInv', Commit PROVE PParts'
<1>0. PParts /\ IInv
  BY DEF PInv
<1>1. pc = "commit" /\ pc' = "idle" /\ UNCHANGED <<db, run>> /\ saved' = db
  BY DEF Commit, Goto
<1>2. Own' = Own /\ Current' = Current /\ Current \in Nat
  BY <1>0, <1>1, Types DEF Own, Current
<1>3. TablesKnown' /\ CopyPlanned' /\ RecoversSaved' /\ CopyNeedsEmptyTable' /\ Landed'
  BY <1>0, <1>1, <1>2
     DEF PParts, TablesKnown, CopyPlanned, RecoversSaved, CopyNeedsEmptyTable, Landed
<1>4. OutcomeKnown' /\ Published(db)' /\ Published(saved)'
  BY <1>0, <1>1, <1>2 DEF PParts, OutcomeKnown, Published
<1>5. Isolated'
  <2> SUFFICES ASSUME Transactional, NEW f \in Files
               PROVE  /\ FromSaved(db.rows[f], db.rows[f], f)'
                      /\ FromSaved(db.docs[f], db.docs[f], f)'
                      /\ db.rows[f].active => db.rows[f].batch <= Current
    BY <1>1, <1>2 DEF Isolated
  <2>1. db.rows[f].active => db.rows[f] = saved.rows[f] \/ db.rows[f] = Own
    BY <1>0 DEF PParts, Isolated, FromSaved
  <2>2. saved.rows[f].active => saved.rows[f].batch <= Current
    BY <1>0 DEF PParts, Isolated
  <2>3. Own.batch = Current
    BY DEF Own
  <2> QED
    BY <2>1, <2>2, <2>3, <1>1, <1>2 DEF FromSaved
<1> QED
  BY <1>3, <1>4, <1>5 DEF PParts

LEMMA WritingParts == ASSUME PInv, IInv', Writing PROVE PParts'
<1>1. CASE \E o \in Options : StartRun(o)
  BY <1>1, StartRunParts
<1>2. CASE \E present, parsed \in SUBSET Files : Scan(present, parsed)
  BY <1>2, ScanParts
<1>3. CASE Recovered
  BY <1>3, QuietParts DEF Recovered, Goto
<1>4. CASE BeginBatch \/ Clear \/ GraphWritten \/ WriteDocs \/ Reconcile \/ CommitJournal
           \/ MarkStale \/ SaveState \/ Commit
  BY <1>4, BeginBatchParts, ClearParts, GraphWrittenParts, WriteDocsParts, ReconcileParts,
     CommitJournalParts, MarkStaleParts, SaveStateParts, CommitParts
<1>5. CASE \E f \in Files : WriteRow(f)
  BY <1>5, WriteRowParts
<1> QED
  BY <1>1, <1>2, <1>3, <1>4, <1>5 DEF Writing

-----------------------------------------------------------------------------
(***************************************************************************)
(* Failures, and recovery from them.                                       *)
(***************************************************************************)
\* A cleanup hides facts of one batch, in a transaction or out of it, and
\* records nothing.
LEMMA CleanupParts ==
    ASSUME PInv, IInv', UNCHANGED run,
           pc \in {"recovering", "failing", "cleaning"},
           pc' \in {"recovering", "retrying", "rollback", "recording", "idle"},
           pc' = "recovering" => pc = "recovering" /\ saved' = db',
           pc' = "idle" => pc = "cleaning",
           db'.hasRepos = db.hasRepos, db'.state = db.state,
           saved' = saved \/ saved' = db',
           NEW b, NEW rowsLeft, NEW docsLeft,
           db'.rows = Deactivated(db.rows, b, rowsLeft),
           db'.docs \in {db.docs, Deactivated(db.docs, b, docsLeft)},
           Transactional => saved'.rows = saved.rows /\ saved'.docs = saved.docs
    PROVE  PParts'
<1>0. PParts /\ IInv /\ Own' = Own /\ Current' = Current
  BY DEF PInv, Own, Current
<1>1. \A f \in Files : /\ db.rows[f] = Absent => db'.rows[f] = Absent
                       /\ db'.rows[f] = db.rows[f] \/ ~db'.rows[f].active
                       /\ db'.docs[f] = db.docs[f] \/ ~db'.docs[f].active
  BY <1>0 DEF Deactivated, Of, Absent
<1>2. TablesKnown'
  BY <1>0, <1>1 DEF PParts, TablesKnown
<1>3. CopyPlanned' /\ CopyNeedsEmptyTable' /\ RecoversSaved' /\ Landed'
  BY <1>0 DEF PParts, CopyPlanned, CopyNeedsEmptyTable, RecoversSaved, Landed
<1>4. OutcomeKnown'
  BY <1>0 DEF PParts, OutcomeKnown
<1>5. Published(db)' /\ Published(saved)'
  <2>1. /\ db.state.batch \in Nat /\ saved.state.batch \in Nat /\ Current \in Nat
        /\ db.state.batch < Current /\ saved.state.batch < Current
    BY <1>0, Types DEF PParts, OutcomeKnown
  <2> QED
    BY <2>1, <1>0 DEF Published
<1>6. Isolated'
  BY <1>0, <1>1 DEF PParts, Isolated, FromSaved
<1> QED
  BY <1>2, <1>3, <1>4, <1>5, <1>6 DEF PParts

LEMMA RecoveringParts == ASSUME PInv, IInv', Recovering PROVE PParts'
<1>0. PParts /\ IInv /\ pc = "recovering" /\ saved = db /\ run' = run
  BY DEF PInv, PParts, RecoversSaved, Recovering, Recover, RecoverFails
<1>1. PICK b \in Batches :
        \/ Recover(b)
        \/ \E rowsLeft, docsLeft \in SUBSET Files, status \in Incomplete :
               RecoverFails(b, rowsLeft, docsLeft, status)
  BY DEF Recovering
<1>2. db.journal[b] \in Incomplete
  BY <1>1 DEF Recover, RecoverFails
<1>3. ~Transactional
  BY <1>0, <1>2 DEF IInv, NothingToRecover
<1>4. CASE Recover(b)
  <2>1. /\ Execute([db EXCEPT !.rows = Deactivated(@, b, {}),
                              !.docs = Deactivated(@, b, {}), !.journal[b] = "recovered"])
        /\ pc' = pc
    BY <1>4 DEF Recover
  <2>2. db' = [db EXCEPT !.rows = Deactivated(@, b, {}), !.docs = Deactivated(@, b, {}),
                         !.journal[b] = "recovered"] /\ saved' = db'
    BY <2>1, <1>0, <1>3, Executed DEF IInv
  <2>3. /\ db'.rows = Deactivated(db.rows, b, {}) /\ db'.docs = Deactivated(db.docs, b, {})
        /\ db'.state = db.state /\ db'.hasRepos = db.hasRepos
    BY <2>2, <1>0, Types DEF Database
  <2> QED
    BY <2>1, <2>2, <2>3, <1>0, <1>3, CleanupParts
<1>5. CASE \E rowsLeft, docsLeft \in SUBSET Files, status \in Incomplete :
               RecoverFails(b, rowsLeft, docsLeft, status)
  <2>0. PICK rowsLeft \in SUBSET Files, docsLeft \in SUBSET Files, status \in Incomplete :
            RecoverFails(b, rowsLeft, docsLeft, status)
    BY <1>5
  <2>1. /\ Execute([db EXCEPT !.rows = Deactivated(@, b, rowsLeft),
                              !.docs = Deactivated(@, b, docsLeft), !.journal[b] = status])
        /\ pc' = "rollback"
    BY <2>0 DEF RecoverFails, Goto
  <2>2. db' = [db EXCEPT !.rows = Deactivated(@, b, rowsLeft),
                         !.docs = Deactivated(@, b, docsLeft),
                         !.journal[b] = status] /\ saved' = db'
    BY <2>1, <1>0, <1>3, Executed DEF IInv
  <2>3. /\ db'.rows = Deactivated(db.rows, b, rowsLeft)
        /\ db'.docs = Deactivated(db.docs, b, docsLeft)
        /\ db'.state = db.state /\ db'.hasRepos = db.hasRepos
    BY <2>2, <1>0, Types DEF Database
  <2> QED
    BY <2>1, <2>2, <2>3, <1>0, <1>3, CleanupParts
<1> QED
  BY <1>1, <1>4, <1>5

LEMMA CleanUpBatchParts ==
    ASSUME PInv, IInv', NEW rowsLeft, NEW docsLeft, NEW status,
           pc = "failing", pc' \in {"retrying", "rollback"}, UNCHANGED run,
           Execute([db EXCEPT !.rows = Deactivated(@, Current, rowsLeft),
                              !.docs = Deactivated(@, Current, docsLeft),
                              !.journal[Current] = status])
    PROVE  PParts'
<1>0. PParts /\ IInv
  BY DEF PInv
<1>1. /\ db' = [db EXCEPT !.rows = Deactivated(@, Current, rowsLeft),
                          !.docs = Deactivated(@, Current, docsLeft),
                          !.journal[Current] = status]
      /\ saved' = saved \/ saved' = db'
      /\ Transactional => saved' = saved
  BY <1>0, Executed DEF IInv, Execute, TxSteps
<1>2. /\ db'.rows = Deactivated(db.rows, Current, rowsLeft)
      /\ db'.docs = Deactivated(db.docs, Current, docsLeft)
      /\ db'.state = db.state /\ db'.hasRepos = db.hasRepos
  BY <1>1, <1>0, Types DEF Database
<1> QED
  BY <1>1, <1>2, CleanupParts

\* The cleanup after a rollback finds nothing: of this run nothing was saved.
LEMMA NothingToClean ==
    ASSUME PInv, Transactional, pc = "cleaning", NEW left
    PROVE  Deactivated(db.rows, Current, left) = db.rows
<1>1. saved = db /\ db.rows \in [Files -> Fact] /\ Current \in Nat
  BY Types DEF PInv, IInv, Settled, TxSteps
<1>2. \A f \in Files : db.rows[f].active => db.rows[f].batch < Current
  BY <1>1 DEF PInv, PParts, Isolated
<1>3. \A f \in Files : db.rows[f].batch \in Nat
  BY <1>1 DEF Fact
<1>4. Of(db.rows, Current) = {}
  BY <1>1, <1>2, <1>3 DEF Of
<1> QED
  BY <1>1, <1>4 DEF Deactivated

LEMMA CleanAfterFailureParts ==
    ASSUME PInv, IInv', NEW rowsLeft \in SUBSET Files, CleanAfterFailure(rowsLeft)
    PROVE  PParts'
<1>0. PParts /\ IInv
  BY DEF PInv
<1>1. /\ pc = "cleaning" /\ pc' \in {"recording", "idle"} /\ UNCHANGED run
      /\ Execute([db EXCEPT !.rows = Deactivated(@, Current, rowsLeft)])
  BY DEF CleanAfterFailure, Goto
<1>2. /\ db' = [db EXCEPT !.rows = Deactivated(@, Current, rowsLeft)]
      /\ saved = db /\ saved' = db'
  BY <1>0, <1>1, Executed DEF IInv, TxSteps
<1>3. /\ db'.rows = Deactivated(db.rows, Current, rowsLeft)
      /\ db'.docs = db.docs
      /\ db'.state = db.state /\ db'.hasRepos = db.hasRepos
  BY <1>2, <1>0, Types DEF Database
<1>4. Transactional => db'.rows = db.rows
  BY <1>1, <1>3, NothingToClean
<1> QED
  BY <1>1, <1>2, <1>3, <1>4, CleanupParts

LEMMA RecordFailureParts == ASSUME PInv, IInv', RecordFailure PROVE PParts'
<1>0. PParts /\ IInv
  BY DEF PInv
<1>1. /\ pc = "recording" /\ pc' = "idle" /\ UNCHANGED run
      /\ Execute([db EXCEPT !.state = [status |-> "failed", batch |-> Current]])
  BY DEF RecordFailure, Goto
<1>2. /\ db' = [db EXCEPT !.state = [status |-> "failed", batch |-> Current]]
      /\ saved = db /\ saved' = db'
  BY <1>0, <1>1, Executed DEF IInv, TxSteps
<1>3. /\ db'.rows = db.rows /\ db'.docs = db.docs
      /\ db'.state = [status |-> "failed", batch |-> Current]
      /\ db'.hasRepos = db.hasRepos
  BY <1>0, <1>2, Types DEF Database
<1>4. Own' = Own /\ Current' = Current /\ Current \in Nat
  BY <1>0, <1>1, Types DEF Own, Current
<1>5. TablesKnown'
  BY <1>0, <1>2, <1>3 DEF PParts, TablesKnown
<1>6. CopyPlanned' /\ RecoversSaved' /\ CopyNeedsEmptyTable' /\ Landed'
  BY <1>0, <1>1 DEF PParts, CopyPlanned, RecoversSaved, CopyNeedsEmptyTable, Landed
<1>7. OutcomeKnown' /\ Published(db)' /\ Published(saved)'
  <2>1. db'.state.status = "failed" /\ db'.state.batch = Current
    BY <1>3
  <2> QED
    BY <2>1, <1>1, <1>2, <1>4 DEF OutcomeKnown, Published
<1>8. Isolated'
  BY <1>0, <1>1, <1>2, <1>3, <1>4 DEF PParts, Isolated, FromSaved
<1> QED
  BY <1>5, <1>6, <1>7, <1>8 DEF PParts

\* A rollback and a restart go on with what was saved.
LEMMA BackToSaved ==
    ASSUME PInv, IInv', UNCHANGED <<saved, run>>, pc # "idle",
           pc' = "idle" \/ (pc = "rollback" /\ pc' = "cleaning"),
           db' = saved \/ (db' = db /\ ~Transactional)
    PROVE  PParts'
<1>0. PParts /\ IInv
  BY DEF PInv
<1>1. Own' = Own /\ Current' = Current /\ Current \in Nat
  BY <1>0, Types DEF Own, Current
<1>2. db' = saved
  BY <1>0 DEF IInv, Settled
<1>3. TablesKnown' /\ CopyPlanned' /\ RecoversSaved' /\ CopyNeedsEmptyTable'
  BY <1>0, <1>1, <1>2 DEF PParts, TablesKnown, CopyPlanned, RecoversSaved, CopyNeedsEmptyTable
<1>4. Landed'
  BY <1>0, <1>1 DEF PParts, Landed
<1>5. Published(db)' /\ Published(saved)'
  BY <1>0, <1>1, <1>2 DEF PParts, Published
<1>7. Isolated'
  BY <1>0, <1>1, <1>2 DEF PParts, Isolated, FromSaved
<1>8. OutcomeKnown'
  BY <1>0, <1>1, <1>2 DEF PParts, OutcomeKnown
<1> QED
  BY <1>3, <1>4, <1>5, <1>7, <1>8 DEF PParts

LEMMA FailingParts == ASSUME PInv, IInv', Failing PROVE PParts'
<1>1. CASE Throw \/ ThrowInBatch \/ RecordFails
  <2>1. /\ UNCHANGED <<db, saved, run>>
        /\ pc \notin {"idle", "rollback"}
        /\ pc' \in {"failing", "rollback", "cleaning", "idle"}
        /\ pc = "commit" => pc' = "rollback" /\ Transactional
    BY <1>1 DEF Throw, ThrowInBatch, RecordFails, Goto
  <2> QED
    BY <2>1, QuietParts
<1>2. CASE CleanUpBatch
  <2>1. /\ pc = "failing" /\ pc' \in {"retrying", "rollback"} /\ UNCHANGED run
        /\ Execute([db EXCEPT !.rows = Deactivated(@, Current, {}),
                              !.docs = Deactivated(@, Current, {}),
                              !.journal[Current] = "failed"])
    BY <1>2 DEF CleanUpBatch, AfterCleanup, Goto
  <2> QED
    BY <2>1, CleanUpBatchParts
<1>3. CASE \E rowsLeft, docsLeft \in SUBSET Files, status \in Incomplete :
               CleanUpBatchFails(rowsLeft, docsLeft, status)
  <2>1. PICK rowsLeft \in SUBSET Files, docsLeft \in SUBSET Files, status \in Incomplete :
            CleanUpBatchFails(rowsLeft, docsLeft, status)
    BY <1>3
  <2>2. /\ pc = "failing" /\ pc' \in {"retrying", "rollback"} /\ UNCHANGED run
        /\ Execute([db EXCEPT !.rows = Deactivated(@, Current, rowsLeft),
                              !.docs = Deactivated(@, Current, docsLeft),
                              !.journal[Current] = status])
    BY <2>1 DEF CleanUpBatchFails, AfterCleanup, Goto
  <2> QED
    BY <2>2, CleanUpBatchParts
<1>4. CASE Rollback \/ Crash
  <2>1. /\ UNCHANGED <<saved, run>> /\ pc # "idle"
        /\ pc' = "idle" \/ (pc = "rollback" /\ pc' = "cleaning")
        /\ db' = saved \/ (db' = db /\ ~Transactional)
    BY <1>4 DEF Rollback, Crash, Goto
  <2> QED
    BY <2>1, BackToSaved
<1>5. CASE \E rowsLeft \in SUBSET Files : CleanAfterFailure(rowsLeft)
  BY <1>5, CleanAfterFailureParts
<1>6. CASE RecordFailure
  BY <1>6, RecordFailureParts
<1> QED
  BY <1>1, <1>2, <1>3, <1>4, <1>5, <1>6 DEF Failing

LEMMA PInvStep == ASSUME PInv, [Next]_vars PROVE PInv'
<1>1. IInv'
  BY IInvStep DEF PInv
<1>2. CASE UNCHANGED vars
  <2>1. PParts /\ UNCHANGED vars
    BY <1>2 DEF PInv
  <2>2. Own' = Own /\ Current' = Current
    BY <2>1 DEF vars, Own, Current
  <2>3. TablesKnown' /\ CopyPlanned' /\ CopyNeedsEmptyTable' /\ Landed' /\ RecoversSaved'
    BY <2>1, <2>2
       DEF vars, PParts, TablesKnown, CopyPlanned, CopyNeedsEmptyTable, Landed, RecoversSaved
  <2>4. OutcomeKnown' /\ Published(db)' /\ Published(saved)'
    BY <2>1, <2>2 DEF vars, PParts, OutcomeKnown, Published
  <2>5. Isolated'
    BY <2>1, <2>2 DEF vars, PParts, Isolated, FromSaved
  <2> QED
    BY <2>3, <2>4, <2>5, <1>1 DEF PInv, PParts
<1>3. CASE Next
  BY <1>1, <1>3, WritingParts, FailingParts, RecoveringParts DEF Next, PInv
<1> QED
  BY <1>2, <1>3

LEMMA PublicationInvariance == Spec => []PInv
<1>1. Init => PInv
  BY InitPInv
<1>2. PInv /\ [Next]_vars => PInv'
  BY PInvStep
<1> QED
  BY <1>1, <1>2, PTL DEF Spec

-----------------------------------------------------------------------------
(***************************************************************************)
(* The theorems.                                                           *)
(***************************************************************************)
\* The writers that copy never meet a row, and a run recorded as succeeded has
\* published everything it parsed, in the graph and in the lexical index:
\* whichever writer it began with, and whatever failed on the way.
THEOREM EveryWriteLands == Spec => []WritesLand
<1>1. PInv => WritesLand
  <2> SUFFICES ASSUME PInv PROVE CopyNeedsEmptyTable /\ SucceededMeansPublished
    BY DEF WritesLand
  <2>1. CopyNeedsEmptyTable /\ Published(saved)
    BY DEF PInv, PParts
  <2> QED
    BY <2>1 DEF Published, SucceededMeansPublished, Succeeded, Own
<1> QED
  BY <1>1, PublicationInvariance, PTL

\* Whatever happens while a run recovers, the facts and documents of committed
\* batches stay: what it hides belongs to batches that were left incomplete,
\* and a process that dies meanwhile leaves nothing behind it.
THEOREM RecoveryIsCareful == Spec => RecoverySparesCommitted
<1>1. ASSUME PInv, [Next]_vars, pc = "recovering", NEW f \in Files
      PROVE  /\ db.rows[f].active /\ db.journal[db.rows[f].batch] = "committed"
                    => db'.rows[f] = db.rows[f]
             /\ db.docs[f].active /\ db.journal[db.docs[f].batch] = "committed"
                    => db'.docs[f] = db.docs[f]
  <2>0. /\ IInv /\ saved = db /\ db \in Database
        /\ db.rows \in [Files -> Fact] /\ db.docs \in [Files -> Fact]
    BY <1>1, Types DEF PInv, PParts, RecoversSaved
  <2>1. CASE UNCHANGED vars
    BY <2>1 DEF vars
  <2>2. CASE Recovering
    <3>1. PICK b \in Batches, rowsLeft \in SUBSET Files, docsLeft \in SUBSET Files,
               status \in JournalStatus :
              /\ db.journal[b] \in Incomplete
              /\ Execute([db EXCEPT !.rows = Deactivated(@, b, rowsLeft),
                                    !.docs = Deactivated(@, b, docsLeft),
                                    !.journal[b] = status])
      <4>1. CASE \E b \in Batches : Recover(b)
        <5>1. {} \in SUBSET Files /\ "recovered" \in JournalStatus
          BY DEF JournalStatus
        <5> QED
          BY <4>1, <5>1 DEF Recover
      <4>2. CASE \E b \in Batches : \E rowsLeft, docsLeft \in SUBSET Files, status \in Incomplete :
                   RecoverFails(b, rowsLeft, docsLeft, status)
        <5>1. Incomplete \subseteq JournalStatus
          BY DEF JournalStatus
        <5> QED
          BY <4>2, <5>1 DEF RecoverFails
      <4> QED
        BY <2>2, <4>1, <4>2 DEF Recovering
    <3>2. /\ db'.rows = Deactivated(db.rows, b, rowsLeft)
          /\ db'.docs = Deactivated(db.docs, b, docsLeft)
      BY <3>1, <2>0 DEF Execute, Database
    <3>3. db.journal[b] # "committed"
      BY <3>1 DEF Incomplete
    <3>4. /\ db.rows[f].batch # b => db'.rows[f] = db.rows[f]
          /\ db.docs[f].batch # b => db'.docs[f] = db.docs[f]
      BY <3>2, <2>0, DeactivatedFacts
    <3> QED
      BY <3>3, <3>4
  <2>3. CASE Writing \/ Failing
    <3>1. db' = db
      BY <2>3, <2>0, <1>1
         DEF Writing, StartRun, Scan, Recovered, BeginBatch, Clear, WriteRow, GraphWritten,
             WriteDocs, Reconcile, CommitJournal, MarkStale, SaveState, Commit,
             Failing, Throw, ThrowInBatch, CleanUpBatch, CleanUpBatchFails, Rollback,
             CleanAfterFailure, RecordFailure, RecordFails, Crash
    <3> QED
      BY <3>1
  <2> QED
    BY <1>1, <2>1, <2>2, <2>3 DEF Next
<1>2. PInv /\ [Next]_vars =>
        [pc = "recovering" => \A f \in Files :
           /\ db.rows[f].active /\ db.journal[db.rows[f].batch] = "committed"
                  => db'.rows[f] = db.rows[f]
           /\ db.docs[f].active /\ db.journal[db.docs[f].batch] = "committed"
                  => db'.docs[f] = db.docs[f]]_vars
  BY <1>1
<1> QED
  BY <1>2, PublicationInvariance, PTL DEF Spec, RecoverySparesCommitted

-----------------------------------------------------------------------------
(***************************************************************************)
(* The refinement of AtomicIndex.                                          *)
(***************************************************************************)
\* Who reads the saved database meanwhile.
Seen == <<Visible(saved.rows), Visible(saved.docs), saved.state>>

LEMMA SeenAtFirst == Init => Atomic!Init
<1> SUFFICES ASSUME Init PROVE Atomic!Init
  OBVIOUS
<1>1. /\ saved.rows = [f \in Files |-> Absent] /\ saved.docs = [f \in Files |-> Absent]
      /\ saved.state = [status |-> "none", batch |-> 0]
  BY DEF Init
<1>2. Visible(saved.rows) = [f \in Files |-> 0] /\ Visible(saved.docs) = [f \in Files |-> 0]
  BY <1>1 DEF Visible, Absent
<1> QED
  BY <1>1, <1>2 DEF Atomic!Init

\* The COMMIT publishes all that its run has parsed, and hides the rest of what
\* it has changed.
LEMMA CommitPublishes ==
    ASSUME PInv, Transactional, Commit PROVE Atomic!Publish(Current)
<1> DEFINE hidden(facts) == {f \in Files : ~facts[f].active}
<1>0. /\ pc = "commit" /\ saved' = db /\ PParts
      /\ run.parsed \subseteq Files /\ Current \in Batches
  BY Types DEF PInv, Commit, RunType
<1>1. \A f \in run.parsed : db.rows[f] = Own /\ db.docs[f] = Own
  BY <1>0 DEF PParts, Landed
<1>2. \A f \in Files : /\ FromSaved(db.rows[f], saved.rows[f], f)
                       /\ FromSaved(db.docs[f], saved.docs[f], f)
  BY <1>0 DEF PParts, Isolated
<1>3. Own.batch = Current /\ Own.active
  BY DEF Own
<1>4. ASSUME NEW f \in Files
      PROVE  /\ Visible(db.rows)[f] = IF f \in run.parsed THEN Current
                                      ELSE IF f \in hidden(db.rows) THEN 0
                                      ELSE Visible(saved.rows)[f]
             /\ Visible(db.docs)[f] = IF f \in run.parsed THEN Current
                                      ELSE IF f \in hidden(db.docs) THEN 0
                                      ELSE Visible(saved.docs)[f]
  BY <1>1, <1>2, <1>3, <1>4 DEF Visible, FromSaved
<1>5. /\ Visible(db.rows) = Atomic!Replaced(Visible(saved.rows), Current, run.parsed,
                                            hidden(db.rows))
      /\ Visible(db.docs) = Atomic!Replaced(Visible(saved.docs), Current, run.parsed,
                                            hidden(db.docs))
  BY <1>4 DEF Visible, Atomic!Replaced
<1>6. saved'.state = [status |-> "succeeded", batch |-> Current]
  BY <1>0 DEF PParts, OutcomeKnown
<1>7. hidden(db.rows) \in SUBSET Files /\ hidden(db.docs) \in SUBSET Files
  OBVIOUS
<1>8. Visible(saved.rows)' = Visible(db.rows) /\ Visible(saved.docs)' = Visible(db.docs)
  BY <1>0 DEF Visible
<1> QED
  BY <1>0, <1>5, <1>6, <1>7, <1>8 DEF Atomic!Publish

LEMMA SeenInBetween ==
    ASSUME PInv, Transactional, Next, ~Commit, ~RecordFailure
    PROVE  UNCHANGED Seen
<1>0. IInv /\ PParts /\ db \in Database /\ saved \in Database
  BY Types DEF PInv
<1>a. ASSUME saved' = saved PROVE UNCHANGED Seen
  BY <1>a DEF Seen, Visible
<1>b. ASSUME saved'.rows = saved.rows, saved'.docs = saved.docs, saved'.state = saved.state
      PROVE  UNCHANGED Seen
  BY <1>b DEF Seen, Visible
<1>1. CASE \E o \in Options : StartRun(o)
  <2>1. PICK o \in Options : StartRun(o)
    BY <1>1
  <2>2. pc = "idle" /\ Execute([db EXCEPT !.hasRepos = @ \/ Route(o) = "per-repo"])
    BY <2>1 DEF StartRun
  <2>3. saved = db /\ saved' = [db EXCEPT !.hasRepos = @ \/ Route(o) = "per-repo"]
    BY <2>2, <1>0, Executed DEF IInv, TxSteps
  <2> QED
    BY <2>3, <1>0, <1>b DEF Database
<1>2. CASE Writing /\ ~(\E o \in Options : StartRun(o))
  <2>1. saved' = saved
    BY <1>2 DEF Writing, Scan, Recovered, BeginBatch, Clear, WriteRow, GraphWritten,
                WriteDocs, Reconcile, CommitJournal, MarkStale, SaveState, Execute, TxSteps
  <2> QED
    BY <2>1, <1>a
<1>3. CASE \E rowsLeft \in SUBSET Files : CleanAfterFailure(rowsLeft)
  <2>1. PICK rowsLeft \in SUBSET Files : CleanAfterFailure(rowsLeft)
    BY <1>3
  <2>2. pc = "cleaning" /\ Execute([db EXCEPT !.rows = Deactivated(@, Current, rowsLeft)])
    BY <2>1 DEF CleanAfterFailure
  <2>3. saved = db /\ saved' = [db EXCEPT !.rows = Deactivated(@, Current, rowsLeft)]
    BY <2>2, <1>0, Executed DEF IInv, TxSteps
  <2>4. Deactivated(db.rows, Current, rowsLeft) = db.rows
    BY <2>2, NothingToClean
  <2> QED
    BY <2>3, <2>4, <1>0, <1>b DEF Database
<1>4. CASE Failing /\ ~(\E rowsLeft \in SUBSET Files : CleanAfterFailure(rowsLeft))
  <2>1. saved' = saved
    BY <1>4 DEF Failing, Throw, ThrowInBatch, CleanUpBatch, CleanUpBatchFails, Rollback,
                RecordFails, Crash, Execute, TxSteps
  <2> QED
    BY <2>1, <1>a
<1>5. CASE Recovering
  <2>1. saved' = saved
    <3>1. pc = "recovering" /\ \E d : Execute(d)
      BY <1>5 DEF Recovering, Recover, RecoverFails
    <3> QED
      BY <3>1 DEF Execute, TxSteps
  <2> QED
    BY <2>1, <1>a
<1> QED
  BY <1>1, <1>2, <1>3, <1>4, <1>5 DEF Next

LEMMA SeenStep ==
    ASSUME PInv, Transactional, [Next]_vars
    PROVE  Atomic!Next \/ UNCHANGED Seen
<1>0. IInv /\ PParts /\ db \in Database
  BY Types DEF PInv
<1>1. CASE UNCHANGED vars
  BY <1>1 DEF vars, Seen, Visible
<1>2. CASE Commit
  <2>1. Current \in Batches /\ Current > saved.state.batch
    BY <1>0, <1>2, Types DEF Commit, PParts, OutcomeKnown
  <2>2. Atomic!Publish(Current)
    BY <1>2, CommitPublishes
  <2> QED
    BY <2>1, <2>2 DEF Atomic!Next
<1>3. CASE RecordFailure
  <2>1. /\ pc = "recording"
        /\ Execute([db EXCEPT !.state = [status |-> "failed", batch |-> Current]])
    BY <1>3 DEF RecordFailure
  <2>2. Current \in Batches /\ Current > saved.state.batch
    BY <1>0, <2>1, Types DEF PParts, OutcomeKnown
  <2>3. saved = db /\ saved' = [db EXCEPT !.state = [status |-> "failed", batch |-> Current]]
    BY <2>1, <1>0, Executed DEF IInv, TxSteps
  <2>4. /\ saved'.rows = saved.rows /\ saved'.docs = saved.docs
        /\ saved'.state = [status |-> "failed", batch |-> Current]
    BY <2>3, <1>0 DEF Database
  <2>5. Atomic!Fail(Current)
    BY <2>4 DEF Atomic!Fail, Visible
  <2> QED
    BY <2>2, <2>5 DEF Atomic!Next
<1>4. CASE Next /\ ~Commit /\ ~RecordFailure
  BY <1>4, SeenInBetween
<1> QED
  BY <1>1, <1>2, <1>3, <1>4

\* On an adapter with transactions, whoever reads the index while runs execute,
\* fail, are retried or die sees each run at once or not at all.
THEOREM RunsAreAtomic == ASSUME Transactional PROVE Spec => ImplementsAtomicIndex
<1>1. Init => Atomic!Init
  BY SeenAtFirst
<1>2. ASSUME PInv, [Next]_vars PROVE [Atomic!Next]_(Atomic!vars)
  BY <1>2, SeenStep DEF Atomic!vars, Seen
<1> QED
  BY <1>1, <1>2, PublicationInvariance, PTL DEF Spec, ImplementsAtomicIndex, Atomic!Spec

-----------------------------------------------------------------------------
(* Searches of the graph: what can be reached. *)

\* Finite sets are the same in the module of the searches.
LEMMA SameFiniteSets ==
    ASSUME NEW S
    PROVE  /\ Search!IsFiniteSet(S) <=> IsFiniteSet(S)
           /\ Search!Cardinality(S) = Cardinality(S)
BY Zenon DEF Search!IsFiniteSet, Search!Cardinality, IsFiniteSet, Cardinality

\* A set of numbers has a least one: what every induction below comes from.
LEMMA NatHasLeast ==
    ASSUME NEW T \in SUBSET Nat, T # {}
    PROVE  \E x \in T : \A y \in T : x <= y
<1> DEFINE R == {ss \in Nat \X Nat : ss[1] < ss[2]}
<1>1. IsWellFoundedOn(R, Nat)
  BY NatLessThanWellFounded DEF OpToRel
<1>2. \A x, y \in Nat : <<y, x>> \in R <=> y < x
  OBVIOUS
<1> HIDE DEF R
<1>3. PICK x \in T : \A y \in T : ~(<<y, x>> \in R)
  BY <1>1, WFMin
<1>4. \A y \in T : ~(y < x) /\ x \in Nat /\ y \in Nat
  BY <1>2, <1>3
<1>5. \A y \in T : x <= y
  BY <1>4
<1> QED
  BY <1>3, <1>5

\* Induction over the numbers up to n, for a set of them.
LEMMA UpTo ==
    ASSUME NEW n \in Nat, NEW T \in SUBSET (0..n), 0 \in T,
           \A i \in 1..n : i - 1 \in T => i \in T
    PROVE  \A i \in 0..n : i \in T
<1> DEFINE U == (0..n) \ T
<1>1. SUFFICES ASSUME U # {} PROVE FALSE
  OBVIOUS
<1>2. PICK x \in U : \A y \in U : x <= y
  <2>1. U \in SUBSET Nat
    OBVIOUS
  <2> HIDE DEF U
  <2> QED
    BY <1>1, <2>1, NatHasLeast
<1>3. x \in 1..n /\ x - 1 \in 0..n
  BY <1>2
<1>4. x - 1 \in T
  BY <1>2, <1>3
<1> QED
  BY <1>2, <1>3, <1>4

\* The rounds are what their definition says, whatever the arcs.
LEMMA RoundsGoFurther ==
    ASSUME NEW arcs, IsFiniteSet(arcs), NEW start
    PROVE  /\ Cardinality(arcs) \in Nat
           /\ Search!Rounds(arcs, start)[0] = start
           /\ \A i \in 1..Cardinality(arcs) :
                Search!Rounds(arcs, start)[i] = Search!Further(arcs, Search!Rounds(arcs, start)[i - 1])
<1> DEFINE Step(where) == Search!Further(arcs, where)
           n == Cardinality(arcs)
           Is(g, m) == g = [i \in 0..m |-> IF i = 0 THEN start ELSE Step(g[i - 1])]
           T == {m \in Nat : ~\E g : Is(g, m)}
<1>1. n \in Nat
  BY FS_CardinalityType
<1>2. Search!Rounds(arcs, start) = CHOOSE g : Is(g, n)
  BY SameFiniteSets DEF Search!Rounds
<1> HIDE DEF Step, n
<1>3. T = {}
  <2>1. SUFFICES ASSUME T # {} PROVE FALSE
    OBVIOUS
  <2>2. PICK m \in T : \A y \in T : m <= y
    <3> HIDE DEF Is
    <3>1. T \in SUBSET Nat
      OBVIOUS
    <3> HIDE DEF T
    <3> QED
      BY <2>1, <3>1, NatHasLeast
  <2>3. m # 0
    <3>1. Is([i \in 0..0 |-> start], 0)
      OBVIOUS
    <3> QED
      BY <2>2, <3>1
  <2>4. PICK f : Is(f, m - 1)
    <3>1. m - 1 \in Nat /\ ~(m <= m - 1)
      BY <2>2, <2>3
    <3>2. m - 1 \notin T
      BY <2>2, <3>1
    <3> HIDE DEF Is
    <3> QED
      BY <3>1, <3>2
  <2> DEFINE g == [i \in 0..m |-> IF i = m THEN Step(f[m - 1]) ELSE f[i]]
  <2>5. m \in Nat /\ m > 0
    BY <2>2, <2>3
  <2>6. \A i \in 0..m : g[i] = IF i = 0 THEN start ELSE Step(g[i - 1])
    <3>1. SUFFICES ASSUME NEW i \in 0..m PROVE g[i] = IF i = 0 THEN start ELSE Step(g[i - 1])
      OBVIOUS
    <3>2. CASE i = m
      BY <2>4, <2>5, <3>2
    <3>3. CASE i # m
      BY <2>4, <2>5, <3>3
    <3> QED
      BY <3>2, <3>3
  <2>7. Is(g, m)
    BY <2>6
  <2> QED
    BY <2>2, <2>7
<1>4. PICK g : Is(g, n)
  BY <1>1, <1>3
<1> DEFINE reach == Search!Rounds(arcs, start)
<1>5. Is(reach, n)
  BY <1>2, <1>4
<1> HIDE DEF reach
<1>6. reach[0] = start /\ \A i \in 1..n : reach[i] = Step(reach[i - 1])
  BY <1>1, <1>5
<1> QED
  BY <1>1, <1>6 DEF Step, n, reach

\* What the arcs lead to.
Heads(arcs) == {a[2] : a \in arcs}

\* There are at most as many of them as arcs.
LEMMA HeadsAreFew ==
    ASSUME NEW arcs, IsFiniteSet(arcs)
    PROVE  IsFiniteSet(Heads(arcs)) /\ Cardinality(Heads(arcs)) <= Cardinality(arcs)
<1> DEFINE f == [a \in arcs |-> a[2]]
<1>1. f \in Surjection(arcs, Heads(arcs))
  BY DEF Surjection, Heads
<1> HIDE DEF f
<1> QED
  BY <1>1, FS_Surjection

\* What is reached begins with the start, and nothing lies beyond it: as many
\* rounds as there are arcs are enough.
LEMMA NothingBeyond ==
    ASSUME NEW arcs, IsFiniteSet(arcs), NEW start
    PROVE  LET all == Search!ReachedFrom(arcs, start)
           IN  /\ start \subseteq all
               /\ Search!Beyond(arcs, all) \subseteq all
               /\ all \subseteq start \union Heads(arcs)
<1> DEFINE reach == Search!Rounds(arcs, start)
           n == Cardinality(arcs)
           New == Heads(arcs)
           Step(where) == Search!Further(arcs, where)
           Grown(i) == reach[i] \ start
           T == {i \in 0..n : /\ start \subseteq reach[i] /\ Grown(i) \subseteq New
                              /\ Step(reach[i]) = reach[i] \/ i <= Cardinality(Grown(i))}
<1>1. /\ n \in Nat /\ reach[0] = start
      /\ \A i \in 1..n : reach[i] = Step(reach[i - 1])
  BY RoundsGoFurther
<1>2. \A where : where \subseteq Step(where) /\ Step(where) \ where \subseteq New
  BY DEF Search!Further, Search!Beyond, Heads
<1>3. IsFiniteSet(New) /\ Cardinality(New) <= n
  BY HeadsAreFew
<1> HIDE DEF reach, n, New, Step
<1>4. 0 \in T
  <2>1. Grown(0) = {}
    BY <1>1
  <2>2. Cardinality(Grown(0)) = 0
    BY <2>1, FS_EmptySet
  <2>3. start \subseteq reach[0] /\ Grown(0) \subseteq New /\ 0 <= Cardinality(Grown(0))
    BY <1>1, <2>1, <2>2
  <2>4. 0 \in 0..n
    BY <1>1
  <2> QED
    BY <2>3, <2>4
<1>5. ASSUME NEW i \in 1..n, i - 1 \in T PROVE i \in T
  <2>1. reach[i] = Step(reach[i - 1])
    BY <1>1
  <2>2. /\ start \subseteq reach[i - 1] /\ Grown(i - 1) \subseteq New
        /\ Step(reach[i - 1]) = reach[i - 1] \/ i - 1 <= Cardinality(Grown(i - 1))
    BY <1>5
  <2>3. start \subseteq reach[i] /\ Grown(i) \subseteq New /\ Grown(i - 1) \subseteq Grown(i)
    BY <1>2, <2>1, <2>2
  <2>4. i \in 0..n /\ i \in Nat
    BY <1>1
  <2>5. CASE Step(reach[i - 1]) = reach[i - 1]
    BY <2>1, <2>3, <2>4, <2>5
  <2>6. CASE Step(reach[i - 1]) # reach[i - 1]
    <3>1. Grown(i - 1) # Grown(i)
      BY <1>2, <2>1, <2>2, <2>6
    <3>2. IsFiniteSet(Grown(i))
      BY <1>3, <2>3, FS_Subset
    <3> DEFINE G == Grown(i)
               H == Grown(i - 1)
    <3>3. IsFiniteSet(G) /\ H \subseteq G /\ H # G
      BY <2>3, <3>1, <3>2
    <3>4. i - 1 <= Cardinality(H)
      BY <2>2, <2>6
    <3>5. i <= Cardinality(G)
      <4> HIDE DEF G, H
      <4>1. /\ IsFiniteSet(H) /\ Cardinality(H) <= Cardinality(G)
            /\ Cardinality(H) # Cardinality(G)
        BY <3>3, FS_Subset
      <4>2. Cardinality(H) \in Nat /\ Cardinality(G) \in Nat
        BY <3>3, <4>1, FS_CardinalityType
      <4> QED
        BY <2>4, <3>4, <4>1, <4>2
    <3> QED
      BY <2>3, <2>4, <3>5
  <2> QED
    BY <2>5, <2>6
<1>6. \A i \in 0..n : i \in T
  <2>1. T \in SUBSET (0..n)
    OBVIOUS
  <2>2. \A i \in 1..n : i - 1 \in T => i \in T
    BY <1>5
  <2> HIDE DEF T
  <2> QED
    BY <1>1, <1>4, <2>1, <2>2, UpTo
<1>7. n \in T
  BY <1>1, <1>6
<1>8. Step(reach[n]) = reach[n]
  <2>1. SUFFICES ASSUME n <= Cardinality(Grown(n)) PROVE Step(reach[n]) = reach[n]
    BY <1>7
  <2> DEFINE G == Grown(n)
  <2>2. G \subseteq New /\ n <= Cardinality(G)
    BY <1>7, <2>1
  <2>3. G = New
    <3> HIDE DEF G
    <3>1. IsFiniteSet(G) /\ Cardinality(G) <= Cardinality(New)
          /\ (Cardinality(G) = Cardinality(New) => G = New)
      BY <1>3, <2>2, FS_Subset
    <3>2. Cardinality(G) \in Nat /\ Cardinality(New) \in Nat
      BY <1>3, <3>1, FS_CardinalityType
    <3> QED
      BY <1>1, <1>3, <2>2, <3>1, <3>2
  <2>4. New \subseteq reach[n]
    BY <2>3
  <2> QED
    BY <1>2, <2>4
<1>9. Search!ReachedFrom(arcs, start) = reach[n]
  BY SameFiniteSets DEF Search!ReachedFrom, reach, n
<1>10. start \subseteq reach[n] /\ reach[n] \subseteq start \union New
  BY <1>7
<1> QED
  BY <1>8, <1>9, <1>10 DEF Step, Search!Further, New

\* And nothing else is reached: it is the least such set.
LEMMA NothingElse ==
    ASSUME NEW arcs, IsFiniteSet(arcs), NEW start, NEW C, start \subseteq C, Search!Beyond(arcs, C) \subseteq C
    PROVE  Search!ReachedFrom(arcs, start) \subseteq C
<1> DEFINE reach == Search!Rounds(arcs, start)
           n == Cardinality(arcs)
           T == {i \in 0..n : reach[i] \subseteq C}
<1>1. /\ n \in Nat /\ reach[0] = start
      /\ \A i \in 1..n : reach[i] = Search!Further(arcs, reach[i - 1])
  BY RoundsGoFurther
<1> HIDE DEF reach, n
<1>2. 0 \in T
  BY <1>1
<1>3. ASSUME NEW i \in 1..n, i - 1 \in T PROVE i \in T
  <2>1. reach[i - 1] \subseteq C /\ reach[i] = Search!Further(arcs, reach[i - 1])
    BY <1>1, <1>3
  <2>2. Search!Beyond(arcs, reach[i - 1]) \subseteq Search!Beyond(arcs, C)
    BY <2>1 DEF Search!Beyond
  <2>3. reach[i] \subseteq C
    BY <2>1, <2>2 DEF Search!Further
  <2>4. i \in 0..n
    BY <1>1
  <2> QED
    BY <2>3, <2>4
<1>4. n \in T
  <2>1. T \in SUBSET (0..n) /\ \A i \in 1..n : i - 1 \in T => i \in T
    BY <1>3
  <2> HIDE DEF T
  <2> QED
    BY <1>1, <1>2, <2>1, UpTo
<1>5. Search!ReachedFrom(arcs, start) = reach[n]
  BY SameFiniteSets DEF Search!ReachedFrom, reach, n
<1> QED
  BY <1>4, <1>5

\* What ReachedFrom computes, in as many rounds as there are arcs, is what it
\* says: the least set with the start that no arc leaves.  Both completeness
\* properties of the searches are stated with it.
THEOREM ReachedFromIsTheLeastClosedSet ==
    ASSUME NEW arcs, IsFiniteSet(arcs), NEW start
    PROVE  LET all == Search!ReachedFrom(arcs, start)
           IN  /\ start \subseteq all /\ Search!Beyond(arcs, all) \subseteq all
               /\ \A C : start \subseteq C /\ Search!Beyond(arcs, C) \subseteq C => all \subseteq C
BY NothingBeyond, NothingElse

\* What lies beyond two sets lies beyond one of them, and more lies beyond more.
LEMMA BeyondGrows ==
    ASSUME NEW arcs, NEW A, NEW B
    PROVE  /\ Search!Beyond(arcs, A \union B) = Search!Beyond(arcs, A) \union Search!Beyond(arcs, B)
           /\ A \subseteq B => Search!Beyond(arcs, A) \subseteq Search!Beyond(arcs, B)
BY DEF Search!Beyond

\* Of finitely many relations there are finitely many arcs.
LEMMA ArcsAreFinite ==
    ASSUME NEW relations, IsFiniteSet(relations)
    PROVE  IsFiniteSet(Search!Arcs(relations)) /\ \A d : IsFiniteSet(Search!Ways(relations, d))
<1> DEFINE R1 == {x \in relations : Search!Category(x) \in {"consumer-to-producer", "schema-to-use"}}
           R2 == {x \in relations : Search!Category(x) = "execution-flow"}
           R3 == {x \in relations : \/ Search!Category(x) = "execution-flow"
                                    \/ Search!Category(x) = "consumer-to-producer" /\ Search!Forward(x)}
           A1 == {<<<<Search!ProducerEnd(e), "normal">>, <<Search!ConsumerEnd(e), "normal">>>> : e \in R1}
           A2 == {<<<<e.from, "normal">>, <<e.to, "downstream">>>> : e \in R2}
           A3 == {<<<<e.from, "downstream">>, <<e.to, "downstream">>>> : e \in R3}
<1>1. R1 \subseteq relations /\ R2 \subseteq relations /\ R3 \subseteq relations
  OBVIOUS
<1>2. IsFiniteSet(R1) /\ IsFiniteSet(R2) /\ IsFiniteSet(R3)
  <2> HIDE DEF R1, R2, R3
  <2> QED
    BY <1>1, FS_Subset
<1>3. IsFiniteSet(A1)
  <2> DEFINE f == [e \in R1 |-> <<<<Search!ProducerEnd(e), "normal">>, <<Search!ConsumerEnd(e), "normal">>>>]
  <2> HIDE DEF R1
  <2>1. f \in Surjection(R1, A1)
    BY DEF Surjection
  <2> HIDE DEF f, A1
  <2> QED
    BY <1>2, <2>1, FS_Surjection
<1>4. IsFiniteSet(A2)
  <2> DEFINE f == [e \in R2 |-> <<<<e.from, "normal">>, <<e.to, "downstream">>>>]
  <2> HIDE DEF R2
  <2>1. f \in Surjection(R2, A2)
    BY DEF Surjection
  <2> HIDE DEF f, A2
  <2> QED
    BY <1>2, <2>1, FS_Surjection
<1>5. IsFiniteSet(A3)
  <2> DEFINE f == [e \in R3 |-> <<<<e.from, "downstream">>, <<e.to, "downstream">>>>]
  <2> HIDE DEF R3
  <2>1. f \in Surjection(R3, A3)
    BY DEF Surjection
  <2> HIDE DEF f, A3
  <2> QED
    BY <1>2, <2>1, FS_Surjection
<1>6. Search!Arcs(relations) = (A1 \union A2) \union A3
  BY DEF Search!Arcs
<1>7. IsFiniteSet(Search!Arcs(relations))
  <2> HIDE DEF A1, A2, A3
  <2>1. IsFiniteSet(A1 \union A2)
    BY <1>3, <1>4, FS_Union
  <2> QED
    BY <1>5, <1>6, <2>1, FS_Union
<1>8. ASSUME NEW d PROVE IsFiniteSet(Search!Ways(relations, d))
  <2> DEFINE f == [e \in relations |-> IF d = "outgoing" THEN <<e.from, e.to>> ELSE <<e.to, e.from>>]
  <2>1. f \in Surjection(relations, Search!Ways(relations, d))
    BY DEF Surjection, Search!Ways
  <2> HIDE DEF f
  <2> QED
    BY <2>1, FS_Surjection
<1> QED
  BY <1>7, <1>8

-----------------------------------------------------------------------------
(* One round of the search. *)

\* The ways a specification is reached in, the pairs of a map of them, and the
\* steps of a round from it.
Modes == {"normal", "downstream"}
Where(mode) == {<<id, mode[id]>> : id \in DOMAIN mode}
AllSteps(relations, mode) ==
    UNION {Search!ImpactSteps(e, id, mode[id]) :
              e \in {x \in relations : Search!Followed(x)}, id \in DOMAIN mode}

\* An arc leads to a specification and a way.
LEMMA HeadsHaveModes ==
    ASSUME NEW relations, NEW w \in Heads(Search!Arcs(relations))
    PROVE  w = <<w[1], w[2]>> /\ w[2] \in Modes
<1>1. PICK a \in Search!Arcs(relations) : w = a[2]
  BY DEF Heads
<1>2. \/ \E e : a = <<<<Search!ProducerEnd(e), "normal">>, <<Search!ConsumerEnd(e), "normal">>>>
      \/ \E e : a = <<<<e.from, "normal">>, <<e.to, "downstream">>>>
      \/ \E e : a = <<<<e.from, "downstream">>, <<e.to, "downstream">>>>
  BY DEF Search!Arcs
<1>3. a[2] = <<a[2][1], a[2][2]>> /\ a[2][2] \in Modes
  BY <1>2 DEF Modes
<1> QED
  BY <1>1, <1>3

\* getImpactStepSpecIds follows exactly the arcs: the steps of a round are what
\* lies one step beyond its frontier.
LEMMA StepsAreBeyond ==
    ASSUME NEW relations, NEW mode, \A id \in DOMAIN mode : mode[id] \in Modes
    PROVE  Search!Beyond(Search!Arcs(relations), Where(mode)) =
             {<<x.id, x.mode>> : x \in AllSteps(relations, mode)}
<1> DEFINE On == Search!Beyond(Search!Arcs(relations), Where(mode))
           All == AllSteps(relations, mode)
<1>3. ASSUME NEW e \in relations, Search!Category(e) \in {"consumer-to-producer", "schema-to-use"},
             <<Search!ProducerEnd(e), "normal">> \in Where(mode)
      PROVE  <<Search!ConsumerEnd(e), "normal">> \in On
  <2> DEFINE a == <<<<Search!ProducerEnd(e), "normal">>, <<Search!ConsumerEnd(e), "normal">>>>
  <2>1. a \in Search!Arcs(relations)
    BY <1>3 DEF Search!Arcs
  <2> QED
    BY <1>3, <2>1 DEF Search!Beyond
<1>4. ASSUME NEW e \in relations, NEW m \in Modes, Search!Category(e) = "execution-flow",
             <<e.from, m>> \in Where(mode)
      PROVE  <<e.to, "downstream">> \in On
  <2> DEFINE a == <<<<e.from, m>>, <<e.to, "downstream">>>>
  <2>1. a \in Search!Arcs(relations)
    BY <1>4 DEF Search!Arcs, Modes
  <2> QED
    BY <1>4, <2>1 DEF Search!Beyond
<1>5. ASSUME NEW e \in relations, Search!Category(e) = "consumer-to-producer", Search!Forward(e),
             <<e.from, "downstream">> \in Where(mode)
      PROVE  <<e.to, "downstream">> \in On
  <2> DEFINE a == <<<<e.from, "downstream">>, <<e.to, "downstream">>>>
  <2>1. a \in Search!Arcs(relations)
    BY <1>5 DEF Search!Arcs
  <2> QED
    BY <1>5, <2>1 DEF Search!Beyond
<1>1. ASSUME NEW x \in All PROVE <<x.id, x.mode>> \in On
  <2>1. PICK e \in relations, id \in DOMAIN mode :
          Search!Followed(e) /\ x \in Search!ImpactSteps(e, id, mode[id])
    BY DEF AllSteps
  <2>2. <<id, mode[id]>> \in Where(mode) /\ mode[id] \in Modes
    BY DEF Where
  <2>3. CASE mode[id] = "downstream"
    <3>1. x.id \in Search!CalledFrom(e, id) /\ x.mode = "downstream"
      BY <2>1, <2>3 DEF Search!ImpactSteps
    <3>2. /\ e.from = id /\ x.id = e.to
          /\ \/ Search!Category(e) = "execution-flow"
             \/ Search!Category(e) = "consumer-to-producer" /\ Search!Forward(e)
      BY <3>1 DEF Search!CalledFrom
    <3> QED
      BY <1>4, <1>5, <2>2, <2>3, <3>1, <3>2
  <2>4. CASE mode[id] = "normal"
    <3>1. /\ x.id \in Search!getImpactedSpecId(e, id)
          /\ x.mode = IF Search!Category(e) = "execution-flow" THEN "downstream" ELSE "normal"
      BY <2>1, <2>4 DEF Search!ImpactSteps
    <3>2. CASE Search!Category(e) = "execution-flow"
      <4>1. e.from = id /\ x.id = e.to
        BY <3>1, <3>2 DEF Search!getImpactedSpecId
      <4> QED
        BY <1>4, <2>2, <2>4, <3>1, <3>2, <4>1
    <3>3. CASE Search!Category(e) # "execution-flow"
      <4>1. /\ Search!ProducerEnd(e) = id /\ x.id = Search!ConsumerEnd(e)
            /\ Search!Category(e) \in {"consumer-to-producer", "schema-to-use"}
        BY <2>1, <3>1, <3>3 DEF Search!getImpactedSpecId, Search!Followed
      <4> QED
        BY <1>3, <2>2, <2>4, <3>1, <3>3, <4>1
    <3> QED
      BY <3>2, <3>3
  <2> QED
    BY <2>2, <2>3, <2>4 DEF Modes
<1>2. ASSUME NEW w \in On PROVE \E x \in All : w = <<x.id, x.mode>>
  <2>1. ASSUME NEW e \in relations, NEW id \in DOMAIN mode, NEW x \in Search!ImpactSteps(e, id, mode[id]),
               Search!Followed(e)
        PROVE  x \in All
    BY <2>1 DEF AllSteps
  <2>2. CASE \E e \in relations : /\ Search!Category(e) \in {"consumer-to-producer", "schema-to-use"}
                                 /\ <<Search!ProducerEnd(e), "normal">> \in Where(mode)
                                 /\ w = <<Search!ConsumerEnd(e), "normal">>
    <3>1. PICK e \in relations : /\ Search!Category(e) \in {"consumer-to-producer", "schema-to-use"}
                                 /\ <<Search!ProducerEnd(e), "normal">> \in Where(mode)
                                 /\ w = <<Search!ConsumerEnd(e), "normal">>
      BY <2>2
    <3>2. Search!ProducerEnd(e) \in DOMAIN mode /\ mode[Search!ProducerEnd(e)] = "normal"
      BY <3>1 DEF Where
    <3> DEFINE x == [id |-> Search!ConsumerEnd(e), edge |-> e, mode |-> "normal"]
    <3>3. Search!ConsumerEnd(e) \in Search!getImpactedSpecId(e, Search!ProducerEnd(e))
      BY <3>1 DEF Search!getImpactedSpecId
    <3>4. x \in Search!ImpactSteps(e, Search!ProducerEnd(e), mode[Search!ProducerEnd(e)])
      BY <3>1, <3>2, <3>3 DEF Search!ImpactSteps
    <3>5. Search!Followed(e)
      BY <3>1 DEF Search!Followed
    <3>6. x \in All
      BY <2>1, <3>2, <3>4, <3>5
    <3> QED
      BY <3>1, <3>6
  <2>3. CASE \E e \in relations : /\ Search!Category(e) = "execution-flow"
                                 /\ \E m \in Modes : <<e.from, m>> \in Where(mode)
                                 /\ w = <<e.to, "downstream">>
    <3>1. PICK e \in relations : /\ Search!Category(e) = "execution-flow"
                                 /\ \E m \in Modes : <<e.from, m>> \in Where(mode)
                                 /\ w = <<e.to, "downstream">>
      BY <2>3
    <3>2. e.from \in DOMAIN mode /\ mode[e.from] \in Modes
      BY <3>1 DEF Where
    <3> DEFINE x == [id |-> e.to, edge |-> e, mode |-> "downstream"]
               y == [id |-> e.to, mode |-> "downstream", edge |-> e]
    <3>3. e.to \in Search!getImpactedSpecId(e, e.from) /\ e.to \in Search!CalledFrom(e, e.from)
      BY <3>1 DEF Search!getImpactedSpecId, Search!CalledFrom
    <3>4. x \in Search!ImpactSteps(e, e.from, mode[e.from]) \/ y \in Search!ImpactSteps(e, e.from, mode[e.from])
      <4>1. CASE mode[e.from] = "downstream"
        BY <3>3, <4>1 DEF Search!ImpactSteps
      <4>2. CASE mode[e.from] # "downstream"
        BY <3>1, <3>3, <4>2 DEF Search!ImpactSteps
      <4> QED
        BY <4>1, <4>2
    <3>5. Search!Followed(e)
      BY <3>1 DEF Search!Followed
    <3>6. x \in All \/ y \in All
      BY <2>1, <3>2, <3>4, <3>5
    <3> QED
      BY <3>1, <3>6
  <2>4. CASE \E e \in relations : /\ Search!Category(e) = "consumer-to-producer" /\ Search!Forward(e)
                                 /\ <<e.from, "downstream">> \in Where(mode)
                                 /\ w = <<e.to, "downstream">>
    <3>1. PICK e \in relations : /\ Search!Category(e) = "consumer-to-producer" /\ Search!Forward(e)
                                 /\ <<e.from, "downstream">> \in Where(mode)
                                 /\ w = <<e.to, "downstream">>
      BY <2>4
    <3>2. e.from \in DOMAIN mode /\ mode[e.from] = "downstream"
      BY <3>1 DEF Where
    <3> DEFINE x == [id |-> e.to, mode |-> "downstream", edge |-> e]
    <3>3. e.to \in Search!CalledFrom(e, e.from)
      BY <3>1 DEF Search!CalledFrom
    <3>4. x \in Search!ImpactSteps(e, e.from, mode[e.from])
      BY <3>2, <3>3 DEF Search!ImpactSteps
    <3>5. Search!Followed(e)
      BY <3>1 DEF Search!Followed
    <3>6. x \in All
      BY <2>1, <3>2, <3>4, <3>5
    <3> QED
      BY <3>1, <3>6
  <2>5. PICK a \in Search!Arcs(relations) : a[1] \in Where(mode) /\ w = a[2]
    BY DEF Search!Beyond
  <2>6. \/ \E e \in relations : /\ Search!Category(e) \in {"consumer-to-producer", "schema-to-use"}
                              /\ a = <<<<Search!ProducerEnd(e), "normal">>, <<Search!ConsumerEnd(e), "normal">>>>
        \/ \E e \in relations : /\ Search!Category(e) = "execution-flow"
                              /\ \E m \in Modes : a = <<<<e.from, m>>, <<e.to, "downstream">>>>
        \/ \E e \in relations : /\ Search!Category(e) = "consumer-to-producer" /\ Search!Forward(e)
                              /\ a = <<<<e.from, "downstream">>, <<e.to, "downstream">>>>
    BY DEF Search!Arcs, Modes
  <2>7. \/ \E e \in relations : /\ Search!Category(e) \in {"consumer-to-producer", "schema-to-use"}
                              /\ <<Search!ProducerEnd(e), "normal">> \in Where(mode)
                              /\ w = <<Search!ConsumerEnd(e), "normal">>
        \/ \E e \in relations : /\ Search!Category(e) = "execution-flow"
                              /\ \E m \in Modes : <<e.from, m>> \in Where(mode)
                              /\ w = <<e.to, "downstream">>
        \/ \E e \in relations : /\ Search!Category(e) = "consumer-to-producer" /\ Search!Forward(e)
                              /\ <<e.from, "downstream">> \in Where(mode)
                              /\ w = <<e.to, "downstream">>
    <3>1. ASSUME NEW e \in relations, Search!Category(e) \in {"consumer-to-producer", "schema-to-use"},
                 a = <<<<Search!ProducerEnd(e), "normal">>, <<Search!ConsumerEnd(e), "normal">>>>
          PROVE  <<Search!ProducerEnd(e), "normal">> \in Where(mode) /\ w = <<Search!ConsumerEnd(e), "normal">>
      BY <2>5, <3>1
    <3>2. ASSUME NEW e \in relations, NEW m \in Modes, a = <<<<e.from, m>>, <<e.to, "downstream">>>>
          PROVE  <<e.from, m>> \in Where(mode) /\ w = <<e.to, "downstream">>
      BY <2>5, <3>2
    <3>3. ASSUME NEW e \in relations, a = <<<<e.from, "downstream">>, <<e.to, "downstream">>>>
          PROVE  <<e.from, "downstream">> \in Where(mode) /\ w = <<e.to, "downstream">>
      BY <2>5, <3>3
    <3>4. CASE \E e \in relations : /\ Search!Category(e) \in {"consumer-to-producer", "schema-to-use"}
                                  /\ a = <<<<Search!ProducerEnd(e), "normal">>, <<Search!ConsumerEnd(e), "normal">>>>
      BY <3>1, <3>4
    <3>5. CASE \E e \in relations : /\ Search!Category(e) = "execution-flow"
                                  /\ \E m \in Modes : a = <<<<e.from, m>>, <<e.to, "downstream">>>>
      BY <3>2, <3>5
    <3>6. CASE \E e \in relations : /\ Search!Category(e) = "consumer-to-producer" /\ Search!Forward(e)
                                  /\ a = <<<<e.from, "downstream">>, <<e.to, "downstream">>>>
      BY <3>3, <3>6
    <3> QED
      BY <2>6, <3>4, <3>5, <3>6
  <2> QED
    BY <2>2, <2>3, <2>4, <2>7
<1> QED
  BY <1>1, <1>2

-----------------------------------------------------------------------------
(* What is known of a search. *)

\* The fields of a search, none of which comes or goes.
SearchFields ==
    {"pc", "by", "graph", "target", "change", "relations", "roots", "bound", "hop", "frontier", "visited",
     "steps", "truncated", "items", "walks", "walked", "nodes", "edges"}

\* Specifications with the way in which they were found.
Found(s, ids) == {<<id, Search!ModeOf(s, id)>> : id \in ids}

\* Each specification is reached once, by the step that tells its mode.
StepsKept(s) ==
    /\ \A x \in s.steps : x.id \notin s.roots /\ x.mode \in Modes
    /\ \A x, y \in s.steps : x.id = y.id => x = y
    /\ DOMAIN s.visited = s.roots \union {x.id : x \in s.steps}
    /\ DOMAIN s.frontier \subseteq DOMAIN s.visited
    /\ \A id \in DOMAIN s.frontier : s.frontier[id] = Search!ModeOf(s, id)

\* What was found is reached, and what lies one step beyond the rounds before
\* the last is found.
ReachKept(s) ==
    /\ Found(s, DOMAIN s.visited) \subseteq Search!ReachedFrom(Search!Arcs(s.relations), Search!Start(s))
    /\ Search!Ids(Search!Beyond(Search!Arcs(s.relations), Found(s, DOMAIN s.visited \ DOMAIN s.frontier)))
         \subseteq DOMAIN s.visited

\* A search that ended by its bound says so if the last round could go on.
EndKept(s) ==
    /\ IsFiniteSet(s.relations) /\ s.bound \in Nat \ {0} /\ s.hop \in 0..s.bound
    /\ s.hop = s.bound \/ s.pc = "done" =>
          \/ s.truncated
          \/ Search!Ids(Search!Beyond(Search!Arcs(s.relations), Found(s, DOMAIN s.frontier)))
               \subseteq DOMAIN s.visited

\* What a walk has left behind is reported with all its edges that way, and
\* what it has reached at its bound has none unless it says so.
TraceKept(s) ==
    LET V == DOMAIN s.visited
        F == DOMAIN s.frontier
    IN  /\ IsFiniteSet(s.relations) /\ s.bound \in Nat \ {0} /\ s.hop \in 0..s.bound
        /\ s.roots \subseteq V /\ F \subseteq V /\ V \subseteq DOMAIN s.nodes
        /\ \A x \in s.edges : {x[1], x[2]} \subseteq DOMAIN s.nodes
        /\ \A id \in V \ F : \A e \in Search!Adjacent(s.relations, id, s.walks[1]) :
              Search!OtherEnd(e, s.walks[1]) \in V /\ <<e.from, e.to, e.kind>> \in s.edges
        /\ s.hop = s.bound /\ ~s.truncated =>
              \A id \in F : Search!Adjacent(s.relations, id, s.walks[1]) = {}

\* All that is reached in a direction is a node, with all its edges that way.
WalkReported(s, direction) ==
    LET reached == Search!ReachedFrom(Search!Ways(s.relations, direction), s.roots)
    IN  /\ reached \subseteq DOMAIN s.nodes
        /\ \A id \in reached : \A e \in Search!Adjacent(s.relations, id, direction) :
              <<e.from, e.to, e.kind>> \in s.edges

\* A trace starts at active specifications, and a walk that is over has reported
\* what it should.
WalksKept(s) ==
    /\ s.roots \subseteq Search!IdsOf(s.graph.specs)
    /\ ~s.truncated => \A direction \in s.walked : WalkReported(s, direction)

\* The inductive invariant of a search and of a trace.
SearchInv ==
    /\ DOMAIN search = SearchFields
    /\ search.pc \in {"idle", "walk", "trace", "done"}
    /\ search.pc = "trace" => search.by = "trace" /\ TraceKept(search) /\ WalksKept(search)
    /\ Search!UntruncatedTraceIsComplete
    /\ search.pc = "walk" => search.by # "trace"
    /\ search.pc \in {"walk", "done"} /\ search.by # "trace" =>
          StepsKept(search) /\ ReachKept(search) /\ EndKept(search)

\* The step that found a specification tells the way.
LEMMA ModesFound ==
    ASSUME NEW s, StepsKept(s)
    PROVE  /\ \A id \in s.roots : Search!ModeOf(s, id) = "normal"
           /\ \A x \in s.steps : Search!ModeOf(s, x.id) = x.mode
           /\ \A id \in DOMAIN s.visited : Search!ModeOf(s, id) \in Modes
<1>1. \A id \in s.roots : Search!ModeOf(s, id) = "normal"
  BY DEF Search!ModeOf
<1>2. ASSUME NEW x \in s.steps PROVE Search!ModeOf(s, x.id) = x.mode
  <2>1. x.id \notin s.roots /\ \A y \in s.steps : y.id = x.id => y = x
    BY DEF StepsKept
  <2>2. (CHOOSE y \in s.steps : y.id = x.id) = x
    BY <2>1
  <2> QED
    BY <2>1, <2>2 DEF Search!ModeOf
<1>3. \A x \in s.steps : x.mode \in Modes
  BY DEF StepsKept
<1>4. DOMAIN s.visited = s.roots \union {x.id : x \in s.steps}
  BY DEF StepsKept
<1> QED
  BY <1>1, <1>2, <1>3, <1>4 DEF Modes

\* A search begins at its roots, which are reached in no step at all.
LEMMA SearchBegins ==
    ASSUME NEW by, by \in {"impact", "propagation"}, NEW graph, NEW target, NEW change,
           NEW relations, IsFiniteSet(relations), NEW bound, bound \in Nat \ {0},
           Search!Begin(by, graph, target, change, relations, bound)
    PROVE  SearchInv'
<1>1. PICK roots :
        search' = [Search!NoSearch EXCEPT !.pc = "walk", !.by = by, !.graph = graph, !.target = target,
                        !.change = change, !.relations = relations, !.bound = bound, !.roots = roots,
                        !.frontier = [id \in roots |-> "normal"], !.visited = [id \in roots |-> 0]]
  BY DEF Search!Begin
<1>2. /\ DOMAIN search' = SearchFields
      /\ search'.pc = "walk" /\ search'.by = by /\ search'.relations = relations /\ search'.roots = roots
      /\ search'.bound = bound /\ search'.hop = 0 /\ search'.steps = {} /\ search'.truncated = FALSE
      /\ search'.frontier = [id \in roots |-> "normal"] /\ search'.visited = [id \in roots |-> 0]
  BY <1>1 DEF Search!NoSearch, SearchFields
<1>3. StepsKept(search')
  BY <1>2 DEF StepsKept, Search!ModeOf
<1>4. Found(search', roots) = Search!Start(search')
  BY <1>2 DEF Found, Search!ModeOf, Search!Start
<1>5. ReachKept(search')
  <2>1. Found(search', roots) \subseteq Search!ReachedFrom(Search!Arcs(relations), Search!Start(search'))
    BY <1>4, ArcsAreFinite, NothingBeyond
  <2>2. Found(search', roots \ roots) = {}
    BY DEF Found
  <2>3. Search!Ids(Search!Beyond(Search!Arcs(relations), {})) = {}
    BY DEF Search!Ids, Search!Beyond
  <2> QED
    BY <1>2, <2>1, <2>2, <2>3 DEF ReachKept
<1>6. EndKept(search')
  BY <1>2 DEF EndKept
<1>7. Search!UntruncatedTraceIsComplete'
  BY <1>2 DEF Search!UntruncatedTraceIsComplete
<1> QED
  BY <1>2, <1>3, <1>5, <1>6, <1>7 DEF SearchInv

\* The specifications a round finds, and those it could find.
LEMMA RoundFinds ==
    ASSUME NEW s, StepsKept(s)
    PROVE  /\ Search!Beyond(Search!Arcs(s.relations), Found(s, DOMAIN s.frontier)) =
                {<<x.id, x.mode>> : x \in AllSteps(s.relations, s.frontier)}
           /\ Search!StepsFrom(s) = {x \in AllSteps(s.relations, s.frontier) : x.id \notin DOMAIN s.visited}
<1>1. /\ DOMAIN s.frontier \subseteq DOMAIN s.visited
      /\ \A id \in DOMAIN s.frontier : s.frontier[id] = Search!ModeOf(s, id)
  BY DEF StepsKept
<1>2. \A id \in DOMAIN s.frontier : s.frontier[id] \in Modes
  BY <1>1, ModesFound
<1>3. Found(s, DOMAIN s.frontier) = Where(s.frontier)
  BY <1>1 DEF Found, Where
<1>4. Search!Beyond(Search!Arcs(s.relations), Found(s, DOMAIN s.frontier)) =
        {<<x.id, x.mode>> : x \in AllSteps(s.relations, s.frontier)}
  BY <1>2, <1>3, StepsAreBeyond
<1> QED
  BY <1>4 DEF Search!StepsFrom, AllSteps

\* A round adds what lies one step beyond its frontier, whichever of the steps
\* to a specification the database returns first.
LEMMA HopKeeps ==
    ASSUME SearchInv, Search!Hop
    PROVE  SearchInv'
<1> DEFINE s == search
           t == search'
           V == DOMAIN search.visited
           F == DOMAIN search.frontier
           all == Search!ReachedFrom(Search!Arcs(search.relations), Search!Start(search))
<1>1. PICK first \in SUBSET Search!StepsFrom(s) :
        LET frontier == [id \in {x.id : x \in first} |-> (CHOOSE x \in first : x.id = id).mode]
            visited == Search!Adding(s.visited, DOMAIN frontier, s.hop + 1)
        IN  /\ {x.id : x \in first} = {x.id : x \in Search!StepsFrom(s)}
            /\ \A x, y \in first : x.id = y.id => x = y
            /\ search' = [search EXCEPT
                    !.hop = @ + 1, !.frontier = frontier, !.visited = visited,
                    !.steps = @ \union first,
                    !.truncated = search.hop + 1 = search.bound
                                    /\ Search!HasMore(search, frontier, DOMAIN visited)]
  BY DEF Search!Hop
<1> DEFINE N == {x.id : x \in first}
           frontier == [id \in N |-> (CHOOSE x \in first : x.id = id).mode]
<1>2. N = {x.id : x \in Search!StepsFrom(s)} /\ \A x, y \in first : x.id = y.id => x = y
  BY <1>1
<1>3. s.pc = "walk" /\ s.hop < s.bound
  BY DEF Search!Hop
<1>4. /\ DOMAIN s = SearchFields /\ s.by # "trace"
      /\ StepsKept(s) /\ ReachKept(s) /\ EndKept(s)
  BY <1>3 DEF SearchInv
<1>5. /\ DOMAIN t = SearchFields /\ t.pc = "walk" /\ t.by = s.by
      /\ t.relations = s.relations /\ t.roots = s.roots /\ t.bound = s.bound
      /\ t.hop = s.hop + 1 /\ t.frontier = frontier /\ t.steps = s.steps \union first
  BY <1>1, <1>3, <1>4 DEF SearchFields
<1>6. DOMAIN t.visited = V \union N
  BY <1>1, <1>4 DEF SearchFields, Search!Adding
<1>7. t.truncated <=> (s.hop + 1 = s.bound /\ Search!HasMore(s, frontier, V \union N))
  <2> DEFINE visited == Search!Adding(s.visited, DOMAIN frontier, s.hop + 1)
  <2>1. t.truncated <=> (s.hop + 1 = s.bound /\ Search!HasMore(s, frontier, DOMAIN visited))
    BY <1>1, <1>4 DEF SearchFields
  <2>2. DOMAIN visited = V \union N
    BY DEF Search!Adding
  <2> QED
    BY <2>1, <2>2
<1>8. /\ Search!Beyond(Search!Arcs(s.relations), Found(s, F)) =
           {<<x.id, x.mode>> : x \in AllSteps(s.relations, s.frontier)}
      /\ Search!StepsFrom(s) = {x \in AllSteps(s.relations, s.frontier) : x.id \notin V}
  BY <1>4, RoundFinds
<1>9. \A x \in first : /\ x.id \notin V /\ x.id \notin s.roots
                        /\ <<x.id, x.mode>> \in Search!Beyond(Search!Arcs(s.relations), Found(s, F))
                        /\ \A y \in s.steps : y.id # x.id
  BY <1>4, <1>8 DEF StepsKept
<1>10. /\ F \subseteq V /\ Found(s, F) \subseteq Found(s, V)
       /\ Found(s, V) = Found(s, V \ F) \union Found(s, F)
  BY <1>4 DEF StepsKept, Found
<1>11. \A x \in first : <<x.id, x.mode>> \in all
  <2>1. Found(s, F) \subseteq all
    BY <1>4, <1>10 DEF ReachKept
  <2>2. Search!Beyond(Search!Arcs(s.relations), Found(s, F)) \subseteq Search!Beyond(Search!Arcs(s.relations), all)
    BY <2>1, BeyondGrows
  <2>3. Search!Beyond(Search!Arcs(s.relations), all) \subseteq all
    BY <1>4, ArcsAreFinite, NothingBeyond DEF EndKept
  <2> QED
    BY <1>9, <2>2, <2>3
<1>12. \A x \in first : x.mode \in Modes
  <2>1. all \subseteq Search!Start(s) \union Heads(Search!Arcs(s.relations))
    BY <1>4, ArcsAreFinite, NothingBeyond DEF EndKept
  <2>2. \A w \in Search!Start(s) : w[2] = "normal"
    BY DEF Search!Start
  <2>3. \A w \in Heads(Search!Arcs(s.relations)) : w[2] \in Modes
    BY HeadsHaveModes
  <2>4. \A w \in all : w[2] \in Modes
    BY <2>1, <2>2, <2>3 DEF Modes
  <2> QED
    BY <1>11, <2>4
<1>13. \A id \in N : frontier[id] = (CHOOSE x \in first : x.id = id).mode
  OBVIOUS
<1>14. \A id \in V : Search!ModeOf(t, id) = Search!ModeOf(s, id)
  <2>1. SUFFICES ASSUME NEW id \in V, id \notin s.roots PROVE Search!ModeOf(t, id) = Search!ModeOf(s, id)
    BY <1>5 DEF Search!ModeOf
  <2>2. \A x \in t.steps : x.id = id => x \in s.steps
    <3>1. \A x \in first : x.id \notin V
      BY <1>9
    <3>2. t.steps = s.steps \union first
      BY <1>5
    <3> HIDE DEF s, t, V
    <3> QED
      BY <2>1, <3>1, <3>2
  <2>3. PICK x \in s.steps : x.id = id
    BY <1>4, <2>1 DEF StepsKept
  <2>4. \A y \in t.steps : y.id = id => y = x
    BY <1>4, <2>2, <2>3 DEF StepsKept
  <2>5. x \in t.steps
    BY <1>5
  <2>6. (CHOOSE y \in t.steps : y.id = id) = x
    BY <2>3, <2>4, <2>5
  <2>7. Search!ModeOf(t, id) = x.mode
    BY <1>5, <2>1, <2>6 DEF Search!ModeOf
  <2>8. Search!ModeOf(s, x.id) = x.mode
    BY <1>4, ModesFound
  <2> QED
    BY <2>3, <2>7, <2>8
<1>15. \A x \in first : Search!ModeOf(t, x.id) = x.mode /\ frontier[x.id] = x.mode
  <2>1. SUFFICES ASSUME NEW x \in first PROVE Search!ModeOf(t, x.id) = x.mode /\ frontier[x.id] = x.mode
    OBVIOUS
  <2>2. \A y : (y \in t.steps /\ y.id = x.id) <=> y = x
    BY <1>2, <1>5, <1>9
  <2>3. (CHOOSE y \in t.steps : y.id = x.id) = x
    BY <2>2
  <2>4. (CHOOSE y \in first : y.id = x.id) = x
    BY <1>2
  <2> QED
    BY <1>5, <1>9, <2>3, <2>4 DEF Search!ModeOf
<1> HIDE DEF frontier
<1>16. StepsKept(t)
  <2>1. \A x \in t.steps : x.id \notin t.roots /\ x.mode \in Modes
    BY <1>4, <1>5, <1>9, <1>12 DEF StepsKept
  <2>2. \A x, y \in t.steps : x.id = y.id => x = y
    BY <1>2, <1>4, <1>5, <1>9 DEF StepsKept
  <2>3. DOMAIN t.visited = t.roots \union {x.id : x \in t.steps}
    BY <1>4, <1>5, <1>6 DEF StepsKept
  <2>4. DOMAIN t.frontier = N
    BY <1>5 DEF frontier
  <2>5. \A id \in DOMAIN t.frontier : t.frontier[id] = Search!ModeOf(t, id)
    BY <1>5, <1>15, <2>4
  <2> QED
    BY <1>6, <2>1, <2>2, <2>3, <2>4, <2>5 DEF StepsKept
<1>17. Found(t, V) = Found(s, V)
  BY <1>14 DEF Found
<1>18. DOMAIN t.frontier = N /\ (V \union N) \ N = V
  <2>1. N \cap V = {}
    BY <1>9
  <2> QED
    BY <1>5, <2>1 DEF frontier
<1>19. ReachKept(t)
  <2>1. Found(t, V \union N) \subseteq all
    <3>1. Found(t, V) \subseteq all
      BY <1>4, <1>17 DEF ReachKept
    <3>2. Found(t, N) \subseteq all
      BY <1>11, <1>15 DEF Found
    <3> QED
      BY <3>1, <3>2 DEF Found
  <2>2. Search!Ids(Search!Beyond(Search!Arcs(s.relations), Found(s, V \ F))) \subseteq V
    BY <1>4 DEF ReachKept
  <2>3. Search!Ids(Search!Beyond(Search!Arcs(s.relations), Found(s, F))) \subseteq V \union N
    BY <1>2, <1>8 DEF Search!Ids
  <2>4. Search!Ids(Search!Beyond(Search!Arcs(s.relations), Found(t, V))) \subseteq V \union N
    <3>1. Search!Beyond(Search!Arcs(s.relations), Found(t, V)) =
            Search!Beyond(Search!Arcs(s.relations), Found(s, V \ F))
              \union Search!Beyond(Search!Arcs(s.relations), Found(s, F))
      <4> DEFINE A == Search!Arcs(s.relations)
                 rest == Found(s, V \ F)
                 last == Found(s, F)
      <4>1. Search!Beyond(A, rest \union last) = Search!Beyond(A, rest) \union Search!Beyond(A, last)
        <5> HIDE DEF A, rest, last
        <5> QED
          BY BeyondGrows
      <4>2. Found(t, V) = rest \union last
        BY <1>10, <1>17, Zenon
      <4> QED
        BY <4>1, <4>2, Zenon
    <3> QED
      BY <2>2, <2>3, <3>1 DEF Search!Ids
  <2> QED
    BY <1>5, <1>6, <1>18, <2>1, <2>4 DEF ReachKept, Search!Start
<1>20. EndKept(t)
  <2>1. IsFiniteSet(t.relations) /\ t.bound \in Nat \ {0} /\ t.hop \in 0..t.bound
    BY <1>3, <1>4, <1>5 DEF EndKept
  <2>2. ASSUME t.hop = t.bound, ~t.truncated
        PROVE  Search!Ids(Search!Beyond(Search!Arcs(t.relations), Found(t, N))) \subseteq V \union N
    <3>1. ~Search!HasMore(s, frontier, V \union N)
      BY <1>5, <1>7, <2>2
    <3>2. \A x \in AllSteps(t.relations, t.frontier) : x.id \in V \union N
      BY <1>5, <3>1 DEF Search!HasMore, AllSteps
    <3>3. Search!Beyond(Search!Arcs(t.relations), Found(t, N)) =
            {<<x.id, x.mode>> : x \in AllSteps(t.relations, t.frontier)}
      BY <1>16, <1>18, RoundFinds
    <3>4. \A w \in Search!Beyond(Search!Arcs(t.relations), Found(t, N)) : w[1] \in V \union N
      BY <3>2, <3>3
    <3> QED
      BY <3>4 DEF Search!Ids
  <2> QED
    BY <1>5, <1>6, <1>18, <2>1, <2>2 DEF EndKept
<1>21. Search!UntruncatedTraceIsComplete'
  BY <1>5 DEF Search!UntruncatedTraceIsComplete
<1> QED
  BY <1>4, <1>5, <1>16, <1>19, <1>20, <1>21 DEF SearchInv

\* A search ends when a round finds nothing or the bound is reached.
LEMMA ReportKeeps ==
    ASSUME SearchInv, Search!Report
    PROVE  SearchInv'
<1> DEFINE s == search
           t == search'
<1>1. /\ s.pc = "walk" /\ DOMAIN s = SearchFields /\ s.by # "trace"
      /\ StepsKept(s) /\ ReachKept(s) /\ EndKept(s)
  BY DEF SearchInv, Search!Report
<1>2. /\ DOMAIN t = SearchFields /\ t.pc = "done" /\ t.by = s.by
      /\ t.relations = s.relations /\ t.roots = s.roots /\ t.bound = s.bound /\ t.hop = s.hop
      /\ t.frontier = s.frontier /\ t.visited = s.visited /\ t.steps = s.steps /\ t.truncated = s.truncated
  BY <1>1 DEF Search!Report, SearchFields
<1>3. \A id : Search!ModeOf(t, id) = Search!ModeOf(s, id)
  BY <1>2 DEF Search!ModeOf
<1>4. \A ids : Found(t, ids) = Found(s, ids)
  BY <1>3 DEF Found
<1>5. StepsKept(t)
  BY <1>1, <1>2, <1>3 DEF StepsKept
<1>6. ReachKept(t)
  BY <1>1, <1>2, <1>4 DEF ReachKept, Search!Start
<1>7. \/ s.truncated
      \/ Search!Ids(Search!Beyond(Search!Arcs(s.relations), Found(s, DOMAIN s.frontier)))
           \subseteq DOMAIN s.visited
  <2>1. CASE s.hop = s.bound
    BY <1>1, <2>1 DEF EndKept
  <2>2. CASE Search!StepsFrom(s) = {}
    BY <1>1, <2>2, RoundFinds DEF Search!Ids
  <2> QED
    BY <2>1, <2>2 DEF Search!Report
<1>8. EndKept(t)
  BY <1>1, <1>2, <1>4, <1>7 DEF EndKept
<1>9. Search!UntruncatedTraceIsComplete'
  BY <1>1, <1>2 DEF Search!UntruncatedTraceIsComplete
<1> QED
  BY <1>2, <1>1, <1>5, <1>6, <1>8, <1>9 DEF SearchInv

\* A round of a trace reports all edges of its frontier and goes to their ends.
LEMMA WalkKeeps ==
    ASSUME SearchInv, Search!Walk
    PROVE  SearchInv'
<1> DEFINE s == search
           t == search'
           V == DOMAIN search.visited
           F == DOMAIN search.frontier
           d == search.walks[1]
           A(id) == Search!Adjacent(search.relations, id, search.walks[1])
           edges == UNION {A(id) : id \in F}
           next == {Search!OtherEnd(e, d) : e \in edges} \ V
           role == IF d = "outgoing" THEN "downstream" ELSE "upstream"
<1>1. s.pc = "trace" /\ s.walks # <<>> /\ s.hop < s.bound
  BY DEF Search!Walk
<1>2. DOMAIN s = SearchFields /\ s.by = "trace" /\ TraceKept(s) /\ WalksKept(s)
  BY <1>1 DEF SearchInv
<1>3. t = [s EXCEPT
            !.hop = @ + 1,
            !.edges = @ \union {<<e.from, e.to, e.kind>> : e \in edges},
            !.frontier = [id \in next |-> role],
            !.visited = Search!Adding(@, next, s.hop + 1),
            !.nodes = Search!Adding(@, next, role),
            !.truncated = @ \/ (s.hop + 1 = s.bound /\ \E id \in next : A(id) # {})]
  BY Zenon DEF Search!Walk
<1> HIDE DEF next, role
<1>4. /\ DOMAIN t = SearchFields /\ t.pc = "trace" /\ t.by = "trace"
      /\ t.relations = s.relations /\ t.roots = s.roots /\ t.bound = s.bound /\ t.walks = s.walks
      /\ t.graph = s.graph /\ t.walked = s.walked /\ t.hop = s.hop + 1
      /\ t.edges = s.edges \union {<<e.from, e.to, e.kind>> : e \in edges}
  BY <1>1, <1>2, <1>3 DEF SearchFields
<1>5. DOMAIN t.frontier = next
  BY <1>2, <1>3 DEF SearchFields
<1>6. DOMAIN t.visited = V \union next
  BY <1>2, <1>3 DEF SearchFields, Search!Adding
<1>7. DOMAIN t.nodes = DOMAIN s.nodes \union next
  BY <1>2, <1>3 DEF SearchFields, Search!Adding
<1>8. ~t.truncated /\ t.hop = t.bound => \A id \in next : A(id) = {}
  <2>1. t.truncated <=> (s.truncated \/ (s.hop + 1 = s.bound /\ \E id \in next : A(id) # {}))
    BY <1>2, <1>3 DEF SearchFields
  <2> QED
    BY <1>4, <2>1
<1>9. next \cap V = {} /\ \A e \in edges : Search!OtherEnd(e, d) \in V \union next
  BY DEF next
<1>10. /\ s.roots \subseteq V /\ F \subseteq V /\ V \subseteq DOMAIN s.nodes
       /\ \A x \in s.edges : {x[1], x[2]} \subseteq DOMAIN s.nodes
       /\ \A id \in V \ F : \A e \in A(id) : Search!OtherEnd(e, d) \in V /\ <<e.from, e.to, e.kind>> \in s.edges
  BY <1>2 DEF TraceKept
<1>11. \A x \in t.edges : {x[1], x[2]} \subseteq DOMAIN t.nodes
  <2>1. ASSUME NEW e \in edges PROVE {e.from, e.to} \subseteq DOMAIN s.nodes \union next
    <3>1. PICK id \in F : e \in A(id)
      OBVIOUS
    <3>2. /\ id = IF d = "outgoing" THEN e.from ELSE e.to
          /\ Search!OtherEnd(e, d) = IF d = "outgoing" THEN e.to ELSE e.from
      BY <3>1 DEF Search!Adjacent, Search!OtherEnd
    <3>3. id \in DOMAIN s.nodes /\ Search!OtherEnd(e, d) \in DOMAIN s.nodes \union next
      BY <1>9, <1>10, <2>1
    <3> QED
      BY <3>2, <3>3
  <2> HIDE DEF edges
  <2>2. \A x \in t.edges : x \in s.edges \/ \E e \in edges : x = <<e.from, e.to, e.kind>>
    BY <1>4
  <2> QED
    BY <1>7, <1>10, <2>1, <2>2
<1>12. \A id \in V : \A e \in A(id) :
          Search!OtherEnd(e, d) \in V \union next /\ <<e.from, e.to, e.kind>> \in t.edges
  <2>1. SUFFICES ASSUME NEW id \in V, NEW e \in A(id)
                 PROVE  Search!OtherEnd(e, d) \in V \union next /\ <<e.from, e.to, e.kind>> \in t.edges
    OBVIOUS
  <2>2. CASE id \in F
    <3>1. e \in edges
      BY <2>2
    <3> QED
      BY <1>4, <1>9, <3>1
  <2>3. CASE id \notin F
    BY <1>4, <1>10, <2>3
  <2> QED
    BY <2>2, <2>3
<1>13. TraceKept(t)
  <2>1. IsFiniteSet(t.relations) /\ t.bound \in Nat \ {0} /\ t.hop \in 0..t.bound
    BY <1>1, <1>2, <1>4 DEF TraceKept
  <2>2. (V \union next) \ next = V
    BY <1>9
  <2>3. /\ t.roots \subseteq DOMAIN t.visited /\ DOMAIN t.frontier \subseteq DOMAIN t.visited
        /\ DOMAIN t.visited \subseteq DOMAIN t.nodes
    BY <1>4, <1>5, <1>6, <1>7, <1>10
  <2>4. \A id \in DOMAIN t.visited \ DOMAIN t.frontier : \A e \in Search!Adjacent(t.relations, id, t.walks[1]) :
          Search!OtherEnd(e, t.walks[1]) \in DOMAIN t.visited /\ <<e.from, e.to, e.kind>> \in t.edges
    BY <1>4, <1>5, <1>6, <1>12, <2>2
  <2>5. t.hop = t.bound /\ ~t.truncated =>
          \A id \in DOMAIN t.frontier : Search!Adjacent(t.relations, id, t.walks[1]) = {}
    BY <1>4, <1>5, <1>8
  <2> QED
    BY <1>11, <2>1, <2>3, <2>4, <2>5 DEF TraceKept
<1>14. WalksKept(t)
  <2>1. t.roots \subseteq Search!IdsOf(t.graph.specs)
    BY <1>2, <1>4 DEF WalksKept
  <2>2. ~t.truncated => ~s.truncated
    BY <1>2, <1>3 DEF SearchFields
  <2>3. ASSUME NEW direction \in s.walked, WalkReported(s, direction) PROVE WalkReported(t, direction)
    BY <1>4, <1>7, <2>3 DEF WalkReported
  <2> QED
    BY <1>2, <1>4, <2>1, <2>2, <2>3 DEF WalksKept
<1>15. Search!UntruncatedTraceIsComplete'
  BY <1>4 DEF Search!UntruncatedTraceIsComplete
<1> QED
  BY <1>4, <1>13, <1>14, <1>15 DEF SearchInv

\* When a walk ends uncut, what it visited is closed under the edges of its
\* direction and holds the roots, so it holds all they lead to.
LEMMA WalkEndsReported ==
    ASSUME NEW s, TraceKept(s), ~s.truncated, s.hop = s.bound \/ DOMAIN s.frontier = {}
    PROVE  WalkReported(s, s.walks[1])
<1> DEFINE V == DOMAIN s.visited
           F == DOMAIN s.frontier
           d == s.walks[1]
           ways == Search!Ways(s.relations, d)
           reached == Search!ReachedFrom(ways, s.roots)
<1>1. \A id \in V : \A e \in Search!Adjacent(s.relations, id, d) :
          Search!OtherEnd(e, d) \in V /\ <<e.from, e.to, e.kind>> \in s.edges
  BY DEF TraceKept
<1>2. Search!Beyond(ways, V) \subseteq V
  <2>1. SUFFICES ASSUME NEW a \in ways, a[1] \in V PROVE a[2] \in V
    BY DEF Search!Beyond
  <2>2. PICK e \in s.relations : a = IF d = "outgoing" THEN <<e.from, e.to>> ELSE <<e.to, e.from>>
    BY DEF Search!Ways
  <2>3. e \in Search!Adjacent(s.relations, a[1], d) /\ a[2] = Search!OtherEnd(e, d)
    BY <2>2 DEF Search!Adjacent, Search!OtherEnd
  <2> QED
    BY <1>1, <2>1, <2>3
<1>3. IsFiniteSet(ways) /\ s.roots \subseteq V
  BY ArcsAreFinite DEF TraceKept
<1>4. reached \subseteq V
  <2> HIDE DEF ways, V
  <2> QED
    BY <1>2, <1>3, NothingElse
<1>5. V \subseteq DOMAIN s.nodes
  BY DEF TraceKept
<1> QED
  BY <1>1, <1>4, <1>5 DEF WalkReported

\* The next walk starts again, and forgets no node and no edge; the last one leaves
\* a report of active specifications.
LEMMA EndWalkKeeps ==
    ASSUME SearchInv, Search!EndWalk
    PROVE  SearchInv'
<1> DEFINE s == search
           t == search'
           active == Search!IdsOf(search.graph.specs)
           last == Search!LastWalk
<1>1. s.pc = "trace" /\ (s.hop = s.bound \/ DOMAIN s.frontier = {})
  BY DEF Search!EndWalk
<1>2. DOMAIN s = SearchFields /\ s.by = "trace" /\ TraceKept(s) /\ WalksKept(s)
  BY <1>1 DEF SearchInv
<1>3. /\ DOMAIN t = SearchFields /\ t.by = "trace" /\ t.graph = s.graph
      /\ t.relations = s.relations /\ t.roots = s.roots /\ t.bound = s.bound /\ t.hop = 0
      /\ t.edges = s.edges /\ t.truncated = s.truncated
      /\ t.walked = s.walked \union {s.walks[1]}
      /\ DOMAIN t.frontier = s.roots /\ DOMAIN t.visited = s.roots
      /\ t.pc = (IF last THEN "done" ELSE "trace")
  BY <1>1, <1>2 DEF Search!EndWalk, Search!AfterWalk, SearchFields
<1>4. DOMAIN t.nodes = IF last THEN DOMAIN s.nodes \intersect active ELSE DOMAIN s.nodes
  BY <1>1, <1>2 DEF Search!EndWalk, Search!AfterWalk, SearchFields
<1>5. ~s.truncated => \A direction \in t.walked : WalkReported(s, direction)
  <2>1. ~s.truncated => WalkReported(s, s.walks[1])
    BY <1>1, <1>2, WalkEndsReported
  <2> QED
    BY <1>2, <1>3, <2>1 DEF WalksKept
<1> HIDE DEF last, active
<1>6. CASE ~last
  <2>1. TraceKept(t)
    BY <1>2, <1>3, <1>4, <1>6 DEF TraceKept
  <2>2. ASSUME NEW direction, WalkReported(s, direction) PROVE WalkReported(t, direction)
    BY <1>3, <1>4, <1>6, <2>2 DEF WalkReported
  <2>3. WalksKept(t)
    BY <1>2, <1>3, <1>5, <2>2 DEF WalksKept
  <2>4. Search!UntruncatedTraceIsComplete'
    BY <1>3, <1>6 DEF Search!UntruncatedTraceIsComplete
  <2> QED
    BY <1>3, <1>6, <2>1, <2>3, <2>4 DEF SearchInv
<1>7. CASE last
  <2>1. DOMAIN t.nodes = DOMAIN s.nodes \intersect active
    BY <1>4, <1>7
  <2>2. /\ s.roots \subseteq DOMAIN s.nodes /\ s.roots \subseteq active
        /\ \A x \in s.edges : {x[1], x[2]} \subseteq DOMAIN s.nodes
    BY <1>2 DEF TraceKept, WalksKept, active
  <2>3. ASSUME ~t.truncated, NEW direction \in t.walked
        PROVE  LET reached == Search!ReachedFrom(Search!Ways(t.relations, direction), t.roots)
               IN  /\ reached \intersect active \subseteq DOMAIN t.nodes
                   /\ \A id \in reached : \A e \in Search!Adjacent(t.relations, id, direction) :
                         <<e.from, e.to, e.kind>> \in t.edges
    <3>1. WalkReported(s, direction)
      BY <1>3, <1>5, <2>3
    <3> QED
      BY <1>3, <2>1, <3>1 DEF WalkReported
  <2>4. Search!UntruncatedTraceIsComplete'
    <3>1. Search!IdsOf(t.graph.specs) = active
      BY <1>3 DEF active
    <3>2. t.roots \subseteq DOMAIN t.nodes /\ DOMAIN t.nodes \subseteq active
      BY <1>3, <2>1, <2>2
    <3>3. \A e \in t.edges : {e[1], e[2]} \intersect active \subseteq DOMAIN t.nodes
      BY <1>3, <2>1, <2>2
    <3> QED
      BY <2>3, <3>1, <3>2, <3>3 DEF Search!UntruncatedTraceIsComplete
  <2> QED
    BY <1>3, <1>7, <2>4 DEF SearchInv
<1> QED
  BY <1>6, <1>7

\* Every action keeps the invariant.
LEMMA SearchSteps ==
    ASSUME Search!GraphsAssumption, Search!HopBoundsAssumption, SearchInv, [Search!Next]_search
    PROVE  SearchInv'
<1>1. CASE Search!AnalyzeImpact
  <2>1. PICK graph \in Graphs, target \in Targets, change \in Changes, bound \in HopBounds :
          Search!Begin("impact", graph, target, change,
            {e \in graph.relations : Search!Category(e) \in {"consumer-to-producer", "schema-to-use"}}, bound)
    BY <1>1 DEF Search!AnalyzeImpact
  <2> DEFINE relations == {e \in graph.relations : Search!Category(e) \in {"consumer-to-producer", "schema-to-use"}}
  <2>2. IsFiniteSet(relations)
    <3>1. IsFiniteSet(graph.relations) /\ relations \subseteq graph.relations
      BY SameFiniteSets DEF Search!GraphsAssumption
    <3> HIDE DEF relations
    <3> QED
      BY <3>1, FS_Subset
  <2>3. bound \in Nat \ {0}
    BY DEF Search!HopBoundsAssumption
  <2> HIDE DEF relations
  <2>4. Search!Begin("impact", graph, target, change, relations, bound)
    BY <2>1 DEF relations
  <2> QED
    BY <2>2, <2>3, <2>4, SearchBegins
<1>2. CASE Search!AnalyzeSemanticImpact
  <2>1. PICK graph \in Graphs, target \in Targets, bound \in HopBounds :
          Search!Begin("propagation", graph, target, Search!NoChange, graph.relations, bound)
    BY <1>2 DEF Search!AnalyzeSemanticImpact
  <2>2. IsFiniteSet(graph.relations) /\ bound \in Nat \ {0}
    BY SameFiniteSets DEF Search!GraphsAssumption, Search!HopBoundsAssumption
  <2> QED
    BY <2>1, <2>2, SearchBegins
<1>3. CASE Search!Hop
  BY <1>3, HopKeeps
<1>4. CASE Search!Report
  BY <1>4, ReportKeeps
<1>5. CASE Search!TraceSemanticGraph
  <2>1. PICK graph \in Graphs, target \in Targets, bound \in HopBounds,
             walks \in {<<"outgoing", "incoming">>, <<"outgoing">>, <<"incoming">>} :
          LET roots == Search!IdsOf(Search!findTargetSpecs(target, graph.specs))
          IN  /\ search.pc = "idle"
              /\ roots # {}
              /\ search' = [Search!NoSearch EXCEPT !.pc = "trace", !.by = "trace", !.graph = graph, !.target = target,
                    !.relations = graph.relations, !.bound = bound, !.roots = roots, !.walks = walks,
                    !.frontier = [id \in roots |-> "target"], !.visited = [id \in roots |-> 0],
                    !.nodes = [id \in roots |-> "target"]]
    BY <1>5 DEF Search!TraceSemanticGraph
  <2> DEFINE roots == Search!IdsOf(Search!findTargetSpecs(target, graph.specs))
  <2>2. search' = [Search!NoSearch EXCEPT !.pc = "trace", !.by = "trace", !.graph = graph, !.target = target,
              !.relations = graph.relations, !.bound = bound, !.roots = roots, !.walks = walks,
              !.frontier = [id \in roots |-> "target"], !.visited = [id \in roots |-> 0],
              !.nodes = [id \in roots |-> "target"]]
    BY <2>1
  <2> HIDE DEF roots
  <2>3. DOMAIN search' = SearchFields /\ search'.pc = "trace" /\ search'.by = "trace"
    BY <2>2 DEF Search!NoSearch, SearchFields
  <2>4. /\ search'.relations = graph.relations /\ search'.bound = bound /\ search'.hop = 0
        /\ search'.roots = roots /\ search'.edges = {}
        /\ DOMAIN search'.frontier = roots /\ DOMAIN search'.visited = roots /\ DOMAIN search'.nodes = roots
    BY <2>2 DEF Search!NoSearch
  <2>5. IsFiniteSet(graph.relations) /\ bound \in Nat \ {0}
    BY SameFiniteSets DEF Search!GraphsAssumption, Search!HopBoundsAssumption
  <2>6. TraceKept(search')
    BY <2>4, <2>5 DEF TraceKept
  <2>7. roots \subseteq Search!IdsOf(graph.specs)
    BY DEF roots, Search!IdsOf, Search!findTargetSpecs
  <2>8. search'.graph = graph /\ search'.walked = {}
    BY <2>2 DEF Search!NoSearch
  <2>9. WalksKept(search')
    BY <2>4, <2>7, <2>8 DEF WalksKept
  <2>10. Search!UntruncatedTraceIsComplete'
    BY <2>3 DEF Search!UntruncatedTraceIsComplete
  <2> QED
    BY <2>3, <2>6, <2>9, <2>10 DEF SearchInv
<1>6. CASE Search!Walk
  BY <1>6, WalkKeeps
<1>7. CASE Search!EndWalk
  BY <1>7, EndWalkKeeps
<1>8. CASE Search!Answered
  BY <1>8 DEF Search!Answered, SearchInv, Search!NoSearch, SearchFields, Search!UntruncatedTraceIsComplete
<1>9. CASE UNCHANGED search
  <2>1. Search!UntruncatedTraceIsComplete'
    BY <1>9, Zenon DEF SearchInv, Search!UntruncatedTraceIsComplete
  <2> QED
    BY <1>9, <2>1 DEF SearchInv
<1> QED
  BY <1>1, <1>2, <1>3, <1>4, <1>5, <1>6, <1>7, <1>8, <1>9 DEF Search!Next

\* When it ends uncut, what lies beyond the last round is found too.  On arcs
\* from specifications reached in one way only, found and reached agree, so the
\* reached that are found are closed under them and hold all they lead to.
LEMMA CompleteFollows ==
    ASSUME SearchInv
    PROVE  Search!UntruncatedIsComplete
<1> DEFINE s == search
           V == DOMAIN search.visited
           F == DOMAIN search.frontier
           arcs == Search!Arcs(search.relations)
           start == Search!Start(search)
           all == Search!ReachedFrom(arcs, start)
           both == {id \in Search!Ids(all) : {<<id, "normal">>, <<id, "downstream">>} \subseteq all}
           clear == {a \in arcs : a[1][1] \notin both}
           found == {<<id, Search!ModeOf(s, id)>> : id \in V}
<1>1. SUFFICES ASSUME s.pc = "done", s.by = "propagation", ~s.truncated
               PROVE  /\ found \subseteq all
                      /\ Search!Ids(Search!Beyond(arcs, found)) \subseteq V
                      /\ Search!Ids(Search!ReachedFrom(clear, start)) \subseteq V
  BY DEF Search!UntruncatedIsComplete
<1>2. StepsKept(s) /\ ReachKept(s) /\ EndKept(s)
  BY <1>1 DEF SearchInv
<1>3. IsFiniteSet(arcs) /\ IsFiniteSet(clear)
  <2>1. IsFiniteSet(arcs)
    BY <1>2, ArcsAreFinite DEF EndKept
  <2>2. clear \subseteq arcs
    OBVIOUS
  <2> HIDE DEF clear, arcs
  <2> QED
    BY <2>1, <2>2, FS_Subset
<1>4. found = Found(s, V)
  BY DEF Found
<1>5. found \subseteq all
  BY <1>2, <1>4 DEF ReachKept
<1>6. Search!Ids(Search!Beyond(arcs, found)) \subseteq V
  <2>1. found = Found(s, V \ F) \union Found(s, F)
    BY <1>2, <1>4 DEF Found, StepsKept
  <2>2. Search!Beyond(arcs, found) = Search!Beyond(arcs, Found(s, V \ F)) \union Search!Beyond(arcs, Found(s, F))
    <3> DEFINE rest == Found(s, V \ F)
               last == Found(s, F)
    <3>1. found = rest \union last
      BY <2>1
    <3>2. Search!Beyond(arcs, rest \union last) = Search!Beyond(arcs, rest) \union Search!Beyond(arcs, last)
      <4> HIDE DEF rest, last, arcs
      <4> QED
        BY BeyondGrows
    <3>3. Search!Beyond(arcs, found) = Search!Beyond(arcs, rest \union last)
      <4> HIDE DEF found, rest, last, arcs
      <4> QED
        BY <3>1
    <3> QED
      BY <3>2, <3>3, Zenon
  <2>3. Search!Ids(Search!Beyond(arcs, Found(s, V \ F))) \subseteq V
    BY <1>2 DEF ReachKept
  <2>4. Search!Ids(Search!Beyond(arcs, Found(s, F))) \subseteq V
    BY <1>1, <1>2 DEF EndKept
  <2> QED
    BY <2>2, <2>3, <2>4 DEF Search!Ids
<1>7. start \subseteq all /\ Search!Beyond(arcs, all) \subseteq all /\ all \subseteq start \union Heads(arcs)
  BY <1>3, NothingBeyond
<1>8. \A w \in all : w[1] \in V /\ w[1] \notin both => w \in found
  <2>1. SUFFICES ASSUME NEW w \in all, w[1] \in V, w[1] \notin both PROVE w \in found
    OBVIOUS
  <2>2. w = <<w[1], w[2]>> /\ w[2] \in Modes
    <3>1. CASE w \in start
      BY <3>1 DEF Search!Start, Modes
    <3>2. CASE w \in Heads(arcs)
      BY <3>2, HeadsHaveModes
    <3> QED
      BY <1>7, <3>1, <3>2
  <2>3. Search!ModeOf(s, w[1]) \in Modes /\ <<w[1], Search!ModeOf(s, w[1])>> \in all
    BY <1>2, <1>5, <2>1, ModesFound
  <2>4. w[1] \in Search!Ids(all)
    BY DEF Search!Ids
  <2>5. w[2] = Search!ModeOf(s, w[1])
    BY <2>1, <2>2, <2>3, <2>4 DEF Modes
  <2> QED
    BY <2>1, <2>2, <2>5
<1> DEFINE C == {w \in all : w[1] \in V}
<1>9. start \subseteq C
  <2>1. \A w \in start : w[1] \in s.roots
    BY DEF Search!Start
  <2>2. s.roots \subseteq V
    BY <1>2 DEF StepsKept
  <2> QED
    BY <1>7, <2>1, <2>2
<1>10. Search!Beyond(clear, C) \subseteq C
  <2>1. SUFFICES ASSUME NEW a \in clear, a[1] \in C PROVE a[2] \in C
    BY DEF Search!Beyond
  <2>2. a \in arcs /\ a[1] \in found /\ a[1] \in all
    BY <1>8, <2>1
  <2>3. a[2] \in Search!Beyond(arcs, found) /\ a[2] \in Search!Beyond(arcs, all)
    BY <2>2 DEF Search!Beyond
  <2>4. a[2][1] \in V
    BY <1>6, <2>3 DEF Search!Ids
  <2> QED
    BY <1>7, <2>3, <2>4
<1>11. Search!ReachedFrom(clear, start) \subseteq C
  <2> HIDE DEF clear, start, C
  <2> QED
    BY <1>3, <1>9, <1>10, NothingElse
<1>12. Search!Ids(Search!ReachedFrom(clear, start)) \subseteq V
  BY <1>11 DEF Search!Ids
<1> QED
  BY <1>5, <1>6, <1>12

\* traceImpactPropagation (semanticImpact.ts:79-161) and traceSemanticGraph
\* (semanticTrace.ts:244-375): whatever graph is stored, whatever order its rows
\* come in and whatever bound is given, an impact search or a trace that does not
\* say it was cut short is complete in the sense of the two properties.
THEOREM SearchesAreComplete ==
    ASSUME Search!GraphsAssumption, Search!HopBoundsAssumption
    PROVE  Search!Spec => [](Search!UntruncatedIsComplete /\ Search!UntruncatedTraceIsComplete)
<1>1. Search!Init => SearchInv
  <2>1. DOMAIN Search!NoSearch = SearchFields /\ Search!NoSearch.pc = "idle"
    BY DEF Search!NoSearch, SearchFields
  <2> QED
    BY <2>1 DEF Search!Init, SearchInv, Search!UntruncatedTraceIsComplete
<1>2. SearchInv /\ [Search!Next]_search => SearchInv'
  BY SearchSteps
<1>3. SearchInv => Search!UntruncatedIsComplete /\ Search!UntruncatedTraceIsComplete
  BY CompleteFollows DEF SearchInv
<1> QED
  BY <1>1, <1>2, <1>3, PTL DEF Search!Spec
=============================================================================

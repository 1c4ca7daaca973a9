--------------------------- MODULE RepoIndexProofs ---------------------------
(***************************************************************************)
(* Proofs about RepoIndex, for any number of files, any contents with      *)
(* finitely many symbols each, and both graph databases.  The inductive    *)
(* invariant adds to the properties what a run knows while it reads: what  *)
(* it has read of the files behind it, and that it has skipped only files  *)
(* whose stored hash it has seen again, in a changed-only run.             *)
(***************************************************************************)
EXTENDS RepoIndex, FiniteSetTheorems, TLAPS

\* The runs that TypeOK allows.
Runs ==
    [status : {"idle", "reading", "succeeded"}, options : Options,
     listed : SUBSET Files, left : SUBSET Files, differs : BOOLEAN,
     read : [Files -> Contents \union {Missing}], parsed : SUBSET Files,
     deleted : {"nothing", "specs", "repository"}]

\* The documents can be counted.
DocsFinite == IsFiniteSet(docs)

\* An active file has been parsed once: its hash is that of a content.
RowsKept == \A f \in Files : fileRow[f].active => fileRow[f].hash \in Contents

\* The run in progress has read the listed files that are not left, and parsed
\* all of them but those that a changed-only run has found unchanged.
RunKept ==
    /\ run.left \subseteq run.listed
    /\ run.parsed \subseteq run.listed \ run.left
    /\ \A f \in run.listed \ run.left : run.read[f] \in Contents
    /\ run.status = "reading" =>
           \A f \in (run.listed \ run.left) \ run.parsed :
               run.options.changedOnly /\ fileRow[f].hash = run.read[f]

IInv ==
    /\ TypeOK
    /\ DocsFinite
    /\ RowsKept
    /\ RunKept
    /\ FactsOfActiveFiles
    /\ CurrentFactsIndexed
    /\ OnlyListedVisible
    /\ ParsedSpecsVisible
    /\ FullRunDocsExact
    /\ DocsAreCounted
    /\ HitsExist
    /\ HashesAreCurrent
    /\ FullRunExact
-----------------------------------------------------------------------------
USE RepoIndexAssumption DEF Files

(* Lemmas about the operators. *)

\* The symbols of finitely many files, each with a content, can be counted.
LEMMA SymbolsInFinite ==
  ASSUME NEW content, NEW files, IsFiniteSet(files),
         \A f \in files : content[f] \in Contents
  PROVE  IsFiniteSet(SymbolsIn(content, files))
  <1> DEFINE of == [f \in files |-> {f} \X SymbolsOf[content[f]]]
             all == {of[f] : f \in files}
  <1>1. of \in Surjection(files, all)
    BY DEF Surjection
  <1>2. IsFiniteSet(all)
    BY <1>1, FS_Surjection
  <1>3. ASSUME NEW s \in all PROVE IsFiniteSet(s)
    <2>1. PICK f \in files : s = {f} \X SymbolsOf[content[f]]
      OBVIOUS
    <2>2. IsFiniteSet({f}) /\ IsFiniteSet(SymbolsOf[content[f]])
      BY FS_Singleton
    <2> QED
      BY <2>1, <2>2, FS_Product
  <1>4. SymbolsIn(content, files) = UNION all
    BY DEF SymbolsIn
  <1> HIDE DEF all
  <1> QED
    BY <1>2, <1>3, <1>4, FS_UNION

\* What is in SymbolsIn, and in SpecsIn.
LEMMA SymbolsInElements ==
  ASSUME NEW content, NEW files
  PROVE  /\ \A x \in SymbolsIn(content, files) : x[1] \in files
         /\ \A f \in files : {f} \X SymbolsOf[content[f]] \subseteq SymbolsIn(content, files)
         /\ \A x \in SpecsIn(content, files) : x[1] \in files
         /\ files \subseteq Files /\ (\A f \in files : content[f] \in Contents) =>
              /\ SymbolsIn(content, files) \subseteq Everything
              /\ SpecsIn(content, files) \subseteq EverySpec
  <1>1. \A x \in SymbolsIn(content, files) : x[1] \in files
    BY DEF SymbolsIn
  <1>2. \A f \in files : {f} \X SymbolsOf[content[f]] \subseteq SymbolsIn(content, files)
    BY DEF SymbolsIn
  <1>3. \A x \in SpecsIn(content, files) : x[1] \in files
    BY DEF SpecsIn
  <1>4. ASSUME files \subseteq Files, \A f \in files : content[f] \in Contents
        PROVE  /\ SymbolsIn(content, files) \subseteq Everything
               /\ SpecsIn(content, files) \subseteq EverySpec
    <2>1. SymbolsIn(content, files) \subseteq Everything
      <3> DEFINE Facts(f, c) == {f} \X SymbolsOf[c]
      <3>1. SymbolsIn(content, files) = UNION {Facts(f, content[f]) : f \in files}
        BY DEF SymbolsIn
      <3>2. Everything = UNION {Facts(f, c) : f \in Files, c \in Contents}
        BY DEF Everything
      <3> HIDE DEF Facts
      <3> QED
        BY <3>1, <3>2, <1>4
    <2>2. SpecsIn(content, files) \subseteq EverySpec
      <3> DEFINE Facts(f, c) == {f} \X SpecsOf[c]
      <3>1. SpecsIn(content, files) = UNION {Facts(f, content[f]) : f \in files}
        BY DEF SpecsIn
      <3>2. EverySpec = UNION {Facts(f, c) : f \in Files, c \in Contents}
        BY DEF EverySpec
      <3> HIDE DEF Facts
      <3> QED
        BY <3>1, <3>2, <1>4
    <2> QED
      BY <2>1, <2>2
  <1> QED
    BY <1>1, <1>2, <1>3, <1>4

\* A set that gains elements is counted by adding those it did not have.
LEMMA CountedWithGain ==
  ASSUME NEW S, NEW T, IsFiniteSet(S), IsFiniteSet(T)
  PROVE  /\ IsFiniteSet(S \union T)
         /\ Cardinality(S \union T) = Cardinality(S) + Cardinality(T \ S)
  <1> DEFINE N == T \ S
  <1>1. IsFiniteSet(N)
    BY FS_Difference
  <1>2. Cardinality(S \union T) = Cardinality(S \union N)
    <2>1. S \union T = S \union N
      OBVIOUS
    <2> QED
      BY <2>1, Zenon
  <1>3. Cardinality(S \intersect N) = 0
    <2>1. S \intersect N = {}
      OBVIOUS
    <2> QED
      BY <2>1, FS_EmptySet, Zenon
  <1> HIDE DEF N
  <1>4. /\ Cardinality(S \union N) =
              Cardinality(S) + Cardinality(N) - Cardinality(S \intersect N)
        /\ Cardinality(S) \in Nat /\ Cardinality(N) \in Nat
    BY <1>1, FS_Union, FS_CardinalityType
  <1>5. Cardinality(S \union T) = Cardinality(S) + Cardinality(N)
    BY <1>2, <1>3, <1>4
  <1>6. IsFiniteSet(S \union T)
    BY FS_Union
  <1> QED
    BY <1>5, <1>6 DEF N

\* A set that is cut down loses as many elements as it is smaller.
LEMMA CountedWithLoss ==
  ASSUME NEW S, NEW R, IsFiniteSet(S), R \subseteq S
  PROVE  /\ IsFiniteSet(R)
         /\ Cardinality(S) \in Nat /\ Cardinality(R) \in Nat
         /\ Cardinality(S \ R) = Cardinality(S) - Cardinality(R)
  <1>1. IsFiniteSet(R)
    BY FS_Subset
  <1>2. Cardinality(S \intersect R) = Cardinality(R)
    <2>1. S \intersect R = R
      OBVIOUS
    <2> QED
      BY <2>1, Zenon
  <1>3. Cardinality(S \ R) = Cardinality(S) - Cardinality(S \intersect R)
    BY FS_Difference
  <1> QED
    BY <1>1, <1>2, <1>3, FS_CardinalityType
-----------------------------------------------------------------------------
(* The steps between commits. *)

\* Nothing is indexed and no run has begun.
LEMMA InitIInv == Init => IInv
  <1> SUFFICES ASSUME Init PROVE IInv
    OBVIOUS
  <1>1. NoRun \in Runs
    <2>1. [changedOnly |-> FALSE, writeMode |-> "auto", maxFiles |-> 1] \in Options
      BY DEF Options, WriteModes
    <2> QED
      BY <2>1 DEF NoRun, Runs
  <1>2. TypeOK
    BY <1>1 DEF Init, TypeOK, NoRow, Runs
  <1>3. DocsFinite /\ DocsAreCounted
    BY FS_EmptySet DEF Init, DocsFinite, DocsAreCounted
  <1>4. NoRun.status = "idle" /\ NoRun.listed = {} /\ NoRun.left = {} /\ NoRun.parsed = {}
    BY DEF NoRun
  <1>5. /\ RunKept /\ RowsKept /\ FactsOfActiveFiles /\ CurrentFactsIndexed
        /\ OnlyListedVisible /\ HitsExist /\ HashesAreCurrent /\ FullRunExact
        /\ ParsedSpecsVisible /\ FullRunDocsExact
    BY <1>4 DEF Init, RunKept, RowsKept, FactsOfActiveFiles, CurrentFactsIndexed,
       OnlyListedVisible, HitsExist, HashesAreCurrent, FullRunExact,
       ParsedSpecsVisible, FullRunDocsExact, Succeeded, NoRow
  <1> QED
    BY <1>2, <1>3, <1>5 DEF IInv

\* What is said of the index alone holds as long as the index does not change,
\* and what is said of a successful run when there is none.
LEMMA IndexUnchanged ==
  ASSUME IInv, UNCHANGED index
  PROVE  /\ DocsFinite' /\ RowsKept' /\ FactsOfActiveFiles' /\ CurrentFactsIndexed'
         /\ DocsAreCounted' /\ HitsExist'
         /\ run'.status # "succeeded" =>
                /\ OnlyListedVisible' /\ HashesAreCurrent' /\ FullRunExact'
                /\ ParsedSpecsVisible' /\ FullRunDocsExact'
  BY DEF IInv, index, DocsFinite, RowsKept, FactsOfActiveFiles, CurrentFactsIndexed,
     DocsAreCounted, HitsExist, OnlyListedVisible, HashesAreCurrent, FullRunExact,
     ParsedSpecsVisible, FullRunDocsExact, Succeeded

\* Files change under a run: nothing the index or the run remembers does.
LEMMA DiskIInv ==
  ASSUME IInv, UNCHANGED <<index, run>>, disk' \in [Files -> Contents \union {Missing}]
  PROVE  IInv'
  <1>1. TypeOK'
    BY DEF IInv, TypeOK, index
  <1>2. RunKept' /\ OnlyListedVisible' /\ HashesAreCurrent' /\ FullRunExact'
    BY DEF IInv, index, RunKept, OnlyListedVisible, HashesAreCurrent, FullRunExact,
       Succeeded
  <1>3. ParsedSpecsVisible' /\ FullRunDocsExact'
    BY DEF IInv, index, ParsedSpecsVisible, FullRunDocsExact, SymbolsIn, SpecsIn, Succeeded
  <1> QED
    BY <1>1, <1>2, <1>3, IndexUnchanged DEF IInv

\* A run starts with nothing read.
LEMMA StartRunIInv ==
  ASSUME IInv, NEW o \in Options, StartRun(o)
  PROVE  IInv'
  <1>1. UNCHANGED <<disk, index>>
    BY DEF StartRun
  <1>2. /\ run'.status = "reading"
        /\ run'.listed = Listed(o) /\ run'.left = Listed(o)
        /\ run'.parsed = {}
    BY DEF StartRun
  <1>3. Listed(o) \subseteq Files
    BY DEF Listed, Present
  <1>4. run' \in Runs
    BY <1>3 DEF StartRun, Runs
  <1>5. TypeOK'
    BY <1>1, <1>4 DEF IInv, TypeOK, index, Runs
  <1>6. RunKept'
    BY <1>2 DEF RunKept
  <1> QED
    BY <1>1, <1>2, <1>5, <1>6, IndexUnchanged DEF IInv

\* A file's turn is over: it has been read, and parsed or found unchanged.
LEMMA TookIInv ==
  ASSUME IInv, NEW f \in Files, NEW parsed \in SUBSET {f}, Turn(f), Took(f, parsed),
         disk[f] # Missing, UNCHANGED <<disk, index>>,
         parsed = {} => run.options.changedOnly /\ Unchanged(f)
  PROVE  IInv'
  <1>1. /\ run'.status = "reading"
        /\ run'.options = run.options
        /\ run'.listed = run.listed
        /\ run'.left = run.left \ {f}
        /\ run'.differs = FALSE
        /\ run'.read = [run.read EXCEPT ![f] = disk[f]]
        /\ run'.parsed = run.parsed \union parsed
        /\ run'.deleted = run.deleted
        /\ f \in run.left
    BY DEF Turn, Took, IInv, TypeOK
  <1>2. run' \in Runs
    BY DEF Took, IInv, TypeOK, Runs
  <1>3. TypeOK'
    BY <1>2 DEF IInv, TypeOK, index, Runs
  <1>4. disk[f] \in Contents
    BY DEF IInv, TypeOK
  <1>5. \A g \in Files : run'.read[g] = IF g = f THEN disk[f] ELSE run.read[g]
    BY <1>1 DEF IInv, TypeOK
  <1>6. run.status = "reading"
    BY DEF Turn
  <1>7. RunKept'
    <2>1. run.listed \subseteq Files
      BY DEF IInv, TypeOK
    <2>2. /\ run'.left \subseteq run'.listed
          /\ run'.parsed \subseteq run'.listed \ run'.left
      BY <1>1 DEF IInv, RunKept
    <2>3. \A g \in run'.listed \ run'.left : run'.read[g] \in Contents
      BY <1>1, <1>4, <1>5, <2>1 DEF IInv, RunKept
    <2>4. ASSUME NEW g \in (run'.listed \ run'.left) \ run'.parsed
          PROVE  run'.options.changedOnly /\ fileRow'[g].hash = run'.read[g]
      <3>1. CASE g = f
        BY <3>1, <1>1, <1>5, <2>4 DEF Unchanged, index
      <3>2. CASE g # f
        BY <3>2, <1>1, <1>5, <1>6, <2>1 DEF IInv, RunKept, index
      <3> QED
        BY <3>1, <3>2
    <2> QED
      BY <2>2, <2>3, <2>4 DEF RunKept
  <1> QED
    BY <1>1, <1>3, <1>7, IndexUnchanged DEF IInv

\* A changed-only run has found a file to differ and will read it once more.
LEMMA DiffersIInv ==
  ASSUME IInv, NEW f \in Files, Differs(f)
  PROVE  IInv'
  <1>1. /\ run'.status = run.status
        /\ run'.options = run.options
        /\ run'.listed = run.listed /\ run'.left = run.left
        /\ run'.read = run.read /\ run'.parsed = run.parsed
        /\ run.status = "reading"
        /\ UNCHANGED <<disk, index>>
    BY DEF Differs, Turn, IInv, TypeOK
  <1>2. TypeOK'
    BY DEF Differs, IInv, TypeOK, index
  <1>3. RunKept'
    BY <1>1 DEF IInv, RunKept, index
  <1> QED
    BY <1>1, <1>2, <1>3, IndexUnchanged DEF IInv

\* A failed run leaves the index, and is forgotten.
LEMMA FailRunIInv ==
  ASSUME IInv, FailRun
  PROVE  IInv'
  <1>1. NoRun.status = "idle" /\ NoRun.listed = {} /\ NoRun.left = {} /\ NoRun.parsed = {}
    BY DEF NoRun
  <1>2. NoRun \in Runs
    <2>1. [changedOnly |-> FALSE, writeMode |-> "auto", maxFiles |-> 1] \in Options
      BY DEF Options, WriteModes
    <2> QED
      BY <2>1 DEF NoRun, Runs
  <1>3. TypeOK'
    BY <1>2 DEF FailRun, IInv, TypeOK, index, Runs
  <1>4. RunKept'
    BY <1>1 DEF FailRun, RunKept
  <1>5. UNCHANGED index /\ run'.status # "succeeded"
    BY <1>1 DEF FailRun
  <1> QED
    BY <1>3, <1>4, <1>5, IndexUnchanged DEF IInv
-----------------------------------------------------------------------------
(* The commit of a run. *)

\* Only a full run clears the repository, and only "auto" chooses the writer
\* that does.
LEMMA ClearsOnlyFull ==
  ASSUME NEW o \in Options, "repository" \in Deletions(o)
  PROVE  ~o.changedOnly
  BY DEF Deletions, Selected, Options, WriteModes

\* What a run has parsed when it commits: every file it has listed, unless it
\* is a changed-only run that has found the rest unchanged.
LEMMA ParsedAtCommit ==
  ASSUME IInv, run.status = "reading", run.left = {}
  PROVE  /\ run.parsed \subseteq run.listed /\ run.listed \subseteq Files
         /\ \A f \in run.listed : run.read[f] \in Contents
         /\ \A f \in run.listed \ run.parsed :
                run.options.changedOnly /\ fileRow[f].hash = run.read[f]
         /\ IsFiniteSet(NewSymbols)
         /\ NewSymbols \subseteq Everything /\ NewSpecs \subseteq EverySpec
         /\ \A x \in NewSymbols \union NewSpecs : x[1] \in run.parsed
         /\ \A f \in run.parsed : {f} \X SymbolsOf[run.read[f]] \subseteq NewSymbols
  <1>1. run.parsed \subseteq run.listed /\ run.listed \subseteq Files
    BY DEF IInv, RunKept, TypeOK
  <1>2. /\ \A f \in run.listed : run.read[f] \in Contents
        /\ \A f \in run.listed \ run.parsed :
               run.options.changedOnly /\ fileRow[f].hash = run.read[f]
    BY DEF IInv, RunKept
  <1>3. IsFiniteSet(run.parsed)
    <2>1. IsFiniteSet(Files)
      BY FS_Interval
    <2> QED
      BY <1>1, <2>1, FS_Subset
  <1>4. IsFiniteSet(NewSymbols)
    BY <1>1, <1>2, <1>3, SymbolsInFinite DEF NewSymbols
  <1>5. /\ NewSymbols \subseteq Everything /\ NewSpecs \subseteq EverySpec
        /\ \A x \in NewSymbols \union NewSpecs : x[1] \in run.parsed
        /\ \A f \in run.parsed : {f} \X SymbolsOf[run.read[f]] \subseteq NewSymbols
    <2>1. run.parsed \subseteq Files /\ \A f \in run.parsed : run.read[f] \in Contents
      BY <1>1, <1>2
    <2> QED
      BY <2>1, SymbolsInElements DEF NewSymbols, NewSpecs
  <1> QED
    BY <1>1, <1>2, <1>4, <1>5

\* A run commits: every part of the invariant, for the writer's deletion, the
\* hiding of files not listed, and the reconciled documents.
LEMMA CommitRunIInv ==
  ASSUME IInv, NEW deleted \in Deletions(run.options), CommitRun(deleted)
  PROVE  IInv'
  <1> DEFINE rows == Rows(deleted)
             stale == Stale(rows)
  <1>1. /\ run.status = "reading" /\ run.left = {}
        /\ fileRow' = [f \in Files |-> IF f \in stale THEN [rows[f] EXCEPT !.active = FALSE]
                                                      ELSE rows[f]]
        /\ symbols' = Hide(KeptSymbols(deleted) \union NewSymbols, stale)
        /\ specs' = Hide(KeptSpecs(deleted) \union NewSpecs, stale)
        /\ docs' = Reconciled
        /\ docCount' = docCount + Added - Deactivated
        /\ run' = [run EXCEPT !.status = "succeeded", !.deleted = deleted]
        /\ UNCHANGED disk
    BY DEF CommitRun
  <1>2. /\ run.parsed \subseteq run.listed /\ run.listed \subseteq Files
        /\ \A f \in run.listed : run.read[f] \in Contents
        /\ \A f \in run.listed \ run.parsed :
               run.options.changedOnly /\ fileRow[f].hash = run.read[f]
        /\ IsFiniteSet(NewSymbols)
        /\ NewSymbols \subseteq Everything /\ NewSpecs \subseteq EverySpec
        /\ \A x \in NewSymbols \union NewSpecs : x[1] \in run.parsed
        /\ \A f \in run.parsed : {f} \X SymbolsOf[run.read[f]] \subseteq NewSymbols
    BY <1>1, ParsedAtCommit
  <1>3. deleted = "repository" => ~run.options.changedOnly
    BY ClearsOnlyFull DEF IInv, TypeOK
  <1>4. deleted \in {"nothing", "specs", "repository"}
    BY DEF Deletions
  <1>5. /\ run'.status = "succeeded" /\ run'.deleted = deleted
        /\ run'.listed = run.listed /\ run'.left = {}
        /\ run'.read = run.read /\ run'.parsed = run.parsed
        /\ run'.options = run.options
        /\ run' \in Runs
    BY <1>1, <1>4 DEF IInv, TypeOK, Runs
  \* The rows: of a parsed file new and active, of another one as before.
  <1>6. \A f \in Files :
          /\ rows[f] \in [hash : Contents \union {Missing}, active : BOOLEAN]
          /\ f \in run.parsed => rows[f].active /\ rows[f].hash = run.read[f]
          /\ f \notin run.parsed /\ deleted = "repository" => ~rows[f].active
          /\ f \notin run.parsed /\ deleted # "repository" => rows[f] = fileRow[f]
    BY <1>2 DEF Rows, NoRow, IInv, TypeOK
  <1>7. stale = {f \in Files : f \notin run.listed /\ rows[f].active}
    BY DEF Stale
  <1> HIDE DEF rows, stale
  <1>8. \A f \in Files :
          /\ fileRow'[f].hash = rows[f].hash
          /\ fileRow'[f].active <=> rows[f].active /\ f \in run.listed
          /\ fileRow'[f] \in [hash : Contents \union {Missing}, active : BOOLEAN]
    BY <1>1, <1>6, <1>7
  <1>9. /\ \A x \in symbols' : x \in KeptSymbols(deleted) \union NewSymbols
                                 /\ x[1] \notin stale
        /\ \A x \in KeptSymbols(deleted) \union NewSymbols :
                x[1] \notin stale => x \in symbols'
        /\ \A x \in specs' : x \in KeptSpecs(deleted) \union NewSpecs
                               /\ x[1] \notin stale
    BY <1>1 DEF Hide
  <1>10. /\ KeptSymbols(deleted) \subseteq symbols /\ KeptSpecs(deleted) \subseteq specs
         /\ deleted = "repository" => KeptSymbols(deleted) = {} /\ KeptSpecs(deleted) = {}
         /\ deleted # "repository" => KeptSymbols(deleted) = symbols
    BY DEF KeptSymbols, KeptSpecs
  <1>11. /\ run.options.changedOnly =>
               docs' = {d \in docs \union NewSymbols : d[1] \in run.listed}
         /\ ~run.options.changedOnly => docs' = NewSymbols
    BY <1>1 DEF Reconciled
  <1>12. DocsFinite' /\ DocsAreCounted' /\ docCount' \in Nat
    <2>1. docs' \subseteq docs \union NewSymbols
      BY <1>11 DEF IInv, TypeOK
    <2>2. /\ IsFiniteSet(docs')
          /\ Cardinality(docs') \in Nat
          /\ Cardinality(docs') = Cardinality(docs) + Cardinality(NewSymbols \ docs)
                                    - Cardinality((docs \union NewSymbols) \ docs')
      <3> DEFINE all == docs \union NewSymbols
      <3>1. IsFiniteSet(docs) /\ IsFiniteSet(NewSymbols)
        BY <1>2 DEF IInv, DocsFinite
      <3>2. /\ IsFiniteSet(all)
            /\ Cardinality(all) = Cardinality(docs) + Cardinality(NewSymbols \ docs)
        BY <3>1, CountedWithGain
      <3>3. docs' \subseteq all
        BY <2>1
      <3> HIDE DEF all
      <3>4. /\ IsFiniteSet(docs')
            /\ Cardinality(all) \in Nat /\ Cardinality(docs') \in Nat
            /\ Cardinality(all \ docs') = Cardinality(all) - Cardinality(docs')
        BY <3>2, <3>3, CountedWithLoss
      <3>5. Cardinality(docs') = Cardinality(docs) + Cardinality(NewSymbols \ docs)
                                    - Cardinality(all \ docs')
        <4>1. Cardinality(docs) \in Nat /\ Cardinality(NewSymbols \ docs) \in Nat
          BY <3>1, FS_Difference, FS_CardinalityType
        <4> QED
          BY <3>2, <3>4, <4>1
      <3> QED
        BY <3>4, <3>5 DEF all
    <2>3. docCount = Cardinality(docs)
      BY DEF IInv, DocsAreCounted
    <2>4. docCount' = Cardinality(docs) + Cardinality(NewSymbols \ docs)
                        - Cardinality((docs \union NewSymbols) \ docs')
      BY <1>1, <2>3 DEF Added, Deactivated
    <2> QED
      BY <2>2, <2>4 DEF DocsFinite, DocsAreCounted
  \* Whatever is kept or new is of a file with an active row.
  <1>13. ASSUME NEW x \in KeptSymbols(deleted) \union NewSymbols
                            \union KeptSpecs(deleted) \union NewSpecs
         PROVE  x[1] \in Files /\ rows[x[1]].active
    <2>1. CASE x \in NewSymbols \union NewSpecs
      BY <2>1, <1>2, <1>6
    <2>2. CASE x \in KeptSymbols(deleted) \union KeptSpecs(deleted)
      <3>1. deleted # "repository" /\ x \in symbols \union specs
        BY <2>2, <1>10
      <3>2. x[1] \in Files
        BY <3>1 DEF IInv, TypeOK, Everything, EverySpec
      <3>3. fileRow[x[1]].active
        BY <3>1 DEF IInv, FactsOfActiveFiles
      <3> QED
        BY <3>1, <3>2, <3>3, <1>6
    <2> QED
      BY <2>1, <2>2
  <1>14. \A x \in symbols' \union specs' :
            x[1] \in Files /\ x[1] \in run.listed /\ fileRow'[x[1]].active
    BY <1>7, <1>8, <1>9, <1>13
  <1>15. \A d \in docs' : d[1] \in run.listed
    BY <1>2, <1>11
  <1>16. TypeOK'
    <2>1. disk' \in [Files -> Contents \union {Missing}]
      BY <1>1 DEF IInv, TypeOK
    <2>2. fileRow' \in [Files -> [hash : Contents \union {Missing}, active : BOOLEAN]]
      BY <1>1, <1>8
    <2>3. symbols' \subseteq Everything /\ specs' \subseteq EverySpec
      BY <1>2, <1>9, <1>10 DEF IInv, TypeOK
    <2>4. docs' \subseteq Everything
      BY <1>2, <1>11 DEF IInv, TypeOK
    <2>5. Everything' = Everything /\ EverySpec' = EverySpec
      BY DEF Everything, EverySpec
    <2> QED
      BY <1>5, <1>12, <2>1, <2>2, <2>3, <2>4 DEF TypeOK, Runs
  <1>17. RowsKept'
    <2>1. ASSUME NEW f \in Files, fileRow'[f].active
          PROVE  fileRow'[f].hash \in Contents
      <3>1. CASE f \in run.parsed
        BY <3>1, <1>2, <1>6, <1>8
      <3>2. CASE f \notin run.parsed
        BY <3>2, <2>1, <1>6, <1>8 DEF IInv, RowsKept
      <3> QED
        BY <3>1, <3>2
    <2> QED
      BY <2>1 DEF RowsKept
  <1>18. RunKept'
    BY <1>1, <1>2, <1>5 DEF RunKept
  <1>19. FactsOfActiveFiles'
    BY <1>14 DEF FactsOfActiveFiles
  <1>20. CurrentFactsIndexed'
    <2> SUFFICES ASSUME NEW f \in Files, fileRow'[f].active,
                        NEW x \in {f} \X SymbolsOf[fileRow'[f].hash]
                 PROVE  x \in symbols' /\ x \in docs'
      BY DEF CurrentFactsIndexed
    <2>1. f \in run.listed /\ rows[f].active /\ f \notin stale /\ x[1] = f
      BY <1>7, <1>8
    <2>2. CASE f \in run.parsed
      <3>1. fileRow'[f].hash = run.read[f]
        BY <2>2, <1>6, <1>8
      <3>2. x \in NewSymbols
        BY <2>2, <3>1, <1>2
      <3> QED
        BY <3>2, <2>1, <1>9, <1>11
    <2>3. CASE f \notin run.parsed
      <3>1. deleted # "repository" /\ rows[f] = fileRow[f] /\ run.options.changedOnly
        BY <2>1, <2>3, <1>2, <1>6
      <3>2. fileRow[f].active /\ fileRow'[f].hash = fileRow[f].hash
        BY <2>1, <3>1, <1>8
      <3>3. x \in symbols /\ x \in docs
        BY <3>2 DEF IInv, CurrentFactsIndexed
      <3> QED
        BY <3>1, <3>3, <2>1, <1>9, <1>10, <1>11
    <2> QED
      BY <2>2, <2>3
  <1>21. OnlyListedVisible'
    BY <1>5, <1>14, <1>15 DEF OnlyListedVisible
  <1>22. HitsExist'
    <2>1. ASSUME NEW d \in docs' PROVE d \in symbols'
      <3>1. d[1] \in run.listed /\ d[1] \notin stale
        BY <1>7, <1>15
      <3>2. d \in KeptSymbols(deleted) \union NewSymbols
        <4>1. CASE d \in NewSymbols
          BY <4>1
        <4>2. CASE d \notin NewSymbols
          <5>1. run.options.changedOnly /\ d \in docs
            BY <4>2, <1>11
          <5> QED
            BY <5>1, <1>3, <1>10 DEF IInv, HitsExist
        <4> QED
          BY <4>1, <4>2
      <3> QED
        BY <3>1, <3>2, <1>9
    <2> QED
      BY <2>1 DEF HitsExist
  <1>23. HashesAreCurrent'
    <2>1. ASSUME NEW f \in run.listed PROVE fileRow'[f].hash = run.read[f]
      <3>1. CASE f \in run.parsed
        BY <3>1, <1>2, <1>6, <1>8
      <3>2. CASE f \notin run.parsed
        BY <3>2, <1>2, <1>3, <1>6, <1>8
      <3> QED
        BY <3>1, <3>2
    <2> QED
      BY <2>1, <1>5 DEF HashesAreCurrent
  <1>24. FullRunExact'
    <2> SUFFICES ASSUME deleted = "repository"
                 PROVE  /\ symbols' = NewSymbols /\ specs' = NewSpecs /\ docs' = NewSymbols
                        /\ run.parsed = run.listed
      BY <1>5 DEF FullRunExact, NewSymbols, NewSpecs, SymbolsIn, SpecsIn
    <2>1. run.parsed = run.listed /\ ~run.options.changedOnly
      BY <1>2, <1>3
    <2>2. \A x \in NewSymbols \union NewSpecs : x[1] \notin stale
      BY <1>2, <1>7
    <2>3. symbols' = NewSymbols
      BY <2>2, <1>9, <1>10
    <2>4. specs' = NewSpecs
      BY <2>2, <1>1, <1>10 DEF Hide
    <2> QED
      BY <2>1, <2>3, <2>4, <1>11
  <1>25. ParsedSpecsVisible'
    <2>1. SpecsIn(run'.read, run'.parsed) = NewSpecs
      BY <1>5 DEF NewSpecs, SpecsIn
    <2>2. \A x \in NewSpecs : x[1] \notin stale
      BY <1>2, <1>7
    <2>3. NewSpecs \subseteq specs'
      BY <2>2, <1>1 DEF Hide
    <2>4. ASSUME deleted = "specs", NewSpecs # {} PROVE specs' = NewSpecs
      BY <2>2, <2>4, <1>1 DEF Hide, KeptSpecs
    <2> QED
      BY <2>1, <2>3, <2>4, <1>5 DEF ParsedSpecsVisible
  <1>26. FullRunDocsExact'
    <2>1. SymbolsIn(run'.read, run'.listed) = SymbolsIn(run.read, run.listed)
      BY <1>5 DEF SymbolsIn
    <2>2. ASSUME ~run.options.changedOnly PROVE docs' = SymbolsIn(run.read, run.listed)
      <3>1. run.parsed = run.listed
        BY <2>2, <1>2
      <3> QED
        BY <2>2, <3>1, <1>11 DEF NewSymbols
    <2> QED
      BY <2>1, <2>2, <1>5 DEF FullRunDocsExact
  <1> QED
    BY <1>12, <1>16, <1>17, <1>18, <1>19, <1>20, <1>21, <1>22, <1>23, <1>24, <1>25, <1>26
       DEF IInv

\* A step that changes nothing.
LEMMA StutterIInv == IInv /\ UNCHANGED vars => IInv'
  <1> SUFFICES ASSUME IInv, UNCHANGED vars PROVE IInv'
    OBVIOUS
  <1>1. UNCHANGED <<index, run>> /\ disk' = disk
    BY DEF vars, index
  <1> QED
    BY <1>1, DiskIInv DEF IInv, TypeOK

\* IInv is an invariant of the index.
LEMMA Inductive == Spec => []IInv
  <1>1. Init => IInv
    BY InitIInv
  <1>2. IInv /\ [Next]_vars => IInv'
    <2> SUFFICES ASSUME IInv, [Next]_vars PROVE IInv'
      OBVIOUS
    <2>1. ASSUME NEW f \in Files, NEW c \in Contents, WriteFile(f, c) PROVE IInv'
      BY <2>1, DiskIInv DEF WriteFile, IInv, TypeOK
    <2>2. ASSUME NEW f \in Files, DeleteFile(f) PROVE IInv'
      BY <2>2, DiskIInv DEF DeleteFile, IInv, TypeOK
    <2>3. ASSUME NEW f \in Files, Skip(f) PROVE IInv'
      BY <2>3, TookIInv DEF Skip
    <2>4. ASSUME NEW f \in Files, Parse(f) PROVE IInv'
      BY <2>4, TookIInv DEF Parse
    <2>5. ASSUME NEW deleted \in Deletions(run.options), CommitRun(deleted) PROVE IInv'
      BY <2>5, CommitRunIInv
    <2>6. CASE UNCHANGED vars
      BY <2>6, StutterIInv
    <2> QED
      BY <2>1, <2>2, <2>3, <2>4, <2>5, <2>6, StartRunIInv, DiffersIInv, FailRunIInv
         DEF Next
  <1> QED
    BY <1>1, <1>2, PTL DEF Spec
-----------------------------------------------------------------------------
\* No fact is visible of a hidden file, or of one the last run has not listed; of an
\* active file every symbol is that it had when it was last parsed, in the graph and
\* in the lexical store, and the specs of what the last run has parsed; the documents
\* are exact after a full run.  Over any sequence of runs of any kind and any changes
\* of files.
THEOREM IndexIsVisible == Spec => []VisibleIsIndexed
  <1>1. IInv => VisibleIsIndexed
    BY DEF IInv, VisibleIsIndexed
  <1> QED
    BY <1>1, Inductive, PTL

\* The active documents are those of visible symbols, and their count, kept by
\* deltas, is exact.
THEOREM LexicalIsSound == Spec => []LexicalSound
  <1>1. IInv => LexicalSound
    BY DEF IInv, LexicalSound
  <1> QED
    BY <1>1, Inductive, PTL

\* A run leaves of each listed file what it has read of it, and one that clears
\* the repository leaves nothing else.
THEOREM RunsLeaveTheirReads == Spec => []RunsLeaveWhatTheyRead
  <1>1. IInv => RunsLeaveWhatTheyRead
    BY DEF IInv, RunsLeaveWhatTheyRead
  <1> QED
    BY <1>1, Inductive, PTL
=============================================================================

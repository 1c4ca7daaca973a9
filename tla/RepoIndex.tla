------------------------------ MODULE RepoIndex ------------------------------
(***************************************************************************)
(* What the index of one repository says about its files, run after run.   *)
(* Files change on disk at any time; an index run reads them, compares     *)
(* their hashes with the stored ones, writes the facts of those it has     *)
(* parsed with one of three writers, and hides what belongs to files it    *)
(* has not found.  GraphWrite shows that a run happens at once or not at   *)
(* all; here it does, and the question is what the graph and the lexical   *)
(* documents then contain.                                                 *)
(*                                                                         *)
(* A content stands for the text of a file and for its hash.  Parsing it   *)
(* yields symbols (Code and Section rows, each with a lexical document)    *)
(* and contract specs.  The id of a symbol names its file and its line, so *)
(* a symbol that moves is another symbol.  Rows that are inactive are seen *)
(* by no query, and are not told apart from absent ones, except the File   *)
(* row, whose hash a changed-only run consults.                            *)
(***************************************************************************)
EXTENDS Integers, FiniteSets

CONSTANTS NumFiles,    \* the paths of the repository, in sorted order
          Contents,    \* what a file may contain
          SymbolsOf,   \* SymbolsOf[c]: the symbols of content c
          SpecsOf,     \* SpecsOf[c]: its contract specs
          Missing,     \* no such file, and no such row
          Provider     \* config.graph.provider

ASSUME RepoIndexAssumption ==
    /\ NumFiles \in Nat \ {0}
    /\ Missing \notin Contents
    /\ DOMAIN SymbolsOf = Contents /\ DOMAIN SpecsOf = Contents
    /\ \A c \in Contents : IsFiniteSet(SymbolsOf[c])
    /\ Provider \in {"kuzu", "neo4j"}

VARIABLES
    disk,       \* disk[f]: the content of f, or Missing
    fileRow,    \* the File rows: hash and active flag
    symbols,    \* the active Code and Section rows, as <<file, symbol>>
    specs,      \* the active ContractSpec rows, as <<file, spec>>
    docs,       \* the active lexical documents of symbols
    docCount,   \* LexicalWorkspaceStats.documentCount
    run         \* the run in progress, or the last one

vars == <<disk, fileRow, symbols, specs, docs, docCount, run>>
index == <<fileRow, symbols, specs, docs, docCount>>

Files == 1..NumFiles
NoRow == [hash |-> Missing, active |-> FALSE]
WriteModes == {"auto", "merge", "bulk-upsert"}
Options == [changedOnly : BOOLEAN, writeMode : WriteModes, maxFiles : 1..NumFiles]
NoRun == [status |-> "idle", listed |-> {}, left |-> {}, differs |-> FALSE,
          options |-> [changedOnly |-> FALSE, writeMode |-> "auto", maxFiles |-> 1],
          read |-> [f \in Files |-> Missing], parsed |-> {}, deleted |-> "nothing"]

SymbolsIn(content, files) == UNION {{f} \X SymbolsOf[content[f]] : f \in files}
SpecsIn(content, files) == UNION {{f} \X SpecsOf[content[f]] : f \in files}

(***************************************************************************)
(* The writer selectGraphWriter chooses, and what a writer deletes before  *)
(* it writes: append-copy clears the repository, bulk-upsert its specs.    *)
(* When a writer chosen by "auto" fails, merge writes the batch instead,   *)
(* after the deletion or before it had happened.                           *)
(***************************************************************************)
Selected(o) ==
    CASE Provider # "kuzu" -> "merge"
      [] Provider = "kuzu" /\ o.writeMode = "auto" ->
             IF o.changedOnly THEN "bulk-upsert" ELSE "append-copy"
      [] OTHER -> o.writeMode

Deletions(o) ==
    {CASE Selected(o) = "append-copy" -> "repository"
       [] Selected(o) = "bulk-upsert" -> "specs"
       [] OTHER -> "nothing"}
    \union (IF o.writeMode = "auto" THEN {"nothing"} ELSE {})

(***************************************************************************)
(* scanRepoFiles: the first maxFiles files in path order.                  *)
(***************************************************************************)
Present == {f \in Files : disk[f] # Missing}
Listed(o) == {f \in Present : Cardinality({g \in Present : g <= f}) <= o.maxFiles}

(***************************************************************************)
(* scanAndParseRepo takes the listed files in order, and reads each of     *)
(* them when its turn comes.  A changed-only run compares the hash of what *)
(* it reads with the one in the File row, which need not be active, skips  *)
(* the file when they agree, and otherwise reads it once more to parse it. *)
(***************************************************************************)
Unchanged(f) == fileRow[f].hash = disk[f]

Turn(f) == /\ run.status = "reading"
           /\ f \in run.left
           /\ \A g \in run.left : f <= g

Took(f, parsed) == run' = [run EXCEPT !.left = @ \ {f}, !.differs = FALSE,
                                      !.read[f] = disk[f], !.parsed = @ \union parsed]

StartRun(o) ==
    /\ run.status # "reading"
    /\ run' = [status |-> "reading", options |-> o, listed |-> Listed(o),
               left |-> Listed(o), differs |-> FALSE,
               read |-> [f \in Files |-> Missing], parsed |-> {}, deleted |-> "nothing"]
    /\ UNCHANGED <<disk, index>>

Skip(f) ==
    /\ Turn(f) /\ run.options.changedOnly /\ ~run.differs
    /\ disk[f] # Missing /\ Unchanged(f)
    /\ Took(f, {})
    /\ UNCHANGED <<disk, index>>

Differs(f) ==
    /\ Turn(f) /\ run.options.changedOnly /\ ~run.differs
    /\ disk[f] # Missing /\ ~Unchanged(f)
    /\ run' = [run EXCEPT !.differs = TRUE]
    /\ UNCHANGED <<disk, index>>

Parse(f) ==
    /\ Turn(f) /\ (run.options.changedOnly => run.differs)
    /\ disk[f] # Missing
    /\ Took(f, {f})
    /\ UNCHANGED <<disk, index>>

(***************************************************************************)
(* What the graph holds after the writer, for the files it has parsed and  *)
(* the others, and after markRepoArtifactsStale, which hides the active    *)
(* files the run has not listed with the facts in them.                    *)
(***************************************************************************)
NewSymbols == SymbolsIn(run.read, run.parsed)
NewSpecs == SpecsIn(run.read, run.parsed)

KeepsSymbolsAnyway(deleted) == symbols
KeptSymbols(deleted) == IF deleted = "repository" THEN {} ELSE symbols

KeptSpecs(deleted) ==
    IF \/ deleted = "repository"
       \/ deleted = "specs" /\ NewSpecs # {}
    THEN {}
    ELSE specs

Rows(deleted) ==
    [f \in Files |-> IF f \in run.parsed THEN [hash |-> run.read[f], active |-> TRUE]
                     ELSE IF deleted = "repository" THEN NoRow ELSE fileRow[f]]

Stale(rows) == {f \in Files \ run.listed : rows[f].active}

Hide(items, stale) == {x \in items : x[1] \notin stale}

(***************************************************************************)
(* The lexical store: upsertDocuments, and then either every document the  *)
(* run has not written goes (a full run), or every document of a file it   *)
(* has not listed (a changed-only run).  Each adjusts the counter.         *)
(***************************************************************************)
ReconciledByRepo == NewSymbols
Reconciled == IF run.options.changedOnly THEN {d \in docs \union NewSymbols : d[1] \in run.listed}
                                         ELSE NewSymbols

Added == Cardinality(NewSymbols \ docs)
DeactivatedAll == Cardinality(docs \union NewSymbols)
Deactivated == Cardinality((docs \union NewSymbols) \ Reconciled)

CommitRun(deleted) ==
    /\ run.status = "reading" /\ run.left = {}
    /\ LET rows == Rows(deleted)
           stale == Stale(rows)
       IN /\ fileRow' = [f \in Files |-> IF f \in stale THEN [rows[f] EXCEPT !.active = FALSE]
                                                        ELSE rows[f]]
          /\ symbols' = Hide(KeptSymbols(deleted) \union NewSymbols, stale)
          /\ specs' = Hide(KeptSpecs(deleted) \union NewSpecs, stale)
    /\ docs' = Reconciled
    /\ docCount' = docCount + Added - Deactivated
    /\ run' = [run EXCEPT !.status = "succeeded", !.deleted = deleted]
    /\ UNCHANGED disk

(***************************************************************************)
(* A run fails when a listed file has gone, does not parse, or cannot be   *)
(* written; the transaction has then left the index as it was.             *)
(***************************************************************************)
FailRun ==
    /\ run.status = "reading"
    /\ run' = NoRun
    /\ UNCHANGED <<disk, index>>

\* A file is created or written, or deleted; a rename is one and the other.
WriteFile(f, c) == /\ disk[f] # c
                   /\ disk' = [disk EXCEPT ![f] = c]
                   /\ UNCHANGED <<index, run>>
DeleteFile(f) == /\ disk[f] # Missing
                 /\ disk' = [disk EXCEPT ![f] = Missing]
                 /\ UNCHANGED <<index, run>>

Init ==
    /\ disk \in [Files -> Contents \union {Missing}]
    /\ fileRow = [f \in Files |-> NoRow]
    /\ symbols = {} /\ specs = {} /\ docs = {}
    /\ docCount = 0
    /\ run = NoRun

Next ==
    \/ \E f \in Files, c \in Contents : WriteFile(f, c)
    \/ \E f \in Files : DeleteFile(f)
    \/ \E o \in Options : StartRun(o)
    \/ \E f \in Files : Skip(f)
    \/ \E f \in Files : Differs(f)
    \/ \E f \in Files : Parse(f)
    \/ \E deleted \in Deletions(run.options) : CommitRun(deleted)
    \/ FailRun

Spec == Init /\ [][Next]_vars

-----------------------------------------------------------------------------
(***************************************************************************)
(* What the index promises.                                                *)
(***************************************************************************)
Succeeded == run.status = "succeeded"
Everything == UNION {{f} \X SymbolsOf[c] : f \in Files, c \in Contents}
EverySpec == UNION {{f} \X SpecsOf[c] : f \in Files, c \in Contents}

\* The types of the variables; in particular the count of documents, which is
\* only ever adjusted, does not fall below zero.
TypeOK ==
    /\ disk \in [Files -> Contents \union {Missing}]
    /\ fileRow \in [Files -> [hash : Contents \union {Missing}, active : BOOLEAN]]
    /\ symbols \subseteq Everything /\ specs \subseteq EverySpec /\ docs \subseteq Everything
    /\ docCount \in Nat
    /\ run \in [status : {"idle", "reading", "succeeded"}, options : Options,
                listed : SUBSET Files, left : SUBSET Files, differs : BOOLEAN,
                read : [Files -> Contents \union {Missing}], parsed : SUBSET Files,
                deleted : {"nothing", "specs", "repository"}]

\* No query finds a symbol or a spec in a file that is hidden: the graph shows
\* facts of active files only, over any mixture of full runs, changed-only runs,
\* writers and file limits (markRepoArtifactsStale marks the two separately).
FactsOfActiveFiles ==
    \A x \in symbols \union specs : fileRow[x[1]].active

\* A changed-only run that skips a file may do so: whatever an active file's
\* stored hash says it contains is in the graph and in the lexical documents.
CurrentFactsIndexed ==
    \A f \in Files : fileRow[f].active =>
        {f} \X SymbolsOf[fileRow[f].hash] \subseteq symbols \intersect docs

\* LexicalWorkspaceStats.documentCount, kept by deltas, is the number of active
\* documents.
DocsAreCounted == docCount = Cardinality(docs)

\* A lexical hit leads to a row of the graph that is active.
HitsExist == docs \subseteq symbols

\* After a run, the stored hash of every listed file is that of what the run has
\* read of it, although files change between the comparison and the parsing.
HashesAreCurrent ==
    Succeeded => \A f \in run.listed : fileRow[f].hash = run.read[f]

\* After a run nothing is visible of a file that it has not listed, in the graph
\* or in the lexical store (deleted, renamed or beyond the limit of files).
OnlyListedVisible ==
    Succeeded => \A x \in symbols \union specs \union docs : x[1] \in run.listed

\* After a run the specs of every file it has parsed are visible, and when the
\* bulk-upsert writer has cleared the specs first, no others are: those of the files
\* it has skipped are gone, although the files have not changed
\* (bulkWriter.ts:388-396 deletes by repository, not by file).
ParsedSpecsVisible ==
    LET parsedSpecs == SpecsIn(run.read, run.parsed)
    IN Succeeded => /\ parsedSpecs \subseteq specs
                    /\ run.deleted = "specs" /\ parsedSpecs # {} => specs = parsedSpecs

\* After a full run the documents are those of what it has read, whichever writer
\* has written the graph; the graph itself may show symbols that have moved.
FullRunDocsExact ==
    Succeeded /\ ~run.options.changedOnly => docs = SymbolsIn(run.read, run.listed)

\* Together, between which bounds the visible facts of a repository lie.  No fact is
\* visible of a file that is hidden, or that the last run has not listed.  Of an
\* active file at least every symbol it had when it was last parsed is, and the
\* specs of those the last run has parsed.  The graph may show more symbols than
\* that, those of earlier contents of an active file (no statement removes the rows
\* of a file that is written again), and fewer specs; FullRunExact says when it does
\* not.  (markRepoArtifactsStale, the three writers and the two ways to reconcile
\* documents hide and show them by separate statements.)
VisibleIsIndexed ==
    /\ TypeOK
    /\ FactsOfActiveFiles
    /\ CurrentFactsIndexed
    /\ OnlyListedVisible
    /\ ParsedSpecsVisible
    /\ FullRunDocsExact

\* The documents are those of visible symbols, and counted (the store of documents
\* is another one than the graph, and keeps its count by deltas).
LexicalSound == DocsAreCounted /\ HitsExist

\* A full run that clears the repository leaves what it has read and nothing else.
FullRunExact ==
    Succeeded /\ run.deleted = "repository" =>
        /\ symbols = SymbolsIn(run.read, run.listed)
        /\ specs = SpecsIn(run.read, run.listed)
        /\ docs = symbols

\* A run leaves of each listed file what it has read of it, whatever else changes
\* while it reads (scanParse.ts:62-107, graphWrite.ts:386-430).
RunsLeaveWhatTheyRead == HashesAreCurrent /\ FullRunExact

=============================================================================

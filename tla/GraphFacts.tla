------------------------------ MODULE GraphFacts ------------------------------
(***************************************************************************)
(* What the writers of a batch of facts leave in the graph.  A batch is    *)
(* written by one of four writers: the statements of Neo4jBatchWriter, COPY *)
(* into an empty Kuzu graph, COPY after the repositories' facts were        *)
(* cleared, or LOAD and MERGE; when one of the last two fails half way, the *)
(* one-by-one writer takes over.  GraphWrite has the journal, the           *)
(* transactions and the choice of the writer; here are the rows.            *)
(*                                                                         *)
(* A file has a row of each label that its kind has, and the relations that *)
(* the facts of its batch give.  An edge is identified by its link (table,  *)
(* ends and the evidence or module it is keyed by) and, of two statements   *)
(* that import the same file, by their text.                               *)
(***************************************************************************)
EXTENDS Naturals, FiniteSets, Sequences
LOCAL INSTANCE SequencesExt

CONSTANTS RepoOf,      \* the repository of each file
          Documents,   \* the files that are Markdown documents
          Consumers,   \* the files that consume the contract; the others produce it
          Contents,    \* the sets of files that each repository may have
          FailsAt,     \* before which of its statements a writer fails
          MaxWrites    \* bound: how many batches and rejections there are

VARIABLE store    \* the graph, the number of changes and the batch written last

Files == DOMAIN RepoOf
ReposOf(files) == {RepoOf[f] : f \in files}

-----------------------------------------------------------------------------
(* buildGraphFactsBatch: the rows of a batch of parsed files. *)

Of(label, f) == [label |-> label, repo |-> RepoOf[f], file |-> f]
Repo(r) == [label |-> "Repo", repo |-> r, file |-> ""]
The(label) == [label |-> label, repo |-> "", file |-> ""]

Labels(f) == IF f \in Documents THEN {"File", "Section"} ELSE {"File", "Code", "Evidence", "ContractSpec"}

Nodes(files) ==
    UNION {{Of(label, f) : label \in Labels(f)} : f \in files}
        \union {Repo(r) : r \in ReposOf(files)}
        \union {The(label) : label \in {"Entity", "Operation", "Workflow", "Contract"}}

Row(table, from, to, key) == [table |-> table, from |-> from, to |-> to, key |-> key, raw |-> 1]

CodeRows(f) ==
    LET repo == Repo(RepoOf[f])  evidence == Of("Evidence", f)
    IN  {Row("CONTAINS", Of("File", f), Of("Code", f), ""),
         Row("MENTIONS", Of("Code", f), The("Entity"), ""),
         Row("HAS_EVIDENCE", repo, evidence, ""), Row("HAS_EVIDENCE", The("Contract"), evidence, ""),
         Row(IF f \in Consumers THEN "CONSUMES" ELSE "PRODUCES", repo, The("Contract"), f),
         Row("CONTRACT_MENTIONS", The("Contract"), The("Entity"), f),
         Row("PARTICIPATES_IN", repo, The("Operation"), f),
         Row("WORKFLOW_STEP", The("Workflow"), The("Operation"), f),
         Row("HAS_SPEC", The("Contract"), Of("ContractSpec", f), f)}
            \union (IF f \in Consumers THEN {Row("USES_PACKAGE", repo, The("Contract"), f)} ELSE {})

DocumentRows(f) ==
    {Row("CONTAINS", Of("File", f), Of("Section", f), ""),
     Row("MENTIONS", Of("Section", f), The("Entity"), ""),
     Row("DESCRIBES", Of("Section", f), Repo(RepoOf[f]), "")}

\* A file and another of its repository; two statements may import one file.
NeighbourRows(f, g) ==
    IF f \in Documents
    THEN {Row("REFERENCES", Of("Section", f), Of("File", g), "")}
            \union (IF g \in Documents THEN {} ELSE {Row("DOCUMENTS", Of("Section", f), Of("Code", g), "")})
    ELSE IF g \in Documents THEN {}
         ELSE {[Row("IMPORTS", Of("File", f), Of("File", g), "module") EXCEPT !.raw = n] : n \in 1..2}
                 \union {Row("CALLS", Of("Code", f), Of("Code", g), "")}

\* A consumer and a producer of another repository.
CrossRows(f, g) ==
    {Row("DEPENDS_ON", Repo(RepoOf[f]), Repo(RepoOf[g]), f),
     Row("SEMANTIC_REL", Of("ContractSpec", f), Of("ContractSpec", g), f)}

Rows(files) ==
    LET pairs == files \X files
        code == files \ Documents
    IN  UNION {{Row("CONTAINS", The("System"), Repo(r), "") : r \in ReposOf(files)},
               {Row("CONTAINS", Repo(RepoOf[f]), Of("File", f), "") : f \in files},
               UNION {IF f \in Documents THEN DocumentRows(f) ELSE CodeRows(f) : f \in files},
               UNION {NeighbourRows(p[1], p[2]) :
                         p \in {q \in pairs : q[1] # q[2] /\ RepoOf[q[1]] = RepoOf[q[2]]}},
               UNION {CrossRows(p[1], p[2]) :
                         p \in {q \in code \X code : /\ q[1] \in Consumers /\ q[2] \notin Consumers
                                                     /\ RepoOf[q[1]] # RepoOf[q[2]]}}}

-----------------------------------------------------------------------------
(* Statements.  A graph has nodes, edges and whether no statement failed.   *)
(* An edge's n tells edges of one link apart.                               *)

Link(row) == <<row.table, row.from, row.to, row.key>>
Ids(g) == {n.id : n \in g.nodes}
EndsExist(g, row) == {row.from, row.to} \subseteq Ids(g)
NodeOf(id, b) == [id |-> id, batch |-> b, active |-> TRUE]
Failed(g) == [g EXCEPT !.ok = FALSE]

\* MERGE by id.
Upsert(g, ids, b) ==
    [g EXCEPT !.nodes = {n \in @ : n.id \notin ids} \union {NodeOf(id, b) : id \in ids}]

\* COPY into a node table fails on an id that is there.
Create(g, ids, b) ==
    IF ids \intersect Ids(g) = {} THEN [g EXCEPT !.nodes = @ \union {NodeOf(id, b) : id \in ids}] ELSE Failed(g)

\* Edges of the rows, numbered after those that are there.
NewEdges(g, rows, b) ==
    {[row |-> r, batch |-> b, active |-> TRUE,
      n |-> Cardinality({e \in g.edges : Link(e.row) = Link(r)})
              + Cardinality({q \in rows : Link(q) = Link(r) /\ q.raw < r.raw})] : r \in rows}

\* COPY into a relation table fails on an end that is missing.
Copy(g, rows, b) ==
    IF \A r \in rows : EndsExist(g, r) THEN [g EXCEPT !.edges = @ \union NewEdges(g, rows, b)] ELSE Failed(g)

\* MATCH and MERGE: a row whose end is missing does nothing.  The text is in
\* the key or it is set on every edge that matches, the last row's last.
Merge(g, rows, b, textInKey) ==
    LET live == {r \in rows : EndsExist(g, r)}
        matches(e, r) == Link(e.row) = Link(r) /\ (textInKey => e.row.raw = r.raw)
        hits(e) == {r \in live : matches(e, r)}
        lastOf(S) == CHOOSE r \in S : \A q \in S : q.raw <= r.raw
        missed == {r \in live : ~\E e \in g.edges : matches(e, r)}
        new == IF textInKey THEN missed ELSE {lastOf({q \in missed : Link(q) = Link(r)}) : r \in missed}
    IN  [g EXCEPT !.edges =
            {IF hits(e) = {} THEN e ELSE [e EXCEPT !.row = lastOf(hits(e)), !.batch = b, !.active = TRUE] : e \in @}
                \union NewEdges(g, new, b)]

\* DELETE of edges and of nodes, which fails on a node that has edges left.
Delete(g, edges, ids) ==
    LET left == g.edges \ edges
    IN  IF \E e \in left : {e.row.from, e.row.to} \intersect ids # {} THEN Failed(g)
        ELSE [g EXCEPT !.edges = left, !.nodes = {n \in @ : n.id \notin ids}]

-----------------------------------------------------------------------------
(* clearRepoIndexedArtifacts: what hangs on the repository or on its rows,  *)
(* then the rows.                                                          *)

ClearedNodes(g, r) == {n.id : n \in {m \in g.nodes : m.id.repo = r /\ m.id.label # "Repo"}}

\* Only the edges that leave the repository's rows.
ClearedBySource(g, r) == {e \in g.edges : e.row.from.repo = r}

ClearedEdges(g, r) ==
    LET of(id) == id.repo = r
        isEvidence(f) == f \in Files /\ Of("Evidence", f) \in Ids(g) /\ RepoOf[f] = r
        dropped(row) ==
            CASE row.table \in {"OWNS_PACKAGE", "PRODUCES", "CONSUMES", "SHARES_CONTRACT", "PARTICIPATES_IN",
                                "USES_PACKAGE", "MENTIONS", "DESCRIBES"} -> of(row.from)
              [] row.table \in {"DEPENDS_ON", "IMPORTS", "CALLS", "DOCUMENTS", "REFERENCES", "SEMANTIC_REL"} ->
                     of(row.from) \/ of(row.to)
              [] row.table \in {"HAS_EVIDENCE", "HAS_SPEC", "CONTAINS"} -> of(row.to)
              [] OTHER -> isEvidence(row.key)
    IN  {e \in g.edges : dropped(e.row)}

clearRepoIndexedArtifacts(g, r) == Delete(g, ClearedEdges(g, r), ClearedNodes(g, r))

\* What bulk-upsert clears before it copies specifications.
SpecsOf(g, r) == {n.id : n \in {m \in g.nodes : m.id.label = "ContractSpec" /\ m.id.repo = r}}
EdgesOfSpecs(g, r) ==
    {e \in g.edges : \/ e.row.table = "SEMANTIC_REL" /\ r \in {e.row.from.repo, e.row.to.repo}
                     \/ e.row.table = "HAS_SPEC" /\ e.row.to.repo = r}
ForgetSpecs(g, r) == Delete(g, EdgesOfSpecs(g, r), SpecsOf(g, r))

-----------------------------------------------------------------------------
(* The writers, as sequences of statements.                                *)

Statement(op, tables) == [op |-> op, tables |-> tables]

PairTables == {"CONTAINS", "MENTIONS", "HAS_EVIDENCE"}
RelationTables ==
    {"IMPORTS", "CALLS", "DESCRIBES", "DOCUMENTS", "REFERENCES", "OWNS_PACKAGE", "PRODUCES", "CONSUMES",
     "SHARES_CONTRACT", "CONTRACT_MENTIONS", "PARTICIPATES_IN", "WORKFLOW_STEP", "USES_PACKAGE", "DEPENDS_ON",
     "HAS_SPEC", "SEMANTIC_REL"}
NodeUpserts == {"Repo", "File", "Code", "Section", "Entity", "Operation", "Workflow", "Contract", "Evidence"}
NodeTables == NodeUpserts \union {"ContractSpec"}

Neo4jBatch ==
    <<Statement("upsert", NodeTables), Statement("merge by text", PairTables), Statement("merge by text", RelationTables)>>

KuzuBulk == <<Statement("create", NodeTables), Statement("copy", RelationTables), Statement("copy", PairTables)>>

AppendCopy ==
    <<Statement("clear", {}), Statement("upsert", NodeUpserts), Statement("create", {"ContractSpec"}),
      Statement("copy", PairTables), Statement("copy", RelationTables)>>

BulkUpsert ==
    <<Statement("forget", {}), Statement("upsert", NodeUpserts), Statement("create", {"ContractSpec"}),
      Statement("merge", PairTables), Statement("merge", RelationTables)>>

\* writeGraphFactsWithMerge: relations of specifications and of repositories
\* come before the specifications, and the repository's own row and its edge
\* from the system are not written at all.
HighVolume ==
    <<Statement("upsert", {"File", "Code"}),
      Statement("merge", {"IMPORTS", "CALLS", "SEMANTIC_REL", "DEPENDS_ON"})>>
LowVolume ==
    <<Statement("upsert", {"Section"}), Statement("merge", {"DESCRIBES"}),
      Statement("merge file", {"CONTAINS"}), Statement("upsert", {"Entity"}), Statement("merge", {"MENTIONS"}),
      Statement("upsert", {"Contract", "Evidence"}),
      Statement("merge", {"HAS_EVIDENCE", "PRODUCES", "CONSUMES", "USES_PACKAGE", "CONTRACT_MENTIONS"}),
      Statement("upsert", {"Operation", "Workflow"}),
      Statement("merge", {"PARTICIPATES_IN", "WORKFLOW_STEP", "REFERENCES", "DOCUMENTS"}),
      Statement("upsert", {"ContractSpec"}), Statement("merge", {"HAS_SPEC"})>>
OneByOne == HighVolume \o LowVolume

StatementsOf == [neo4j |-> Neo4jBatch, bulk |-> KuzuBulk, append |-> AppendCopy, upsert |-> BulkUpsert,
                 merge |-> OneByOne]

OfTables(rows, tables) == {r \in rows : r.table \in tables}
OfLabels(ids, tables) == {id \in ids : id.label \in tables}


Perform(g, s, files, ids, rows, b) ==
    CASE ~g.ok -> g
      [] s.op = "upsert" -> Upsert(g, OfLabels(ids, s.tables), b)
      [] s.op = "create" -> Create(g, OfLabels(ids, s.tables), b)
      [] s.op = "copy" -> Copy(g, OfTables(rows, s.tables), b)
      [] s.op = "merge" -> Merge(g, OfTables(rows, s.tables), b, FALSE)
      [] s.op = "merge by text" -> Merge(g, OfTables(rows, s.tables), b, TRUE)
      [] s.op = "merge file" -> Merge(g, {r \in OfTables(rows, s.tables) : r.from.label # "System"}, b, FALSE)
      [] s.op = "clear" -> FoldLeft(clearRepoIndexedArtifacts, g, SetToSeq(ReposOf(files)))
      [] s.op = "forget" -> IF files \subseteq Documents THEN g ELSE FoldLeft(ForgetSpecs, g, SetToSeq(ReposOf(files)))

PerformAll(g, statements, files, b) ==
    LET next(h, s) == Perform(h, s, files, Nodes(files), Rows(files), b)
    IN  FoldLeft(next, g, statements)

\* cleanupGraphWriteBatch: what carries the batch becomes inactive.
CarryBatch == RelationTables \ {"DESCRIBES", "DOCUMENTS", "REFERENCES"}
Cleanup(g, b) ==
    [g EXCEPT !.nodes = {IF n.batch = b /\ n.id.label \in {"File", "Code", "Section", "Evidence", "ContractSpec"}
                         THEN [n EXCEPT !.active = FALSE] ELSE n : n \in @},
              !.edges = {IF e.batch = b /\ e.row.table \in CarryBatch THEN [e EXCEPT !.active = FALSE] ELSE e : e \in @}]

\* Nothing is written of a batch without files.
Write(g, writer, files, b) == IF files = {} THEN g ELSE PerformAll(g, StatementsOf[writer], files, b)

\* The writer fails before its k-th statement and the one-by-one writer takes over.
WriteAfter(g, writer, k, files, b) ==
    PerformAll(Cleanup(PerformAll(g, SubSeq(StatementsOf[writer], 1, k - 1), files, b), b), OneByOne, files, b)

-----------------------------------------------------------------------------
(* markRepoArtifactsStale and rejectEvidence.                              *)

EvidenceTables == {"OWNS_PACKAGE", "PRODUCES", "CONSUMES", "SHARES_CONTRACT", "CONTRACT_MENTIONS",
                   "PARTICIPATES_IN", "WORKFLOW_STEP", "USES_PACKAGE", "DEPENDS_ON", "HAS_SPEC"}

ActiveOf(g, label, r) == {n.id.file : n \in {m \in g.nodes : m.id.label = label /\ m.id.repo = r /\ m.active}}

markRepoArtifactsStale(g, r, present, b) ==
    LET files == ActiveOf(g, "File", r) \ present
        evidence == ActiveOf(g, "Evidence", r) \ present
        gone(id) == id.file \in files
        hidden(n) == n.id.file \in files \/ (n.id.label = "Evidence" /\ n.id.file \in evidence)
        cut(row) == \/ row.table \in {"IMPORTS", "CALLS", "SEMANTIC_REL"} /\ (gone(row.from) \/ gone(row.to))
                    \/ row.table \in EvidenceTables /\ row.key \in files \union evidence
                    \/ row.table = "DEPENDS_ON" /\ present = {} /\ r \in {row.from.repo, row.to.repo}
    IN  IF files \union evidence = {} THEN g
        ELSE [g EXCEPT !.nodes = {IF hidden(n) THEN [n EXCEPT !.active = FALSE, !.batch = b] ELSE n : n \in @},
                       !.edges = {IF cut(e.row) THEN [e EXCEPT !.active = FALSE, !.batch = b] ELSE e : e \in @}]

\* The specification and HAS_SPEC stay as they are; the feedback that is
\* recorded beside is read by no run.
rejectEvidence(g, f) ==
    [g EXCEPT !.nodes = {IF n.id = Of("Evidence", f) THEN [n EXCEPT !.active = FALSE] ELSE n : n \in @},
              !.edges = {IF e.row.table \in EvidenceTables \ {"HAS_SPEC"} /\ e.row.key = f
                         THEN [e EXCEPT !.active = FALSE] ELSE e : e \in @}]

-----------------------------------------------------------------------------
(* A graph is indexed again and again.  Database failures are of GraphWrite: *)
(* the failures here are those the writer's own statements run into.       *)

upsertRepo(g, r, b) ==
    Merge(IF Repo(r) \in Ids(g) THEN g ELSE Upsert(g, {Repo(r)}, b), {Row("CONTAINS", The("System"), Repo(r), "")}, b, FALSE)

NoBatch == [files |-> {}, writer |-> "none", whole |-> TRUE]
Init == store = [graph |-> [nodes |-> {NodeOf(The("System"), 0)}, edges |-> {}, ok |-> TRUE],
                 count |-> 0, last |-> NoBatch]

Batch == store.count + 1
Becomes(g, last) == store' = [graph |-> g, count |-> Batch, last |-> last]
Start == store.graph.ok /\ store.count < MaxWrites
Written(files, writer, whole) == [files |-> files, writer |-> writer, whole |-> whole]

\* The routes of several repositories: the whole of them into an empty graph,
\* or into one that has them.
IndexAll(files, writer) ==
    /\ Start /\ files # {}
    /\ writer = IF \E n \in store.graph.nodes : n.id.label = "Repo" THEN "append" ELSE "bulk"
    /\ Becomes(Write(store.graph, writer, files, Batch), Written(files, writer, TRUE))

\* A full run parses what is present, a changed-only run at least what the graph does not have.
Parsed(writer, r, present, files) ==
    /\ files \subseteq present
    /\ writer = "append" => files = present
    /\ \A f \in present \ files : Of("File", f) \in Ids(store.graph)

\* One repository; the transaction ends with what has gone being marked.
IndexRepo(r, writer, present, files) ==
    /\ Start /\ writer \in {"neo4j", "append", "upsert"} /\ Parsed(writer, r, present, files)
    /\ Becomes(markRepoArtifactsStale(Write(upsertRepo(store.graph, r, Batch), writer, files, Batch), r, present, Batch),
               Written(files, writer, TRUE))

IndexRepoFallingBack(r, writer, k, present, files) ==
    /\ Start /\ writer \in {"append", "upsert"} /\ Parsed(writer, r, present, files)
    /\ files # {} /\ k \in DOMAIN StatementsOf[writer]
    /\ Becomes(markRepoArtifactsStale(WriteAfter(upsertRepo(store.graph, r, Batch), writer, k, files, Batch), r, present, Batch),
               Written(files, writer, FALSE))

Reject(f) ==
    /\ Start /\ Of("Evidence", f) \in Ids(store.graph)
    /\ Becomes(rejectEvidence(store.graph, f), NoBatch)

\* The model ends with MaxWrites changes and starts with another graph.
Renew == ~Start /\ store' = [graph |-> [nodes |-> {NodeOf(The("System"), 0)}, edges |-> {}, ok |-> TRUE],
                             count |-> 0, last |-> NoBatch]

Next ==
    \/ \E files \in {UNION contents : contents \in SUBSET UNION {Contents[r] : r \in ReposOf(Files)}} :
          \E writer \in {"append", "bulk"} : IndexAll(files, writer)
    \/ \E r \in ReposOf(Files) : \E present \in Contents[r] : \E files \in SUBSET present :
          \E writer \in {"neo4j", "append", "upsert"} :
              \/ IndexRepo(r, writer, present, files)
              \/ \E k \in FailsAt : IndexRepoFallingBack(r, writer, k, present, files)
    \/ \E f \in Files : Reject(f)
    \/ Renew

-----------------------------------------------------------------------------
(* Properties. *)

\* No statement of a writer fails by what the graph holds: COPY meets no row
\* that is there and no missing end, DELETE no edge that is left.
StatementsSucceed == store.graph.ok

\* Every fact of the batch written last is there and active, whichever writer
\* wrote it.  The fallback leaves the relations of specifications to the
\* rebuild, and the edge from the system that the clearing took to the next run.
EveryFactArrives ==
    LET b == store.last  g == store.graph
        left(row) == ~b.whole /\ (row.table = "SEMANTIC_REL" \/ row.from.label = "System")
    IN  /\ \A id \in IF b.files = {} THEN {} ELSE Nodes(b.files) :
               \E n \in g.nodes : n.id = id /\ n.active
        /\ \A row \in Rows(b.files) :
               left(row) \/ \E e \in g.edges : Link(e.row) = Link(row) /\ e.active /\ e.batch = store.count

\* However often and by whatever writer the facts are written, an edge is there
\* once; but for IMPORTS, of which writers count the statements differently.
NoEdgeTwice == \A e \in store.graph.edges : e.row.table # "IMPORTS" => e.n = 0

\* What is active stands on what is active: relations on their evidence, and
\* imports, calls and relations of specifications on their ends.  A rejection
\* leaves HAS_SPEC.
ActiveStands ==
    LET g == store.graph
        active(id) == \E n \in g.nodes : n.id = id /\ n.active
    IN  \A e \in {x \in g.edges : x.active} :
            /\ e.row.table \in EvidenceTables \ {"HAS_SPEC"} => active(Of("Evidence", e.row.key))
            /\ e.row.table \in {"IMPORTS", "CALLS", "SEMANTIC_REL"} => active(e.row.from) /\ active(e.row.to)

FactsArrive == StatementsSucceed /\ EveryFactArrives /\ NoEdgeTwice /\ ActiveStands

\* A run takes from the graph no row but of the repositories it writes whole;
\* bulk-upsert also the specifications of the files it has not parsed.
OnlyOwnRowsGo ==
    store'.count # 0 =>
        \A id \in Ids(store.graph) \ Ids(store'.graph) :
            /\ id.repo \in ReposOf(store'.last.files)
            /\ id.label = "ContractSpec" \/ store'.last.writer = "append"

=============================================================================

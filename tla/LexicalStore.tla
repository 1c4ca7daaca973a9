------------------------------ MODULE LexicalStore ------------------------------
(***************************************************************************)
(* The lexical store of a workspace (adapters/graph-db/.../                *)
(* *WorkspaceLexicalStore.ts) over its life: databases of earlier versions *)
(* of the program, ensureSchema statement by statement at the start of     *)
(* every index run, the documents a run writes, the versions a full run    *)
(* commits, and what health says to a question.  The statements of         *)
(* ensureSchema are no transaction: any of them may be the last of a run.  *)
(***************************************************************************)
EXTENDS FiniteSets
LOCAL INSTANCE Integers
LOCAL INSTANCE Sequences

CONSTANTS
    FileOf,      \* function: document -> the file it is of, 0 for none
    RepoOf,      \* function: document -> its repository
    Databases,   \* "kuzu", "neo4j"
    MaxIndexRuns \* bound on the index runs of a behaviour

FilesAssumption ==
    /\ IsFiniteSet(DOMAIN FileOf) /\ FileOf \in [DOMAIN FileOf -> Nat]
    /\ DOMAIN RepoOf = DOMAIN FileOf
    /\ Databases \subseteq {"kuzu", "neo4j"}

VARIABLE lexical

\* A document: its file, fileId as stored (0 for NULL), ftsText (NULL, what
\* an earlier projection indexed, or today's) and its bytes.
Null == 0
Earlier == 1
Today == 2
Unsized == -1
Repos == {RepoOf[d] : d \in DOMAIN RepoOf}
Active(s) == {d \in DOMAIN s.docs : s.docs[d].active}
\* The sum of their sizes: a document has the bytes 1 to its size.
Bytes(s, docs) == Cardinality({byte \in docs \X (1..Today) : byte[2] <= s.docs[byte[1]].size})

NoStats == [count |-> 0, bytes |-> 0]
Columns == <<"fileId", "ftsText", "ftsSizeBytes">>
AllColumns == {Columns[k] : k \in DOMAIN Columns}
Index(name, sound, state) == [name |-> name, sound |-> sound, state |-> state]
Expected(index) == index.name = "workspace" /\ index.sound
-----------------------------------------------------------------------------
(* What an index run may find. *)

Idle == [kind |-> "none", step |-> 0, repos |-> {}, todo |-> {}, alive |-> {}, number |-> 0, graphEmpty |-> TRUE]

Empty(provider) ==
    [provider |-> provider, run |-> Idle, tables |-> IF provider = "kuzu" THEN {} ELSE {"documents", "metadata", "stats"},
     columns |-> {}, docs |-> <<>>, stats |-> NoStats, indexes |-> {},
     meta |-> [projection |-> "missing", tokenizer |-> "missing", stats |-> "missing"]]

Legacy(text, active) ==
    [d \in DOMAIN FileOf |-> [file |-> FileOf[d], fileId |-> 0, text |-> text, size |-> Unsized, active |-> d \in active]]

\* Left by a version before file ids, indexed text and statistics; by one that
\* kept none of the statistics it had marked (the Kuzu life cycle test,
\* :86-113); by one whose documents were projected differently.
Legacies(provider) ==
    LET old == [Empty(provider) EXCEPT
                  !.tables = @ \union {"documents", "metadata"}, !.docs = Legacy(Null, DOMAIN FileOf),
                  !.indexes = {Index("workspace", FALSE, "ONLINE"), Index("title", TRUE, "ONLINE")},
                  !.meta = [projection |-> "earlier", tokenizer |-> "earlier", stats |-> "missing"]]
        sized == [d \in DOMAIN FileOf |-> [Legacy(Earlier, DOMAIN FileOf)[d] EXCEPT !.size = Earlier, !.fileId = FileOf[d]]]
    IN {old, IF provider = "neo4j" THEN old ELSE
        [old EXCEPT !.docs = Legacy(Today, {d \in DOMAIN FileOf : FileOf[d] # 0}), !.columns = {"ftsText"},
                    !.indexes = {Index("workspace", TRUE, "ONLINE")},
                    !.meta = [projection |-> "current", tokenizer |-> "current", stats |-> "current"]],
        [old EXCEPT !.tables = {"documents", "metadata", "stats"}, !.columns = AllColumns, !.docs = sized,
                    !.indexes = {Index("workspace", TRUE, "ONLINE")},
                    !.meta = [projection |-> "earlier", tokenizer |-> "current", stats |-> "current"],
                    !.stats = [count |-> Cardinality(DOMAIN FileOf), bytes |-> Cardinality(DOMAIN FileOf)]]}

Found == UNION {{Empty(p)} \union Legacies(p) : p \in Databases}
Init == lexical = Empty("kuzu")
-----------------------------------------------------------------------------
(* The statements of ensureSchema. *)

CreateDocuments(s) ==
    IF "documents" \in s.tables THEN s
    ELSE [s EXCEPT !.tables = @ \union {"documents"}, !.columns = AllColumns]

missingColumns(s) == {k \in DOMAIN Columns : Columns[k] \notin s.columns}

FillTexts(s) ==
    [s EXCEPT !.docs = [d \in DOMAIN @ |-> IF @[d].text = Null THEN [@[d] EXCEPT !.text = Earlier] ELSE @[d]]]

CreateMetadata(s) == [s EXCEPT !.tables = @ \union {"metadata"}]

markStatsIncomplete(s) == [s EXCEPT !.meta.stats = "incomplete"]

\* As if a new table were right for documents there already.
KeepMark(s) == s
InvalidateMissing(s) == IF "stats" \in s.tables THEN s ELSE markStatsIncomplete(s)
CreateStats(s) == IF "stats" \in s.tables THEN s ELSE [s EXCEPT !.tables = @ \union {"stats"}, !.stats = NoStats]

Sizeless(s) == {d \in DOMAIN s.docs : s.docs[d].size = Unsized}

InvalidateUnsized(s) == IF Sizeless(s) = {} THEN s ELSE markStatsIncomplete(s)

migrateFtsSizes(s) ==
    [s EXCEPT !.docs = [d \in DOMAIN @ |-> IF d \in Sizeless(s) THEN [@[d] EXCEPT !.size = s.docs[d].text] ELSE @[d]]]

\* Neo4j fills in the text with the size.
migratePayloadSizes(s) == migrateFtsSizes(FillTexts(s))

\* As if the file a document is of were only known to those written since.
LeaveFileIds(s) == s
migrateFileIds(s) ==
    [s EXCEPT !.docs = [d \in DOMAIN @ |-> IF @[d].fileId = 0 THEN [@[d] EXCEPT !.fileId = s.docs[d].file] ELSE @[d]]]

Unexpected(s) == {index \in s.indexes : ~Expected(index)}

CreateIndex(s) ==
    IF \E index \in s.indexes : Expected(index) THEN s
    ELSE [s EXCEPT !.indexes = @ \union {Index("workspace", TRUE, IF s.provider = "kuzu" THEN "ONLINE" ELSE "POPULATING")}]

ensureVersions(s) ==
    LET OnCreate(value, new) == IF value = "missing" THEN new ELSE value
    IN  [s EXCEPT !.meta = [projection |-> OnCreate(@.projection, "current"), tokenizer |-> OnCreate(@.tokenizer, "current"),
                            stats |-> IF s.provider = "neo4j" THEN OnCreate(@.stats, "incomplete") ELSE @.stats]]

Counted(s) == [count |-> Cardinality(Active(s)), bytes |-> Bytes(s, Active(s))]
rebuildAllWorkspaceStats(s) ==
    IF s.meta.stats = "current" THEN s ELSE [s EXCEPT !.stats = Counted(s), !.meta.stats = "current"]

ensureSchema(provider) ==
    IF provider = "kuzu"
    THEN <<"documents", "columns", "texts", "metadata", "mark", "stats", "unsized", "sizes", "files", "drop", "index",
           "versions", "rebuild">>
    ELSE <<"drop", "index", "await", "versions", "unsized", "sizes", "files", "rebuild">>

Statement(s, step) ==
    CASE step = "documents" -> CreateDocuments(s)
      [] step = "texts" -> FillTexts(s)
      [] step = "metadata" -> CreateMetadata(s)
      [] step = "mark" -> InvalidateMissing(s)
      [] step = "stats" -> CreateStats(s)
      [] step = "unsized" -> InvalidateUnsized(s)
      [] step = "sizes" -> IF s.provider = "kuzu" THEN migrateFtsSizes(s) ELSE migratePayloadSizes(s)
      [] step = "files" -> migrateFileIds(s)
      [] step = "index" -> CreateIndex(s)
      [] step = "versions" -> ensureVersions(s)
      [] step = "rebuild" -> rebuildAllWorkspaceStats(s)
-----------------------------------------------------------------------------
(* Writing documents. *)

adjustWorkspaceStats(s, count, bytes) ==
    [s EXCEPT !.stats = [count |-> @.count + count, bytes |-> @.bytes + bytes]]

\* COPY into an empty table, LOAD FROM of new documents and MERGE of known ones
\* store the same and count the difference.
documentParameters(d) == [file |-> FileOf[d], fileId |-> FileOf[d], text |-> Today, size |-> Today, active |-> TRUE]
Replacing(s, ids, before) ==
    adjustWorkspaceStats(s, Cardinality(ids) - Cardinality(before), Today * Cardinality(ids) - Bytes(s, before))
upsertDocuments(s, ids) ==
    [Replacing(s, ids, ids \intersect Active(s)) EXCEPT
        !.docs = [d \in DOMAIN @ \union ids |-> IF d \in ids THEN documentParameters(d) ELSE @[d]]]

Deactivate(s, stale) ==
    adjustWorkspaceStats([s EXCEPT !.docs = [d \in DOMAIN @ |-> IF d \in stale THEN [@[d] EXCEPT !.active = FALSE] ELSE @[d]]],
                         -Cardinality(stale), -Bytes(s, stale))

reconcileRepoDocuments(s, repo, ids) == Deactivate(s, {d \in Active(s) : RepoOf[d] = repo /\ d \notin ids})

Stale(s, repo, files) == {d \in Active(s) : RepoOf[d] = repo /\ s.docs[d].fileId # 0 /\ s.docs[d].fileId \notin files}
reconcileRepoFileDocuments(s, repo, files) == Deactivate(s, Stale(s, repo, files))

commitVersions(s, kind) ==
    IF kind \in {"copy", "full"} THEN [s EXCEPT !.meta.projection = "current", !.meta.tokenizer = "current"] ELSE s

\* What is found when everything matches and nothing is cut.
search(s) == {d \in Active(s) : s.docs[d].text # Null}
-----------------------------------------------------------------------------
(* Health and the gate in front of a question. *)

IndexReasons(s) ==
    (IF \E i \in s.indexes : i.name = "workspace" THEN {} ELSE {"fts_index_missing"})
    \union (IF \E i \in s.indexes : i.name = "workspace" /\ ~i.sound THEN {"fts_index_definition_mismatch"} ELSE {})
    \union (IF \E i \in s.indexes : i.name = "workspace" /\ i.state # "ONLINE" THEN {"fts_index_not_online"} ELSE {})
    \union (IF \E i \in s.indexes : i.name # "workspace" THEN {"unexpected_additional_fts_index"} ELSE {})
Reasons(s) ==
    (IF s.tables = {"documents", "metadata", "stats"} THEN {} ELSE {"table_missing"})
    \union IndexReasons(s)
    \union (IF s.meta.stats = "current" THEN {} ELSE {"lexical_stats_version_mismatch"})

healthGateReason(s) ==
    CASE s.stats.count < 0 \/ s.stats.bytes < 0 -> "health_check_failed"
      [] s.meta.projection # "current" -> "projection_schema_version_mismatch"
      [] s.meta.tokenizer # "current" -> "tokenizer_version_mismatch"
      [] Reasons(s) # {} -> "index_unhealthy"
      [] OTHER -> "ready"

\* Whether a copy into an empty graph clears what is active first.
resolveFullCopyLexicalReconcile(s) ==
    \/ s.provider # "kuzu"
    \/ Reasons(s) \intersect {"table_missing", "lexical_stats_version_mismatch"} # {}
    \/ s.stats.count # 0
-----------------------------------------------------------------------------
(* An index run. *)

run == lexical.run
Schema == ensureSchema(lexical.provider)
At(step) == run.step \in DOMAIN Schema /\ Schema[run.step] = step
Advance(s) == [s EXCEPT !.run.step = @ + 1]
Writing == run.step = Len(Schema) + 1
Finished == run.step = Len(Schema) + 2

Start(kind, repos) ==
    /\ run.step \in {0, Len(Schema) + 2}
    /\ run.number < MaxIndexRuns
    /\ kind = "copy" <=> run.graphEmpty /\ kind # "changed" /\ repos = Repos
    /\ lexical' = [lexical EXCEPT
                      !.run = [kind |-> kind, step |-> 1, repos |-> repos, todo |-> repos, alive |-> {},
                               number |-> @.number + 1, graphEmpty |-> @.graphEmpty]]

\* The program is pointed at another database.
Open ==
    /\ run.step \in {0, Len(Schema) + 2}
    /\ lexical' \in Found

AddColumn ==
    /\ At("columns")
    /\ \/ missingColumns(lexical) = {} /\ lexical' = Advance(lexical)
       \/ \E k \in missingColumns(lexical) :
             /\ \A j \in missingColumns(lexical) : k <= j
             /\ lexical' = [lexical EXCEPT !.columns = @ \union {Columns[k]}]

DropIndex ==
    /\ At("drop")
    /\ \/ Unexpected(lexical) = {} /\ lexical' = Advance(lexical)
       \/ \E index \in Unexpected(lexical) : lexical' = [lexical EXCEPT !.indexes = @ \ {index}]

\* Populated in time, or the run ends here.
AwaitIndex ==
    /\ At("await")
    /\ \/ /\ \A index \in lexical.indexes : index.state # "FAILED"
          /\ lexical' = Advance([lexical EXCEPT !.indexes = {Index("workspace", TRUE, "ONLINE")}])
       \/ /\ \E index \in lexical.indexes : index.state # "ONLINE"
          /\ lexical' = [lexical EXCEPT !.indexes = {Index("workspace", TRUE, "FAILED")}, !.run.step = 0]

Execute ==
    /\ run.step \in DOMAIN Schema
    /\ Schema[run.step] \notin {"columns", "drop", "await"}
    /\ lexical' = Advance(Statement(lexical, Schema[run.step]))

\* One transaction for what a repository has now, and for all repositories of
\* a copy, where one repository after the other is reconciled; without a change only the documents of files that are gone go.
Written(s, repo, ids, changed) ==
    IF run.kind = "changed"
    THEN reconcileRepoFileDocuments(upsertDocuments(s, changed), repo, {FileOf[d] : d \in ids})
    ELSE reconcileRepoDocuments(upsertDocuments(s, ids), repo, ids)
Copied(s, ids) ==
    IF resolveFullCopyLexicalReconcile(s)
    THEN Deactivate(upsertDocuments(s, ids), Active(s) \ ids)
    ELSE upsertDocuments(s, ids)

WriteRepo ==
    /\ Writing /\ run.kind # "copy" /\ run.todo # {}
    /\ \E repo \in run.todo, ids \in SUBSET DOMAIN FileOf :
          /\ \A d \in ids : RepoOf[d] = repo
          /\ \E changed \in SUBSET ids :
                lexical' = [Written(lexical, repo, ids, changed) EXCEPT
                              !.run = [@ EXCEPT !.todo = run.todo \ {repo}, !.alive = run.alive \union ids, !.graphEmpty = FALSE]]

WriteCopy ==
    /\ Writing /\ run.kind = "copy" /\ run.todo # {}
    /\ \E ids \in SUBSET DOMAIN FileOf :
          lexical' = [Copied(lexical, ids) EXCEPT !.run = [@ EXCEPT !.todo = {}, !.alive = ids, !.graphEmpty = FALSE]]

Commit ==
    /\ Writing /\ run.todo = {}
    /\ lexical' = Advance(commitVersions(lexical, run.kind))

\* A statement or a transaction fails, or the process ends.
Interrupt ==
    /\ run.step \in 1..(Len(Schema) + 1)
    /\ lexical' = [lexical EXCEPT !.run.step = 0]

Next ==
    \/ Open
    \/ \E kind \in {"copy", "full", "changed"} : Start(kind, Repos)
    \/ \E kind \in {"full", "changed"}, repo \in Repos : Start(IF kind = "full" THEN "repo" ELSE kind, {repo})
    \/ AddColumn
    \/ DropIndex
    \/ AwaitIndex
    \/ Execute
    \/ WriteRepo
    \/ WriteCopy
    \/ Commit
    \/ Interrupt

Spec == Init /\ [][Next]_lexical
-----------------------------------------------------------------------------
(* Properties. *)

\* When the gate lets a question through (provider.ts:199-211), whatever runs
\* of whatever version were cut short before: the statistics are those of the
\* active documents, and each of these is indexed as today.  A statement of
\* ensureSchema outside the transaction of the data it goes with would break it.
ReadyMeansSound ==
    healthGateReason(lexical) = "ready" =>
        /\ \A d \in Active(lexical) : lexical.docs[d].text = Today
        /\ lexical.stats = Counted(lexical)

\* A run that finishes leaves what it has seen: after one of all repositories
\* the gate is open and exactly their documents are found; after an incremental
\* one no document of a file that is gone is found, not even one stored before
\* documents knew their file.
FinishedRunServes ==
    Finished =>
        LET found == search(lexical)
        IN  /\ run.kind \in {"copy", "full"} => healthGateReason(lexical) = "ready" /\ found = run.alive
            /\ run.kind = "changed" =>
                   \A d \in found : RepoOf[d] \in run.repos =>
                       FileOf[d] = 0 \/ FileOf[d] \in {FileOf[e] : e \in run.alive}
=============================================================================

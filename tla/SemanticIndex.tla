----------------------------- MODULE SemanticIndex -----------------------------
(***************************************************************************)
(* The semantic index (core/semantic/semanticIndex.ts): index runs of one  *)
(* process, several at a time, read what is stored, embed what has         *)
(* changed and upsert all of it, into a JSON file or into Chroma with the  *)
(* file as its fallback; questions search both.  A text is a sequence of   *)
(* numbers and its own hash; the embedding of a text is that text.         *)
(***************************************************************************)
LOCAL INSTANCE Integers
LOCAL INSTANCE Sequences
LOCAL INSTANCE FiniteSets
LOCAL INSTANCE SequencesExt
LOCAL INSTANCE TLC

CONSTANTS
    Inputs,      \* of an index run: [repos, files]
    Runs,        \* how many go on at a time: 1..n
    Level,       \* config.embedding.level
    Providers,   \* configured: "json", "chroma"
    Queries,     \* what is asked: a set of nodes it matches
    MaxRuns      \* bound on the runs of a behaviour

VARIABLE semantic

NoEmbedding == <<>>
-----------------------------------------------------------------------------
(* The records of a run: node id -> text. *)

includeForLevel(kind, level, isDocFile) ==
    CASE level = "all" -> TRUE
      [] level = "repo" -> kind \in {"System", "Repo"}
      [] level = "docs" -> kind \in {"System", "Repo", "Entity"} \/ (isDocFile /\ kind \in {"File", "Section"})
      [] level = "file" -> kind \in {"System", "Repo", "File"}
      [] level = "node" -> kind \in {"Code", "Section", "Entity"}
      [] OTHER -> FALSE

Node(kind, id) == [kind |-> kind, id |-> id]
System == Node("System", 0)
TextOf(parts) == FlattenSeq(parts)

\* A file: [id, doc, nodes], its nodes: [id, text, entities].  Of the files
\* that mention an entity the last one describes it.
NodesOf(file, level) ==
    IF ~file.doc /\ level = "docs" THEN <<>> ELSE file.nodes
Described(input, level, id) ==
    LET mentions == SelectSeq(FlattenSeq([f \in DOMAIN input.files |-> NodesOf(input.files[f], level)]),
                              LAMBDA node : id \in node.entities)
    IN <<id>> \o mentions[Len(mentions)].text
EntitiesOf(input, level) ==
    UNION {UNION {node.entities : node \in ToSet(NodesOf(input.files[f], level))} : f \in DOMAIN input.files}

buildSemanticRecords(input, level) ==
    LET Files == DOMAIN input.files
        Of(file) == [k \in {Node(IF file.doc THEN "Section" ELSE "Code", node.id) : node \in ToSet(NodesOf(file, level))}
                       |-> (CHOOSE node \in ToSet(file.nodes) : node.id = k.id).text]
        Included(k) ==
            includeForLevel(k.kind, level,
                            k.kind = "Section" \/ \E f \in Files : input.files[f].doc /\ k = Node("File", input.files[f].id))
        Kept(records) == [k \in {x \in DOMAIN records : Included(x)} |-> records[k]]
    IN Kept(FoldFunction(LAMBDA file, records :
                            Of(file) @@ (Node("File", file.id) :> TextOf([n \in DOMAIN file.nodes |-> file.nodes[n].text]))
                              @@ records,
                         [k \in {Node("Entity", id) : id \in EntitiesOf(input, level)} |-> Described(input, level, k.id)],
                         input.files)
              @@ [k \in {Node("Repo", r[1]) : r \in ToSet(input.repos)} |-> (CHOOSE r \in ToSet(input.repos) : r[1] = k.id)]
              @@ (System :> TextOf(input.repos)))

\* A record: [hash, embedding].
Nothing == [k \in {} |-> 0]
canReuseEmbedding(previous, hash) == previous.hash = hash /\ previous.embedding # NoEmbedding
Reused(texts, existing) ==
    [k \in DOMAIN texts |->
       [hash |-> texts[k],
        embedding |-> IF k \in DOMAIN existing /\ canReuseEmbedding(existing[k], texts[k])
                      THEN existing[k].embedding ELSE NoEmbedding]]
-----------------------------------------------------------------------------
(* The state: the JSON file, the Chroma collection and whether it can be    *)
(* reached, who waits for the lock of the file, and the runs.               *)

NoRun == [at |-> "idle", records |-> Nothing, base |-> Nothing]

\* promised: what completed upserts have stored last; damaged: the file could
\* once not be read.
Empty(provider) ==
    [provider |-> provider, json |-> Nothing, chroma |-> Nothing, up |-> TRUE, damaged |-> FALSE,
     lock |-> <<>>, run |-> [r \in Runs |-> NoRun], promised |-> Nothing, started |-> 0]
Init == \E provider \in Providers : semantic = Empty(provider)

\* The records that take the place of those of the same node.
Updated(store, records) ==
    [k \in DOMAIN store \union DOMAIN records |-> IF k \in DOMAIN records THEN records[k] ELSE store[k]]
Stored(records) == [k \in {x \in DOMAIN records : records[x].embedding # NoEmbedding} |-> records[k]]
Usable == semantic.provider = "chroma" /\ semantic.up

\* JsonSemanticIndex.read: any error in reading or parsing the file is taken for
\* an empty index.
ReadOf(file) == {file, Nothing}

\* indexSemanticText: what is stored, and what can be kept of it.
Start(r) ==
    /\ semantic.run[r].at = "idle" /\ semantic.started < MaxRuns
    /\ \E input \in Inputs : \E existing \in IF Usable THEN {semantic.chroma} ELSE ReadOf(semantic.json) :
         semantic' = [semantic EXCEPT !.started = @ + 1, !.run[r] =
           [at |-> "embedding", base |-> Nothing,
            records |-> Reused(buildSemanticRecords(input, Level), existing)]]

\* The provider embeds what has changed; single texts it may refuse.
Embed(r) ==
    /\ semantic.run[r].at = "embedding"
    /\ LET records == semantic.run[r].records
           changed == {k \in DOMAIN records : records[k].embedding = NoEmbedding}
       IN \E refused \in {{}} \union {{k} : k \in changed} :
            semantic' = [semantic EXCEPT
              !.run[r].at = "embedded",
              !.run[r].records = [k \in DOMAIN records |->
                 IF k \in changed \ refused THEN [records[k] EXCEPT !.embedding = records[k].hash] ELSE records[k]]]

\* Any other error of the provider ends the run, with nothing stored.
EmbedFails(r) ==
    semantic.run[r].at = "embedding" /\ semantic' = [semantic EXCEPT !.run[r] = NoRun]

\* Chroma takes the records that have an embedding; if it cannot be reached,
\* or is not configured, the run queues for the file.
Upsert(r) ==
    /\ semantic.run[r].at = "embedded"
    /\ IF Usable
       THEN semantic' = [semantic EXCEPT !.chroma = Updated(@, Stored(semantic.run[r].records)),
                                         !.promised = Updated(@, Stored(semantic.run[r].records)),
                                         !.run[r] = NoRun]
       ELSE semantic' = [semantic EXCEPT !.lock = Append(@, r), !.run[r].at = "waiting"]

\* withJsonIndexWriteLock
NoLock(r) == TRUE
Locked(r) == Head(semantic.lock) = r
Unlock == Tail(semantic.lock)

\* What the write that follows is based on: the file, or nothing when it could not
\* be read.
ReadFile(r) ==
    /\ semantic.run[r].at = "waiting" /\ Locked(r)
    /\ \/ semantic' = [semantic EXCEPT !.run[r].at = "writing", !.run[r].base = semantic.json]
       \/ semantic' = [semantic EXCEPT !.run[r].at = "writing", !.run[r].base = Nothing, !.damaged = TRUE]

\* The file is replaced at once, or the write fails and leaves it as it was.
WriteFile(r) ==
    /\ semantic.run[r].at = "writing"
    /\ \/ semantic' = [semantic EXCEPT !.json = Updated(semantic.run[r].base, semantic.run[r].records),
                                       !.promised = Updated(@, semantic.run[r].records),
                                       !.lock = Unlock, !.run[r] = NoRun]
       \/ semantic' = [semantic EXCEPT !.lock = Unlock, !.run[r] = NoRun]

Toggle == semantic.provider = "chroma" /\ semantic' = [semantic EXCEPT !.up = ~@]

\* The bound on runs is reached: another index.
Over ==
    /\ semantic.started = MaxRuns /\ \A r \in Runs : semantic.run[r].at = "idle"
    /\ semantic' = Empty(semantic.provider)

Matches(store, query) == DOMAIN store \intersect query

\* FallbackSemanticIndex.searchWithMetadata: the file is asked when Chroma
\* cannot be, and when it has nothing.  embeds: the query can be embedded; file:
\* what is read of the file, which may be nothing.
search(query, embeds, file) ==
    LET inChroma == Matches(semantic.chroma, query)
        inFile == Matches(file, query)
        primary == CASE semantic.provider = "json" -> "none"
                     [] semantic.provider = "chroma" /\ (~embeds \/ ~semantic.up) -> "failed"
                     [] OTHER -> "succeeded"
        again == primary # "succeeded" \/ inChroma = {}
    IN [rows |-> CASE ~again -> inChroma [] again /\ embeds -> inFile [] OTHER -> {},
        attempted |-> IF primary # "none" /\ again THEN 2 ELSE 1,
        primary |-> primary, threw |-> again /\ ~embeds]

Next ==
    \/ \E r \in Runs : Start(r) \/ Embed(r) \/ EmbedFails(r) \/ Upsert(r) \/ ReadFile(r) \/ WriteFile(r)
    \/ Toggle
    \/ Over

Spec == Init /\ [][Next]_semantic
-----------------------------------------------------------------------------
(* Properties. *)

Fits(records) == \A k \in DOMAIN records : records[k].embedding \in {NoEmbedding, records[k].hash}

\* Runs that overlap do not undo each other: each record of a completed upsert
\* is found in the file or in Chroma as it was stored last, and no embedding is
\* ever kept for a text it was not made from (semanticIndex.ts:93-148, 501-547).
\* Only a file that could not be read when an upsert was based on it is lost.  And
\* a search that finds nothing and reports no problem had nothing to find in what
\* it read (334-400): of the two stores only the file can be missed so, since an
\* error in reading it is no problem to its reader (117-123).
NothingStoredIsLost ==
    /\ ~semantic.damaged =>
         \A k \in DOMAIN semantic.promised :
            \E store \in {semantic.json, semantic.chroma} :
               k \in DOMAIN store /\ store[k] = semantic.promised[k]
    /\ Fits(semantic.json) /\ Fits(semantic.chroma)
    /\ \A query \in Queries : \A embeds \in BOOLEAN : \A file \in ReadOf(semantic.json) :
         LET found == search(query, embeds, file)
         IN found.rows = {} /\ ~found.threw /\ found.primary # "failed" =>
              Matches(semantic.chroma, query) \union Matches(file, query) = {}
=============================================================================

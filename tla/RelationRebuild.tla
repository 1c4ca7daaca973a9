--------------------------- MODULE RelationRebuild ---------------------------
(***************************************************************************)
(* core/graph-model/rebuildRelations: after repositories were indexed the  *)
(* relations between their specifications are resolved and stored, and the *)
(* DEPENDS_ON edges between repositories are rebuilt from them.            *)
(*                                                                         *)
(* A rebuild is scoped to some repositories or, with scope {}, full.  The  *)
(* one of an index run is queued, the one of client.rebuildRelations is    *)
(* not: rebuilds and the writes of an index run interleave at each await.  *)
(*                                                                         *)
(* What a repository's index holds is one of its Revisions: specifications *)
(* (records of ContractMatching) and role edges of repository and contract *)
(* with their evidence.  An inactive edge is a missing one, as a MERGE     *)
(* activates it again.                                                     *)
(***************************************************************************)
EXTENDS ContractMatching, SemanticRelations

CONSTANTS Repos, Rebuilds, Scopes, Revisions, Contracts, MaxReindexed

\* A full rebuild and scoped ones; every edge is of the repository that holds it.
ScopesAssumption == {} \in Scopes /\ \A scope \in Scopes : scope \subseteq Repos

RevisionsAssumption ==
    \A r \in Repos : \A v \in Revisions[r] :
        /\ \A s \in v.specs : s.repoId = r
        /\ \A e \in v.roles : e.repoId = r /\ e.contractId \in DOMAIN Contracts

VARIABLES
    current,     \* the active index of each repository
    nodes,       \* ids of the ContractSpec rows, active or not
    rels,        \* active SEMANTIC_REL edges
    deps,        \* active DEPENDS_ON edges
    jobs,        \* the rebuilds in progress
    dirty,       \* repositories written since an undisturbed rebuild, a history variable
    reindexed    \* how many index writes happened, bounded by MaxReindexed

vars == <<current, nodes, rels, deps, jobs, dirty, reindexed>>

Idle == [pc |-> "idle", scope |-> {}, edges |-> {}, deps |-> {}, disturbed |-> FALSE]

Ids(specs) == {s.id : s \in specs}
Specs(index) == UNION {index[r].specs : r \in Repos}
Roles(index) == UNION {index[r].roles : r \in Repos}
SpecById(specs, id) == CHOOSE s \in specs : s.id = id

Full(scope) == scope = {}

-----------------------------------------------------------------------------
(* Resolving relations. *)

\* The catch-all routes of other repositories are left out.
CandidateHttpSameOnly(target, others) ==
    LET buckets == {bucketKey(s.data.path) : s \in OfKind(target, "http-endpoint")}
    IN  {s \in OfKind(others, "http-endpoint") :
            "*" \in buckets \/ bucketKey(s.data.path) \in buckets}

\* The HTTP specifications of other repositories a scoped rebuild loads: those
\* of the target's buckets and the catch-all ones, all of them when a target
\* is a catch-all itself.
CandidateHttp(target, others) ==
    LET buckets == {bucketKey(s.data.path) : s \in OfKind(target, "http-endpoint")}
    IN  {s \in OfKind(others, "http-endpoint") :
            /\ buckets # {}
            /\ "*" \in buckets \/ bucketKey(s.data.path) \in buckets \union {"*"}}

CandidateEvents(target, others) ==
    LET topics == {s.data.topic : s \in OfKind(target, "event")} \ {Absent}
    IN  {s \in OfKind(others, "event") : s.data.topic \in topics}

\* The specifications the resolver sees.
ScopedCandidates(scope, index) ==
    LET all == Specs(index)
        target == {s \in all : s.repoId \in scope}
        others == all \ target
    IN  UNION {target, CandidateHttp(target, others), CandidateEvents(target, others),
               OfKind(all, "schema")}

\* resolveAndWriteSemanticRelations up to the write.  The relations stored so
\* far never name a schema by a pending reference: none is written.
ResolvedEdges(scope, index) ==
    LET seen == IF Full(scope) THEN Specs(index) ELSE ScopedCandidates(scope, index)
        roles == {e \in Roles(index) : e.contractId \in {s.contractId : s \in seen}}
        edges == resolveSemanticRelations(seen, IF Full(scope) THEN Roles(index) ELSE roles, {})
        repoOf(id) == SpecById(seen, id).repoId
    IN  IF ~\E s \in seen : Full(scope) \/ s.repoId \in scope THEN {}
        ELSE {e \in edges : Full(scope) \/ {repoOf(e.from), repoOf(e.to)} \intersect scope # {}}

-----------------------------------------------------------------------------
(* Dependencies of repositories. *)

Dependency(consumer, producer, type, source, target, evidence, confidence) ==
    [from |-> consumer, to |-> producer, type |-> type, source |-> source,
     target |-> target, evidence |-> evidence, confidence |-> confidence]

\* materializeDependenciesFromSemanticRelations
SemanticDependencies(edges, specs) ==
    LET known == {e \in edges : {e.from, e.to} \subseteq Ids(specs)
                     /\ SEMANTIC_REL_META[e.kind].dependencyType # NoDependency}
        consumer(e) == SpecById(specs, ConsumerEnd(e))
        producer(e) == SpecById(specs, ProducerEnd(e))
    IN  {Dependency(consumer(e).repoId, producer(e).repoId, SEMANTIC_REL_META[e.kind].dependencyType,
                    consumer(e).contractId, producer(e).contractId, e.evidence, e.confidence) :
            e \in {x \in known : consumer(x).repoId # producer(x).repoId}}

Produces(p) == p.role \in {"producer", "owner", "shared"}
Consumes(p) == p.role \in {"consumer", "shared"}

\* The dependency type of a contract's kind.
LegacyType(consumer) ==
    LET kind == Contracts[consumer.contractId].kind
    IN  CASE kind \in {"api", "event"} -> kind
          [] kind = "package" -> IF consumer.byImport THEN "import" ELSE "package"
          [] OTHER -> "shared-contract"

\* A consumer of an API whose key names no method also meets the producers of
\* the same path with one, and the reverse.
SamePathOtherMethod(c, d) ==
    LET x == Contracts[c]  y == Contracts[d]
    IN  /\ x.kind = "api" /\ y.kind = "api" /\ x.path = y.path
        /\ (x.method = Absent) # (y.method = Absent)

Lesser(a, b) == IF a < b THEN a ELSE b

\* dedupBy(materializedRepoDependencyDedupKey): one edge for each evidence and
\* pair of repositories, the last pushed; which one the order of rows decides.
LegacyKey(d) == <<d.from, d.to, d.type, d.evidence>>
LastOfEach(dependencies) ==
    {d \in dependencies : d = CHOOSE e \in dependencies : LegacyKey(e) = LegacyKey(d)}

\* buildRepoDependenciesFromParticipants
LegacyDependencies(participants, scope) ==
    LET pairs == {<<c, p>> \in participants \X participants :
                    /\ Consumes(c) /\ Produces(p) /\ c.repoId # p.repoId
                    /\ Full(scope) \/ {c.repoId, p.repoId} \intersect scope # {}}
        same == {Dependency(x[1].repoId, x[2].repoId, LegacyType(x[1]), x[1].contractId,
                            x[2].contractId, x[1].evidence, x[1].confidence) :
                    x \in {y \in pairs : y[1].contractId = y[2].contractId}}
        crossed == {Dependency(x[1].repoId, x[2].repoId, "api", x[1].contractId,
                               x[2].contractId, x[1].evidence, Lesser(x[1].confidence, 60)) :
                    x \in {y \in pairs : SamePathOtherMethod(y[1].contractId, y[2].contractId)}}
    IN  LastOfEach(crossed) \union
        LastOfEach({d \in same : \A e \in crossed : LegacyKey(e) # LegacyKey(d)})

\* structuralKey
structuralKey(d) == <<d.from, d.to, d.type, d.source, d.target>>

\* mergeAndDedupeDeps: the semantic dependencies, and the legacy ones that
\* none of them covers.
mergeAndDedupeDeps(semantic, legacy) ==
    semantic \union {d \in legacy : \A e \in semantic : structuralKey(e) # structuralKey(d)}

\* loadSemanticRelations and the participants of the targets' contracts.
LoadedEdges(scope, index, stored) ==
    LET repoOf(id) == IF id \in Ids(Specs(index)) THEN SpecById(Specs(index), id).repoId ELSE Absent
    IN  {e \in stored : Full(scope) \/ {repoOf(e.from), repoOf(e.to)} \intersect scope # {}}

LoadedParticipants(scope, index) ==
    LET contracts == {e.contractId : e \in {f \in Roles(index) : f.repoId \in scope}}
    IN  {e \in Roles(index) : Full(scope) \/ e.contractId \in contracts}

RebuiltDependencies(scope, index, stored) ==
    mergeAndDedupeDeps(SemanticDependencies(LoadedEdges(scope, index, stored), Specs(index)),
                       LegacyDependencies(LoadedParticipants(scope, index), scope))

Touching(scope, dependencies) ==
    {d \in dependencies : Full(scope) \/ {d.from, d.to} \intersect scope # {}}
-----------------------------------------------------------------------------
Init ==
    /\ current \in {f \in [Repos -> UNION {Revisions[r] : r \in Repos}] :
                        \A r \in Repos : f[r] \in Revisions[r]}
    /\ nodes = Ids(Specs(current))
    /\ rels = {} /\ deps = {}
    /\ jobs = [j \in Rebuilds |-> Idle]
    /\ dirty = Repos
    /\ reindexed = 0

Disturb == jobs' = [j \in Rebuilds |-> [jobs[j] EXCEPT !.disturbed = @ \/ jobs[j].pc # "idle"]]

\* An index run replaced what the store holds of a repository.  The merge path
\* deactivates the specifications of stale files with their relations.
MergeIndex(r) == \E v \in Revisions[r] \ {current[r]} :
    LET gone == Ids(current[r].specs) \ Ids(v.specs)
    IN  /\ reindexed < MaxReindexed
        /\ current' = [current EXCEPT ![r] = v]
        /\ nodes' = nodes \union Ids(v.specs)
        /\ rels' = {e \in rels : {e.from, e.to} \intersect gone = {}}
        /\ reindexed' = reindexed + 1
        /\ dirty' = dirty \union {r}
        /\ Disturb
        /\ UNCHANGED deps

\* The bulk-upsert path deletes the repository's specifications, with every
\* relation that touches them, and copies the new ones.
BulkUpsertIndex(r) == \E v \in Revisions[r] \ {current[r]} :
    LET own == {s.id : s \in UNION {w.specs : w \in Revisions[r]}}
    IN  /\ reindexed < MaxReindexed /\ v.specs # {}
        /\ current' = [current EXCEPT ![r] = v]
        /\ nodes' = (nodes \ own) \union Ids(v.specs)
        /\ rels' = {e \in rels : {e.from, e.to} \intersect own = {}}
        /\ reindexed' = reindexed + 1
        /\ dirty' = dirty \union {r}
        /\ Disturb
        /\ UNCHANGED deps

\* rebuildRepoDependencies reads the store and resolves.
Resolve(j, scope) ==
    /\ jobs[j].pc = "idle"
    /\ jobs' = [jobs EXCEPT ![j] = [Idle EXCEPT !.pc = "write", !.scope = scope,
                                                !.edges = ResolvedEdges(scope, current)]]
    /\ UNCHANGED <<current, nodes, rels, deps, dirty, reindexed>>

\* addSemanticRelationsBatch: MERGE by both ends, kind and evidence.
WriteRelations(j) ==
    LET new == {e \in jobs[j].edges : {e.from, e.to} \subseteq nodes}
        key(e) == <<e.from, e.to, e.kind, e.evidence>>
    IN  /\ jobs[j].pc = "write"
        /\ rels' = {e \in rels : \A n \in new : key(n) # key(e)} \union new
        /\ jobs' = [jobs EXCEPT ![j].pc = "load", ![j].edges = {}]
        /\ UNCHANGED <<current, nodes, deps, dirty, reindexed>>

LoadAndMerge(j) ==
    /\ jobs[j].pc = "load"
    /\ jobs' = [jobs EXCEPT ![j].pc = "clear",
                            ![j].deps = RebuiltDependencies(jobs[j].scope, current, rels)]
    /\ UNCHANGED <<current, nodes, rels, deps, dirty, reindexed>>

\* Only what depends on the rebuild's repositories is cleared.
ClearIncoming(j) ==
    /\ jobs[j].pc = "clear"
    /\ deps' = {d \in deps : jobs[j].scope # {} /\ d.to \notin jobs[j].scope}
    /\ jobs' = [jobs EXCEPT ![j].pc = "add"]
    /\ UNCHANGED <<current, nodes, rels, dirty, reindexed>>

\* clearRepoDependencies
ClearDependencies(j) ==
    /\ jobs[j].pc = "clear"
    /\ deps' = deps \ Touching(jobs[j].scope, deps)
    /\ jobs' = [jobs EXCEPT ![j].pc = "add"]
    /\ UNCHANGED <<current, nodes, rels, dirty, reindexed>>

DepKey(d) == <<structuralKey(d), d.evidence>>

\* addRepoDependenciesBatch; a later MERGE of the same key sets the rest.
AddDependencies(j) ==
    /\ jobs[j].pc = "add"
    /\ deps' = {d \in deps : \A n \in jobs[j].deps : DepKey(n) # DepKey(d)} \union jobs[j].deps
    /\ jobs' = [k \in Rebuilds |->
                  IF k = j THEN Idle
                  ELSE [jobs[k] EXCEPT !.disturbed = @ \/ (jobs[j].disturbed /\ jobs[k].pc # "idle")]]
    /\ dirty' = IF jobs[j].disturbed THEN Repos
                ELSE IF Full(jobs[j].scope) THEN {} ELSE dirty \ jobs[j].scope
    /\ UNCHANGED <<current, nodes, rels, reindexed>>

Next ==
    \/ \E r \in Repos : MergeIndex(r) \/ BulkUpsertIndex(r)
    \/ \E j \in Rebuilds : \/ \E scope \in Scopes : Resolve(j, scope)
                           \/ WriteRelations(j) \/ LoadAndMerge(j)
                           \/ ClearDependencies(j) \/ AddDependencies(j)

Spec == Init /\ [][Next]_vars
-----------------------------------------------------------------------------
(* Properties. *)

\* Kinds whose distant candidates a scoped rebuild loads.
ScopedKinds == {"CALLS_HTTP", "PUBLISHES_EVENT", "SUBSCRIBES_EVENT", "INTERNAL_CALL",
                "REQUEST_SCHEMA", "RESPONSE_SCHEMA", "EVENT_PAYLOAD"}

\* What a full rebuild would find of the relations that touch the scope.
WantedEdges(scope, index) ==
    LET repoOf(id) == SpecById(Specs(index), id).repoId
    IN  {e \in ResolvedEdges({}, index) :
            Full(scope) \/ {repoOf(e.from), repoOf(e.to)} \intersect scope # {}}

Undisturbed(j) == jobs[j].pc = "load" /\ ~jobs[j].disturbed

\* A relation of a distant specification to a schema of the scope.  A scoped rebuild
\* finds it only when the specification happens to share a bucket or a topic with the
\* scope: those that merely mention its schemas are no candidates, and the relations
\* of the schemas it has written again are missing until a full rebuild.
SchemaFromAfar(e, scope, specs) ==
    /\ e.kind \in {"REQUEST_SCHEMA", "RESPONSE_SCHEMA", "EVENT_PAYLOAD"}
    /\ ~Full(scope) /\ SpecById(specs, e.from).repoId \notin scope

\* Once a rebuild has written, and no repository was indexed meanwhile, every
\* HTTP, event, schema and handler relation of the whole workspace that
\* touches its repositories is stored, but for those SchemaFromAfar names:
\* narrowing the candidates to buckets and topics loses no other
\* (rebuildRelations.ts:156-160).
NarrowingLosesNothing ==
    \A j \in Rebuilds : Undisturbed(j) =>
        {e \in WantedEdges(jobs[j].scope, current) :
            e.kind \in ScopedKinds /\ ~SchemaFromAfar(e, jobs[j].scope, Specs(current))} \subseteq rels

\* The same of every kind of relation: "with cross-repo visibility"
\* (rebuildRelations.ts:153).
CrossRepoVisibility ==
    \A j \in Rebuilds : Undisturbed(j) => WantedEdges(jobs[j].scope, current) \subseteq rels

Quiet == dirty = {} /\ \A j \in Rebuilds : jobs[j].pc = "idle"

HasContract(repo, contract) ==
    \/ \E s \in current[repo].specs : s.contractId = contract
    \/ \E e \in current[repo].roles : e.contractId = contract
=============================================================================

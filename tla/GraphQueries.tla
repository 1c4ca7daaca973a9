----------------------------- MODULE GraphQueries -----------------------------
(***************************************************************************)
(* core/graph-model/queries: what the readers of the graph ask of it.      *)
(*                                                                         *)
(* A graph g is a record of sets of rows, each with an `active` flag where *)
(* the code tests one: files, code and sections in them, contracts, role   *)
(* edges of repositories and contracts with their evidence, specs,         *)
(* relations, dependencies, mentions of entities, participations and       *)
(* workflow steps.  Ids and names are numbers in the order of their bytes, *)
(* which is that of ORDER BY; localeCompare orders names otherwise (capital *)
(* letters, digits, accents), and collation[name] is the rank it gives a   *)
(* repository.  A text is the set of `words` it matches.  A LIMIT without  *)
(* an ORDER BY may keep any rows.                                          *)
(***************************************************************************)
EXTENDS Integers, Sequences, FiniteSets, SequencesExt, TLC

\* a < b in the first place where they differ.
LexLess(a, b) == \E i \in DOMAIN a : a[i] < b[i] /\ \A j \in 1..i - 1 : a[j] = b[j]

\* ORDER BY ... LIMIT n, and LIMIT n alone: the possible answers.
FirstRows(rows, key(_), n) == {x \in rows : Cardinality({y \in rows : LexLess(key(y), key(x))}) < n}
AnyRows(rows, n) ==
    {s \in SUBSET rows : Cardinality(s) = IF Cardinality(rows) < n THEN Cardinality(rows) ELSE n}

Live(rows) == {x \in rows : x.active}
ById(rows, id) == CHOOSE x \in rows : x.id = id
-----------------------------------------------------------------------------
(* Symbols and sections. *)

\* Rows of active files that are active themselves, with their file.
InFiles(g, rows) ==
    {[repo |-> f.repo, path |-> f.path, fileWords |-> f.words, row |-> r] :
        <<f, r>> \in {x \in Live(g.files) \X Live(rows) : x[2].file = x[1].id}}

\* Text matches of a symbol's name, qualified name and summary or its path.
searchCode(g, term, limit) ==
    AnyRows({x \in InFiles(g, g.code) : term \in x.row.words \union x.fileWords}, limit)
searchSections(g, term, limit) ==
    AnyRows({x \in InFiles(g, g.sections) : term \in x.row.words \union x.fileWords}, limit)
findImpactSections(g, term) ==
    AnyRows({x \in InFiles(g, g.sections) : term \in x.row.words \union x.fileWords}, 50)
findImpact(g, term) ==
    AnyRows({x \in InFiles(g, g.code) : term \in x.row.signature \union x.fileWords}, 50)
listCode(g, limit) == AnyRows(InFiles(g, g.code), limit)
hasCodeSymbolMatch(g, name) == \E x \in InFiles(g, g.code) : x.row.name = name

\* findExactCode: by id or name, by path, or by path in one repository.
findExactCode(g, identifiers, paths, scopedPaths, limit) ==
    LET hit(x) == \/ {x.row.id, x.row.name} \intersect identifiers # {}
                  \/ x.path \in paths
                  \/ <<x.repo, x.path>> \in scopedPaths
        key(x) == <<x.repo, x.path, x.row.name, x.row.id>>
    IN  FirstRows({x \in InFiles(g, g.code) : hit(x)}, key, limit)

findSectionsAtExactPaths(g, paths, scopedPaths, limit) ==
    LET key(x) == <<x.repo, x.path, x.row.line, x.row.id>>
    IN  FirstRows({x \in InFiles(g, g.sections) : x.path \in paths \/ <<x.repo, x.path>> \in scopedPaths},
                  key, limit)

sectionsDocumentingCode(g, codeIds, limit) ==
    LET documented == {c.id : c \in Live(g.code)} \intersect codeIds
    IN  AnyRows({x \in InFiles(g, g.sections) : x.row.documents \intersect documented # {}}, limit)

\* findContractSourceSymbols: where the active specs of contracts come from.
findContractSourceSymbols(g, contractIds, limit) ==
    LET symbols == {s.symbol : s \in {x \in Live(g.specs) : x.contract \in contractIds /\ x.linked}}
        key(x) == <<x.repo, x.path, x.row.name, x.row.id>>
    IN  FirstRows({x \in InFiles(g, g.code) : x.row.id \in symbols}, key, limit)
-----------------------------------------------------------------------------
(* Contracts and dependencies. *)

TypeRank == [api |-> 1, event |-> 2, import |-> 3, package |-> 4] @@ ("shared-contract" :> 5)
StrongTypes == {"package", "import", "api"}
WeakTypes == {"event", "shared-contract"}
Every == "every"

\* The --repo, --target and --direction filters; a target alone filters nothing.
DirectionAdmits(d, options) ==
    LET out == d.from = options.repo /\ (options.target # 0 => d.to = options.target)
        in == d.to = options.repo /\ (options.target # 0 => d.from = options.target)
    IN  \/ options.repo = 0
        \/ options.direction = "outgoing" /\ out
        \/ options.direction = "incoming" /\ in
        \/ options.direction = Every /\ (out \/ in)

\* listDependencies: a dependency counts while its evidence does.
listDependencies(g, options, limit) ==
    LET rows == {d \in Live(g.deps) :
                    /\ \E e \in Live(g.evidence) : e.id = d.evidence
                    /\ options.type \in {Every, d.type}
                    /\ options.strength = "strong" => d.type \in StrongTypes
                    /\ options.strength = "weak" => d.type \in WeakTypes
                    /\ DirectionAdmits(d, options)}
        key(d) == <<IF d.type \in StrongTypes THEN 0 ELSE 1, d.from, d.to, TypeRank[d.type], d.contract,
                    ById(g.evidence, d.evidence).path, ById(g.evidence, d.evidence).line>>
    IN  FirstRows(rows, key, limit)

\* listContracts; a direction is refused without a repository.
listContractsRefuses(options) == options.direction # Every /\ options.repo = 0

Roles == <<"owner", "producer", "consumer", "shared">>
RoleRank == [consumer |-> 1, owner |-> 2, producer |-> 3, shared |-> 4]

RoleRows(g, contractIds, role) ==
    {[repo |-> x[1].repo, role |-> role, contract |-> x[1].contract,
      path |-> x[2].path, line |-> x[2].line, evidence |-> x[2].id] :
        x \in {<<r, e>> \in Live(g.roles) \X Live(g.evidence) :
                 /\ r.role = role /\ r.contract \in contractIds /\ r.evidence = e.id}}

\* Limited before it is ordered by repository.
traceContractRoleByPath(g, contractIds, role, limit) ==
    LET key(x) == <<x.path, x.line, x.contract, x.repo, x.evidence>>
    IN  FirstRows(RoleRows(g, contractIds, role), key, limit)

\* traceContractRole
traceContractRole(g, contractIds, role, limit) ==
    LET key(x) == <<x.repo, x.path, x.line, x.contract, x.evidence>>
    IN  FirstRows(RoleRows(g, contractIds, role), key, limit)

\* The contracts a traced name stands for: the path alone or with the method;
\* failing these, and without a method, the path with any method.
TracedContracts(g, kind, path, method) ==
    LET keyed(m) == {c.id : c \in {x \in g.contracts : x.kind = kind /\ x.path = path /\ x.method = m}}
        exact == keyed("") \union (IF kind = "api" THEN keyed(method) ELSE {})
    IN  IF exact = {} /\ kind = "api" /\ method = ""
        THEN {c.id : c \in {x \in g.contracts : x.kind = kind /\ x.path = path}}
        ELSE exact

\* traceContractWithQueryCount: the four roles, each limited by the database in
\* its order, then all of them in the order of localeCompare.
traceContract(g, kind, path, method, limit) ==
    LET contractIds == TracedContracts(g, kind, path, method)
        rows == UNION {traceContractRole(g, contractIds, role, limit) : role \in ToSet(Roles)}
        key(x) == <<g.collation[x.repo], RoleRank[x.role], x.line, x.path, x.contract, x.evidence>>
    IN  FirstRows(rows, key, limit)

listUnresolvedEvidence(g, limit) ==
    LET key(e) == <<e.repo, e.path, e.line, e.id>>
    IN  FirstRows({e \in Live(g.evidence) : e.rule = "dynamic-unresolved"}, key, limit)

\* listLowConfidenceRelations: any of them, up to the limit for each role.
LowConfidence(g, role, minConfidence, limit) ==
    AnyRows({x \in Live(g.roles) : /\ x.role = role /\ x.confidence < minConfidence
                                   /\ \E e \in Live(g.evidence) : e.id = x.evidence}, limit)

listProducerContracts(g) == {<<r.repo, r.contract>> : r \in {x \in Live(g.roles) : x.role = "producer"}}
\* Whether anyone still has the contract is not asked.
listContractKeysByKind(g, kind) == {c.path : c \in {x \in g.contracts : x.kind = kind}}
listRepoContractKeysByRole(g, kind, role) ==
    {<<r.repo, ById(g.contracts, r.contract).path>> :
        r \in {x \in Live(g.roles) : x.role = role /\ ById(g.contracts, x.contract).kind = kind}}
\* Counts edges: a contract with several pieces of evidence counts as often.
listRepoContractCountsByRole(g, kind, role) ==
    [repo \in {x.repo : x \in g.roles} |->
        Cardinality({x \in Live(g.roles) : /\ x.repo = repo /\ x.role = role
                                           /\ ById(g.contracts, x.contract).kind = kind})]
-----------------------------------------------------------------------------
(* Entities. *)

Mention(repo, kind, name, line, role, evidence, entity) ==
    [repo |-> repo, kind |-> kind, name |-> name, line |-> line, role |-> role,
     evidence |-> evidence, entity |-> entity]

FileMentions(g, rows, kind, term) ==
    {Mention(x[1].repo, kind, x[1].row.id, x[1].row.line, "mentions", 0, x[2].entity) :
        x \in {<<r, m>> \in InFiles(g, rows) \X g.mentions :
                 m.source = r.row.id /\ (term = m.entity \/ term \in r.row.words)}}

\* The contracts of a role that mention an entity; traceEntity does not ask
\* whether the role edge is still active, traceEntitiesExact does.
ContractMentions(g, role, term, roles) ==
    {Mention(x[1].repo, "contract", x[1].contract, x[3].line, role, x[3].id, x[2].entity) :
        x \in {<<r, m, e>> \in roles \X Live(g.contractMentions) \X Live(g.evidence) :
                 /\ r.role = role /\ m.contract = r.contract
                 /\ m.evidence = e.id /\ e.repo = r.repo
                 /\ term = m.entity \/ term \in ById(g.contracts, r.contract).words}}

OperationMentions(g, term) ==
    {Mention(p.repo, "operation", p.operation, 0, p.role, p.evidence, p.entity) :
        p \in {x \in Live(g.participations) : term = x.entity}}
WorkflowMentions(g, term) ==
    {Mention(x[2].repo, "workflow", x[1].workflow, x[1].step, x[2].role, x[1].evidence, x[2].entity) :
        x \in {<<s, p>> \in Live(g.steps) \X Live(g.participations) :
                 s.operation = p.operation /\ term \in {s.workflow, p.entity}}}

\* Of the rows that look the same one stays.
OneEach(rows, key(_)) == {x \in rows : x = CHOOSE y \in rows : key(y) = key(x)}

\* The 8 queries of an entity trace, unlimited.
EntityQueries(g, term, roles) ==
    <<FileMentions(g, g.code, "code", term), FileMentions(g, g.sections, "section", term)>>
      \o [i \in DOMAIN Roles |-> ContractMentions(g, Roles[i], term, roles)]
      \o <<OperationMentions(g, term), WorkflowMentions(g, term)>>

\* traceEntity: rows that differ in entity, file or evidence only are one.
traceEntity(g, term) ==
    LET key(x) == <<x.repo, x.kind, x.name, x.line, x.role>>
    IN  OneEach(UNION Range(EntityQueries(g, term, g.roles)), key)

\* traceEntitiesExactWithQueryCount
traceEntitiesExact(g, terms) ==
    UNION {UNION Range(EntityQueries(g, term, Live(g.roles))) : term \in terms}
-----------------------------------------------------------------------------
(* The semantic graph. *)

\* loadActiveSemanticGraph: two queries at once; the ends of a relation may be
\* inactive.
loadActiveSemanticGraph(g) == [specs |-> Live(g.specs), relations |-> Live(g.rels)]
loadActiveSemanticGraphRefuses(g) == \E r \in Live(g.rels) : r.kind = "CALLS_ENDPOINT"
loadActiveKnownContractSpecs(g) == {s \in Live(g.specs) : s.known}
loadActiveRepoDependencies(g) == Live(g.deps)

\* semanticTrace: one hop, whether or not the other end is active.
semanticTrace(g, id, direction) ==
    {r \in Live(g.rels) : \/ direction # "incoming" /\ r.from = id
                          \/ direction # "outgoing" /\ r.to = id}

explainSemanticRelationsBetweenRepos(g, from, to) ==
    {r \in Live(g.rels) : \E a, b \in Live(g.specs) :
        a.id = r.from /\ b.id = r.to /\ a.repo = from /\ b.repo = to}
-----------------------------------------------------------------------------
(* What an answer must be. *)

\* The two orders agree on the repositories that have a role.
SortedAlike(g) ==
    \A x, y \in g.roles : x.repo < y.repo => g.collation[x.repo] < g.collation[y.repo]

\* A contract trace that leaves a row out answers with as many rows as were asked
\* for.  None of them is of a repository that comes after the row's: in the order
\* of the answer when the last limit cut the row off, in that of the database,
\* among the rows of its role, when the limit of its role did.  Where the orders
\* agree nothing of a repository after the row's is left; where they do not, the
\* limit of one role can cut off a repository in the midst of the answer.
CutsLastRepositories(g, kind, path, method, limit) ==
    LET contractIds == TracedContracts(g, kind, path, method)
        answer == traceContract(g, kind, path, method, limit)
        all == UNION {RoleRows(g, contractIds, role) : role \in ToSet(Roles)}
        cutByRole(x) == x \notin traceContractRole(g, contractIds, x.role, limit)
    IN  \A x \in all \ answer :
            /\ Cardinality(answer) = limit
            /\ \A y \in answer :
                  /\ cutByRole(x) /\ y.role = x.role => y.repo <= x.repo
                  /\ ~cutByRole(x) \/ SortedAlike(g) => g.collation[y.repo] <= g.collation[x.repo]
=============================================================================

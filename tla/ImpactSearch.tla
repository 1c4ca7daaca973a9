----------------------------- MODULE ImpactSearch -----------------------------
(***************************************************************************)
(* core/contracts/impact and semanticTrace: what a change of a contract    *)
(* reaches in the graph of specifications and their relations.             *)
(*                                                                         *)
(* impactEngine.analyzeImpact classifies a change of one contract,         *)
(* semanticImpact.analyzeSemanticImpact only lists what is reachable, and  *)
(* traceSemanticGraph walks every edge in both directions.  All of them    *)
(* search breadth first; a Hop is one round.  The order in which the       *)
(* database returns the relations is not determined, and it decides by     *)
(* which edge, and in which mode, a specification is reached first.        *)
(***************************************************************************)
EXTENDS SemanticRelations, Sequences, FiniteSets

CONSTANTS
    Graphs,      \* [specs, relations] a database may hold
    Targets,     \* [kind, key] as normalizeSemanticTarget returns them
    Changes,     \* [changeType, detail]
    HopBounds    \* the maxHops options

VARIABLES search

\* A graph is stored, so it is finite.  The MCP server takes bounds of at least
\* one hop (server.ts:640-646).  The command line takes what it is given
\* (cli.ts:65, :76): with 0 a search stays at its roots and is not truncated.
GraphsAssumption == \A graph \in Graphs : IsFiniteSet(graph.relations)
HopBoundsAssumption == HopBounds \subseteq Nat \ {0}

KnownKinds == {"http-endpoint", "event", "schema", "grpc-method", "dubbo-method", "graphql-operation"}

\* The kinds a user may write.
specKindMap(kind) ==
    CASE kind \in {"api", "http"} -> "http-endpoint"
      [] kind \in {"schema", "dto"} -> "schema"
      [] kind = "grpc" -> "grpc-method"
      [] kind = "dubbo" -> "dubbo-method"
      [] kind = "graphql" -> "graphql-operation"
      [] OTHER -> kind

\* A contract id is kind:key, so a key that is its end names it.
findTargetSpecs(target, specs) ==
    {s \in specs : /\ s.specKind \in KnownKinds
                   /\ s.specKind = specKindMap(target.kind)
                   /\ \/ target.key \in {s.canonicalKey, s.contractId}
                      \/ s.specKind = "schema" /\ s.data.name.text = target.key}

IdsOf(specs) == {s.id : s \in specs}
SpecOf(graph, id) == CHOOSE s \in graph.specs : s.id = id
-----------------------------------------------------------------------------
(* One step of the search. *)

Followed(edge) == Category(edge) \in {"consumer-to-producer", "schema-to-use", "execution-flow"}

\* Dependents only: the producer's end of every edge but the executed one.
ImpactedForwardOnly(edge, id) ==
    IF Category(edge) = "intra-spec" THEN {}
    ELSE IF edge.to = id THEN {edge.from} ELSE {}

\* getImpactedSpecId (of impactEngine; semanticImpact has the same)
getImpactedSpecId(edge, id) ==
    IF Category(edge) = "execution-flow"
    THEN IF edge.from = id THEN {edge.to} ELSE {}
    ELSE IF Category(edge) = "intra-spec" THEN {}
    ELSE IF ProducerEnd(edge) = id THEN {ConsumerEnd(edge)} ELSE {}

\* What is called from a changed handler: its calls, and what they reach.
CalledFrom(edge, id) ==
    IF /\ edge.from = id
       /\ \/ Category(edge) = "execution-flow"
          \/ Category(edge) = "consumer-to-producer" /\ Forward(edge)
    THEN {edge.to} ELSE {}

\* getImpactStepSpecIds, impactStepsFromEdge
ImpactSteps(edge, id, mode) ==
    IF mode = "downstream"
    THEN {[id |-> x, mode |-> mode, edge |-> edge] : x \in CalledFrom(edge, id)}
    ELSE {[id |-> x, edge |-> edge,
           mode |-> IF Category(edge) = "execution-flow" THEN "downstream" ELSE "normal"] :
            x \in getImpactedSpecId(edge, id)}

\* traverseImpactSteps, one round: all steps from the frontier to what is new.
StepsFrom(s) ==
    {step \in UNION {ImpactSteps(e, id, s.frontier[id]) :
                        e \in {x \in s.relations : Followed(x)}, id \in DOMAIN s.frontier} :
        step.id \notin DOMAIN s.visited}

\* hasMoreImpactTargets
HasMore(s, frontier, visited) ==
    \E e \in {x \in s.relations : Followed(x)} : \E id \in DOMAIN frontier :
        \E step \in ImpactSteps(e, id, frontier[id]) : step.id \notin visited
-----------------------------------------------------------------------------
(* The rules: how severe a change is.  "none" is no item. *)

TargetSeverity(change, removed, renamed, altered, needsDetail) ==
    CASE change.changeType = removed -> "breaking"
      [] change.changeType = renamed /\ (needsDetail => change.detail # "") -> "breaking"
      [] change.changeType = altered -> "risky"
      [] OTHER -> "none"

classifyHttpEndpointTargetChange(change) ==
    TargetSeverity(change, "endpoint-removed", "endpoint-renamed", "endpoint-schema-change", TRUE)
classifyEventTargetChange(change) ==
    TargetSeverity(change, "topic-removed", "topic-renamed", "event-payload-change", TRUE)
classifyGrpcMethodTargetChange(change) ==
    TargetSeverity(change, "rpc-removed", "rpc-renamed", "rpc-signature-change", FALSE)
classifyDubboMethodTargetChange(change) ==
    TargetSeverity(change, "rpc-removed", "rpc-renamed", "rpc-signature-change", FALSE)
classifyGraphqlOperationTargetChange(change) ==
    TargetSeverity(change, "rpc-removed", "rpc-renamed", "rpc-signature-change", FALSE)

OptionalField(spec, name) == \E f \in spec.data.fields : f.name = name /\ f.optional

\* schemaFieldChangeSeverity; an optional field's removal is only risky.
classifySchemaTargetChange(change, spec) ==
    CASE change.changeType = "field-removed" ->
            IF OptionalField(spec, change.detail) THEN "risky" ELSE "breaking"
      [] change.changeType = "field-added" -> "compatible"
      [] OTHER -> "risky"

classifyTargetChange(change, spec) ==
    CASE spec.specKind = "http-endpoint" -> classifyHttpEndpointTargetChange(change)
      [] spec.specKind = "event" -> classifyEventTargetChange(change)
      [] spec.specKind = "grpc-method" -> classifyGrpcMethodTargetChange(change)
      [] spec.specKind = "dubbo-method" -> classifyDubboMethodTargetChange(change)
      [] spec.specKind = "graphql-operation" -> classifyGraphqlOperationTargetChange(change)
      [] spec.specKind = "schema" -> classifySchemaTargetChange(change, spec)

DependentSeverity(change, removed, renamed, altered) ==
    CASE change.changeType \in {removed, renamed} -> "breaking"
      [] change.changeType \in {altered, "field-removed", "field-type-changed"} -> "risky"
      [] change.changeType = "field-added" -> "compatible"
      [] OTHER -> "none"

assessHttpEndpointChange(change) ==
    DependentSeverity(change, "endpoint-removed", "endpoint-renamed", "endpoint-schema-change")
assessEventChange(change) ==
    DependentSeverity(change, "topic-removed", "topic-renamed", "event-payload-change")
assessGrpcMethodChange(change) ==
    DependentSeverity(change, "rpc-removed", "rpc-renamed", "rpc-signature-change")
assessDubboMethodChange(change) ==
    DependentSeverity(change, "rpc-removed", "rpc-renamed", "rpc-signature-change")
assessGraphqlOperationChange(change) ==
    DependentSeverity(change, "rpc-removed", "rpc-renamed", "rpc-signature-change")

\* schemaChangeSeverity, of a schema that uses the changed one.
assessSchemaFieldChange(change, spec) ==
    CASE change.detail = "" -> "none"
      [] change.detail # "" /\ change.changeType = "field-removed" ->
            IF OptionalField(spec, change.detail) THEN "risky" ELSE "breaking"
      [] change.detail # "" /\ change.changeType = "field-added" -> "compatible"
      [] OTHER -> "risky"

AssessedSeverity(change, spec) ==
    CASE spec.specKind = "http-endpoint" -> assessHttpEndpointChange(change)
      [] spec.specKind = "event" -> assessEventChange(change)
      [] spec.specKind = "grpc-method" -> assessGrpcMethodChange(change)
      [] spec.specKind = "dubbo-method" -> assessDubboMethodChange(change)
      [] spec.specKind = "graphql-operation" -> assessGraphqlOperationChange(change)
      [] spec.specKind = "schema" -> assessSchemaFieldChange(change, spec)
      [] OTHER -> "none"

Item(spec, relationKind, symbol, severity, confidence) ==
    [repo |-> spec.repoId, file |-> spec.fileId, spec |-> spec.id,
     relationKind |-> relationKind, symbol |-> symbol, severity |-> severity, confidence |-> confidence]

Least(values) == CHOOSE v \in values : \A w \in values : v <= w

\* classifyImpact: what no rule is about stays risky, with little confidence.
classifyImpact(change, spec, edge) ==
    LET severity == AssessedSeverity(change, spec)
    IN  IF spec.specKind \notin KnownKinds
        THEN Item(spec, edge.kind, spec.canonicalKey, "risky", Least({edge.confidence, 40}))
        ELSE IF severity # "none"
        THEN Item(spec, edge.kind,
                  IF spec.specKind = "schema" THEN spec.data.name.text \o "." \o change.detail
                  ELSE spec.canonicalKey, severity, edge.confidence)
        ELSE Item(spec, edge.kind, spec.canonicalKey, "risky",
                  Least({edge.confidence, spec.confidence, 60}))

SeverityRank == [compatible |-> 1, risky |-> 2, breaking |-> 3]

\* References to a changed field in the files of the specifications found; a
\* specification says whether its file has one.
fieldItems(change, target, found) ==
    {Item(s, "USES_SCHEMA", target.key \o "." \o change.detail,
          CASE change.changeType = "field-removed" -> "breaking"
            [] change.changeType = "field-added" -> "compatible"
            [] OTHER -> "risky", s.confidence) : s \in {x \in found : x.mentionsField}}

\* deduplicateImpacts: of the items of one symbol and kind of relation in one
\* file, the most confident one, of equals the most severe.
deduplicateImpacts(items) ==
    LET key(i) == <<i.repo, i.file, i.symbol, i.relationKind>>
        beats(a, b) == \/ a.confidence > b.confidence
                       \/ a.confidence = b.confidence /\ SeverityRank[a.severity] > SeverityRank[b.severity]
    IN  {a \in items : \A b \in items : key(a) = key(b) => ~beats(b, a)}

\* All the items of a finished search, before they are deduplicated.
AllItems(s) ==
    LET roots == {SpecOf(s.graph, id) : id \in s.roots}
        own == {Item(r, "IMPACTS", IF r.specKind = "schema" THEN r.data.name.text \o "." \o s.change.detail
                                   ELSE r.canonicalKey, classifyTargetChange(s.change, r), r.confidence) :
                   r \in {x \in roots : classifyTargetChange(s.change, x) # "none"}}
        reached == {classifyImpact(s.change, SpecOf(s.graph, step.id), step.edge) :
                      step \in {x \in s.steps : x.id \in IdsOf(s.graph.specs)}}
        schemaChange == \E r \in roots : r.specKind = "schema"
    IN  own \union reached \union
        IF schemaChange /\ s.change.detail # ""
        THEN fieldItems(s.change, s.target, {SpecOf(s.graph, i.spec) : i \in own \union reached})
        ELSE {}
-----------------------------------------------------------------------------
(* The search as a machine. *)

\* What a Map is after values for new ids were set.
Adding(f, ids, value) == [id \in DOMAIN f \union ids |-> IF id \in DOMAIN f THEN f[id] ELSE value]

NoChange == [changeType |-> "", detail |-> ""]
NoGraph == [specs |-> {}, relations |-> {}]
NoSearch == [pc |-> "idle", by |-> "", graph |-> NoGraph, target |-> [kind |-> "", key |-> ""],
             change |-> NoChange, relations |-> {}, roots |-> {}, bound |-> 0, hop |-> 0,
             frontier |-> <<>>, visited |-> <<>>, steps |-> {}, truncated |-> FALSE, items |-> {},
             walks |-> <<>>, walked |-> {}, nodes |-> <<>>, edges |-> {}]

Init == search = NoSearch

Begin(by, graph, target, change, relations, bound) ==
    LET found == findTargetSpecs(target, graph.specs)
        roots == selectImpactRootIds(IdsOf(found), graph.relations)
    IN  /\ search.pc = "idle"
        /\ found # {}
        /\ search' = [NoSearch EXCEPT !.pc = "walk", !.by = by, !.graph = graph, !.target = target,
                        !.change = change, !.relations = relations, !.bound = bound, !.roots = roots,
                        !.frontier = [id \in roots |-> "normal"], !.visited = [id \in roots |-> 0]]

\* analyzeImpact follows no executed calls.
AnalyzeImpact == \E graph \in Graphs, target \in Targets, change \in Changes, bound \in HopBounds :
    Begin("impact", graph, target, change,
          {e \in graph.relations : Category(e) \in {"consumer-to-producer", "schema-to-use"}}, bound)

\* analyzeSemanticImpact, traceImpactPropagation
AnalyzeSemanticImpact == \E graph \in Graphs, target \in Targets, bound \in HopBounds :
    Begin("propagation", graph, target, NoChange, graph.relations, bound)

\* A round of traverseImpactSteps or traceImpactPropagation: which of its
\* steps to a new specification comes first is the database's order of rows.
Hop ==
    LET steps == StepsFrom(search)
    IN  /\ search.pc = "walk"
        /\ search.hop < search.bound
        /\ steps # {}
        /\ \E first \in {f \in SUBSET steps : /\ {x.id : x \in f} = {x.id : x \in steps}
                                              /\ \A x, y \in f : x.id = y.id => x = y} :
            LET frontier == [id \in {x.id : x \in first} |-> (CHOOSE x \in first : x.id = id).mode]
                visited == Adding(search.visited, DOMAIN frontier, search.hop + 1)
            IN  search' = [search EXCEPT
                    !.hop = @ + 1, !.frontier = frontier, !.visited = visited,
                    !.steps = @ \union first,
                    !.truncated = search.hop + 1 = search.bound
                                    /\ HasMore(search, frontier, DOMAIN visited)]

\* The report is put together when a round finds nothing or was the last.
Report ==
    /\ search.pc = "walk"
    /\ search.hop = search.bound \/ StepsFrom(search) = {}
    /\ search' = [search EXCEPT !.pc = "done",
                    !.items = IF search.by = "impact" THEN deduplicateImpacts(AllItems(search)) ELSE {}]

\* traceSemanticGraph keeps every target as a root, and walks all edges, first
\* away from the targets and then towards them.
TraceSemanticGraph == \E graph \in Graphs, target \in Targets, bound \in HopBounds,
                          walks \in {<<"outgoing", "incoming">>, <<"outgoing">>, <<"incoming">>} :
    LET roots == IdsOf(findTargetSpecs(target, graph.specs))
    IN  /\ search.pc = "idle"
        /\ roots # {}
        /\ search' = [NoSearch EXCEPT !.pc = "trace", !.by = "trace", !.graph = graph, !.target = target,
                        !.relations = graph.relations, !.bound = bound, !.roots = roots, !.walks = walks,
                        !.frontier = [id \in roots |-> "target"], !.visited = [id \in roots |-> 0],
                        !.nodes = [id \in roots |-> "target"]]

Adjacent(relations, id, direction) ==
    {e \in relations : id = IF direction = "outgoing" THEN e.from ELSE e.to}
OtherEnd(edge, direction) == IF direction = "outgoing" THEN edge.to ELSE edge.from

\* A round of one walk.  The role a node got first stays.
Walk ==
    LET direction == search.walks[1]
        edges == UNION {Adjacent(search.relations, id, direction) : id \in DOMAIN search.frontier}
        next == {OtherEnd(e, direction) : e \in edges} \ DOMAIN search.visited
        role == IF direction = "outgoing" THEN "downstream" ELSE "upstream"
    IN  /\ search.pc = "trace"
        /\ search.walks # <<>>
        /\ search.hop < search.bound /\ DOMAIN search.frontier # {}
        /\ search' = [search EXCEPT
                !.hop = @ + 1,
                !.edges = @ \union {<<e.from, e.to, e.kind>> : e \in edges},
                !.frontier = [id \in next |-> role],
                !.visited = Adding(@, next, search.hop + 1),
                !.nodes = Adding(@, next, role),
                !.truncated = @ \/ (search.hop + 1 = search.bound
                                  /\ \E id \in next : Adjacent(search.relations, id, direction) # {})]

\* The walk is over.  After the last one the nodes whose specification is not
\* active are left out of the report, after they were walked through.
LastWalk == Len(search.walks) = 1
AfterWalk ==
    LET known == DOMAIN search.nodes \intersect IdsOf(search.graph.specs)
    IN  [search EXCEPT
            !.walks = Tail(@), !.walked = @ \union {search.walks[1]}, !.hop = 0,
            !.frontier = [id \in search.roots |-> "target"],
            !.nodes = IF LastWalk THEN [id \in known |-> search.nodes[id]] ELSE @,
            !.pc = IF LastWalk THEN "done" ELSE @]

\* The second walk goes round what the first one saw.
EndWalkRemembering ==
    /\ search.pc = "trace"
    /\ search.walks # <<>>
    /\ search.hop = search.bound \/ DOMAIN search.frontier = {}
    /\ search' = AfterWalk

\* A walk ends when nothing is new or the bound is reached, and the next one
\* starts at the targets again.
EndWalk ==
    /\ search.pc = "trace"
    /\ search.walks # <<>>
    /\ search.hop = search.bound \/ DOMAIN search.frontier = {}
    /\ search' = [AfterWalk EXCEPT !.visited = [id \in search.roots |-> 0]]

\* The caller has its answer.
Answered == search.pc = "done" /\ search' = NoSearch

Next == AnalyzeImpact \/ AnalyzeSemanticImpact \/ Hop \/ Report
          \/ TraceSemanticGraph \/ Walk \/ EndWalk \/ Answered

Spec == Init /\ [][Next]_search
-----------------------------------------------------------------------------
(* Properties. *)

\* What the arcs lead to from a set, and all they lead to over any number of
\* steps: each arc adds one at most.
Beyond(arcs, where) == {a[2] : a \in {x \in arcs : x[1] \in where}}
Further(arcs, where) == where \union Beyond(arcs, where)
Rounds(arcs, start) ==
    LET reach[i \in 0..Cardinality(arcs)] == IF i = 0 THEN start ELSE Further(arcs, reach[i - 1])
    IN  reach
ReachedFrom(arcs, start) == Rounds(arcs, start)[Cardinality(arcs)]

\* From a specification, reached as a dependent of a changed producer
\* ("normal") or as what a changed handler calls ("downstream"), to another.
Arcs(relations) ==
    {<<<<ProducerEnd(e), "normal">>, <<ConsumerEnd(e), "normal">>>> :
        e \in {x \in relations : Category(x) \in {"consumer-to-producer", "schema-to-use"}}} \union
    {<<<<e.from, "normal">>, <<e.to, "downstream">>>> :
        e \in {x \in relations : Category(x) = "execution-flow"}} \union
    {<<<<e.from, "downstream">>, <<e.to, "downstream">>>> :
        e \in {x \in relations : \/ Category(x) = "execution-flow"
                                 \/ Category(x) = "consumer-to-producer" /\ Forward(x)}}

Start(s) == {<<id, "normal">> : id \in s.roots}
Ids(where) == {w[1] : w \in where}

\* The way in which the search found a specification.
ModeOf(s, id) == IF id \in s.roots THEN "normal" ELSE (CHOOSE x \in s.steps : x.id = id).mode

\* A search that does not say it was cut short has found, whatever the order
\* of the rows, nothing but what the change reaches, all that lies one step
\* beyond what it found, and so all that the change reaches on paths that keep
\* clear of the specifications reached in both ways: those are followed in the
\* way they were met first only (semanticImpact.ts:79-161, and :129).
UntruncatedIsComplete ==
    search.pc = "done" /\ search.by = "propagation" /\ ~search.truncated =>
        LET arcs == Arcs(search.relations)
            all == ReachedFrom(arcs, Start(search))
            both == {id \in Ids(all) : {<<id, "normal">>, <<id, "downstream">>} \subseteq all}
            found == {<<id, ModeOf(search, id)>> : id \in DOMAIN search.visited}
        IN  /\ found \subseteq all
            /\ Ids(Beyond(arcs, found)) \subseteq DOMAIN search.visited
            /\ Ids(ReachedFrom({a \in arcs : a[1][1] \notin both}, Start(search)))
                 \subseteq DOMAIN search.visited

\* The edges as they are walked.
Ways(relations, direction) ==
    {IF direction = "outgoing" THEN <<e.from, e.to>> ELSE <<e.to, e.from>> : e \in relations}

\* What a finished trace reports.  Its nodes are active specifications, the targets
\* among them, and every active end of an edge is one; an edge can end at a
\* specification that is not active and is no node.  If it does not say it was cut
\* short it has every active specification that can be reached in the directions
\* walked, through inactive ones as well, and all edges that way of whatever is
\* reached (semanticTrace.ts:244-375).
UntruncatedTraceIsComplete ==
    search.pc = "done" /\ search.by = "trace" =>
        LET active == IdsOf(search.graph.specs)
        IN  /\ search.roots \subseteq DOMAIN search.nodes /\ DOMAIN search.nodes \subseteq active
            /\ \A e \in search.edges : {e[1], e[2]} \intersect active \subseteq DOMAIN search.nodes
            /\ ~search.truncated => \A direction \in search.walked :
                  LET reached == ReachedFrom(Ways(search.relations, direction), search.roots)
                  IN  /\ reached \intersect active \subseteq DOMAIN search.nodes
                      /\ \A id \in reached : \A e \in Adjacent(search.relations, id, direction) :
                            <<e.from, e.to, e.kind>> \in search.edges
=============================================================================

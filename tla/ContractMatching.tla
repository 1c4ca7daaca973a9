--------------------------- MODULE ContractMatching ---------------------------
(***************************************************************************)
(* The language-independent resolver of core/contracts: which contract     *)
(* specifications of different repositories belong together.               *)
(*                                                                         *)
(* A specification is a ContractSpec row with its specJson parsed (`data`).*)
(* A field that is undefined, null or empty in the code is Absent: the     *)
(* code tests them all by truthiness.  Paths are sequences of segments,    *)
(* and Templates are the segments of the form {param}.  Names that the     *)
(* code compares without case are pairs [key, text].  Confidences are in   *)
(* hundredths.  An edge's reason is kept as `how`, the rule that made it.  *)
(***************************************************************************)
EXTENDS Integers, Sequences, FiniteSets, SequencesExt

Absent == ""
NoName == [key |-> Absent, text |-> Absent]
Templates == {"{id}", "{tenant}"}

\* confidenceFor
confidenceFor == [x \in {"exact-method-path", "template-compatible", "wildcard",
                         "static-to-template", "path-only", "grpc-exact",
                         "grpc-mismatch", "grpc-unspecified", "graphql-exact",
                         "dubbo-interface", "dubbo-mismatch", "dubbo-partial",
                         "dubbo-exact", "body-type", "payload-type"} |->
    CASE x \in {"exact-method-path", "grpc-exact", "graphql-exact", "dubbo-exact"} -> 95
      [] x \in {"template-compatible", "grpc-unspecified", "dubbo-partial"} -> 90
      [] x = "static-to-template" -> 85
      [] x \in {"wildcard", "grpc-mismatch", "dubbo-mismatch"} -> 80
      [] x = "path-only" -> 75
      [] x \in {"body-type", "payload-type"} -> 70
      [] x = "dubbo-interface" -> 60]

\* A SEMANTIC_REL edge; its evidence is that of the specification `evidence`.
SemanticRel(from, to, kind, evidence, how, confidence) ==
    [from |-> from.id, to |-> to.id, kind |-> kind, evidence |-> evidence,
     how |-> how, confidence |-> confidence]

-----------------------------------------------------------------------------
(* Roles. *)

\* buildSpecRoleMap: the role edge of the specification's own repository and
\* contract, the first in the order the roles are loaded in; `shared` when
\* there is none.
RoleOf(spec, repoContracts) ==
    LET roles == {e.role : e \in {f \in repoContracts : f.contractId = spec.contractId
                                                         /\ f.repoId = spec.repoId}}
    IN  CASE "owner" \in roles -> "owner"
          [] "owner" \notin roles /\ "producer" \in roles -> "producer"
          [] roles = {"consumer"} \/ roles = {"consumer", "shared"} -> "consumer"
          [] OTHER -> "shared"

Producers(specs, repoContracts) ==
    {s \in specs : RoleOf(s, repoContracts) \in {"producer", "owner", "shared"}}
Consumers(specs, repoContracts) ==
    {s \in specs : RoleOf(s, repoContracts) \in {"consumer", "shared"}}

OfKind(specs, kind) == {s \in specs : s.specKind = kind}

-----------------------------------------------------------------------------
(* HTTP. *)

isTemplateSegment(segment) == segment \in Templates

\* Template first segments go to a bucket of their own.
bucketKey(path) ==
    IF path = <<>> THEN "/"
    ELSE IF isTemplateSegment(path[1]) THEN "*" ELSE path[1]

pathsCompatible(a, b) ==
    /\ Len(a) = Len(b)
    /\ \A i \in DOMAIN a : a[i] = b[i] \/ isTemplateSegment(a[i]) \/ isTemplateSegment(b[i])

staticFitsTemplate(static, template) ==
    /\ Len(static) = Len(template)
    /\ \A i \in DOMAIN static : isTemplateSegment(template[i]) \/ static[i] = template[i]

hasTemplates(path) == \E i \in DOMAIN path : isTemplateSegment(path[i])

MethodsDiffer(a, b) == a # Absent /\ b # Absent /\ a # b

\* classifyHttpMatch: the rule by which a consumer's specification calls a
\* producer's, "none" when it does not.
classifyHttpMatch(from, to) ==
    LET m == from.data.method   n == to.data.method
        p == from.data.path     q == to.data.path
        firstIsTemplate(path) == path # <<>> /\ isTemplateSegment(path[1])
    IN  IF m # Absent /\ m = n /\ p = q THEN "exact-method-path"
        ELSE IF p = q /\ (m = Absent \/ n = Absent) THEN "path-only"
        ELSE IF hasTemplates(p) /\ ~hasTemplates(q) THEN "none"
        ELSE IF ~hasTemplates(p) /\ hasTemplates(q) /\ staticFitsTemplate(p, q)
        THEN IF MethodsDiffer(m, n) THEN "none" ELSE "static-to-template"
        ELSE IF hasTemplates(p) /\ hasTemplates(q) /\ pathsCompatible(p, q)
        THEN IF MethodsDiffer(m, n) THEN "none" ELSE "template-compatible"
        ELSE IF (firstIsTemplate(p) \/ firstIsTemplate(q)) /\ pathsCompatible(p, q)
                  /\ ~MethodsDiffer(m, n)
        THEN "wildcard" ELSE "none"

\* bucketSpecs and the two loops: the producers each consumer is compared with.
HttpBucketPeers(consumer, producers) ==
    LET b == bucketKey(consumer.data.path)
    IN  {p \in producers : \/ b = "*"
                           \/ bucketKey(p.data.path) \in {b, "*"}}

\* The candidates of one consumer, of which each producing repository keeps
\* its exact ones, failing these its path-only ones, failing these all.
HttpCandidates(consumer, producers) ==
    {p \in HttpBucketPeers(consumer, producers) :
        /\ p.id # consumer.id /\ p.repoId # consumer.repoId
        /\ classifyHttpMatch(consumer, p) # "none"}

PreferredHttp(consumer, candidates) ==
    LET kinds(r) == {classifyHttpMatch(consumer, p) : p \in {c \in candidates : c.repoId = r}}
    IN  {p \in candidates :
            LET k == classifyHttpMatch(consumer, p)
            IN  IF "exact-method-path" \in kinds(p.repoId) THEN k = "exact-method-path"
                ELSE "path-only" \in kinds(p.repoId) => k = "path-only"}

resolveHttpRelations(specs, repoContracts) ==
    LET http == OfKind(specs, "http-endpoint")
        producers == Producers(http, repoContracts)
    IN  UNION {{LET how == classifyHttpMatch(c, p)
                IN  SemanticRel(c, p, "CALLS_HTTP", c.id, how, confidenceFor[how])
                  : p \in PreferredHttp(c, HttpCandidates(c, producers))}
               : c \in Consumers(http, repoContracts)}

-----------------------------------------------------------------------------
(* Events. *)

\* Every topic relates each producer and each consumer of different
\* repositories in both directions; a differing payload lowers confidence.
resolveEventRelations(specs, repoContracts) ==
    LET events == {s \in OfKind(specs, "event") : s.data.topic # Absent}
        pairs == {<<p, c>> \in Producers(events, repoContracts) \X Consumers(events, repoContracts) :
                    p.data.topic = c.data.topic /\ p.id # c.id /\ p.repoId # c.repoId}
        confidence(p, c) == IF /\ NoName \notin {p.data.payloadType, c.data.payloadType}
                               /\ p.data.payloadType # c.data.payloadType 
                            THEN 85 ELSE 95
    IN  {SemanticRel(x[1], x[2], "PUBLISHES_EVENT", x[1].id, "topic", confidence(x[1], x[2])) : x \in pairs}
          \union
        {SemanticRel(x[2], x[1], "SUBSCRIBES_EVENT", x[2].id, "topic", confidence(x[1], x[2])) : x \in pairs}

-----------------------------------------------------------------------------
(* Remote procedure calls. *)

\* How the packages of a gRPC client and server agree.
GrpcPackages(consumer, producer) ==
    LET c == consumer.data.package  p == producer.data.package
    IN  IF MethodsDiffer(c, p) THEN "grpc-mismatch"
        ELSE IF c = p THEN "grpc-exact" ELSE "grpc-unspecified"

\* Service and method decide, the package only lowers confidence.
resolveGrpcRelations(specs, repoContracts) ==
    LET grpc == OfKind(specs, "grpc-method")
        pairs == {<<c, p>> \in Consumers(grpc, repoContracts) \X Producers(grpc, repoContracts) :
                    /\ c.data.service = p.data.service /\ c.data.method = p.data.method
                    /\ c.id # p.id /\ c.repoId # p.repoId}
    IN  {LET how == GrpcPackages(x[1], x[2])
         IN  SemanticRel(x[1], x[2], "CALLS_GRPC", x[1].id, how, confidenceFor[how]) : x \in pairs}

AnyMethod(m) == m \in {Absent, "*"}

methodsCompatible(l, r) == AnyMethod(l) \/ AnyMethod(r) \/ l = r

\* selectProducerCandidates: one candidate for each repository, method, group
\* and version; an interface-level one only where no method-level one exists.
selectProducerCandidates(consumer, producers) ==
    LET compatible == {p \in producers : methodsCompatible(consumer.data.method, p.data.method)}
        key(p) == <<p.repoId, IF p.data.method = Absent THEN "*" ELSE p.data.method,
                    p.data.group, p.data.version>>
        beats(p, o) == \/ p.confidence > o.confidence
                       \/ p.confidence = o.confidence /\ p.order < o.order
        selected == {p \in compatible : \A o \in compatible \ {p} : key(o) = key(p) => beats(p, o)}
        exactRepos == {p.repoId : p \in {o \in selected : o.data.method = consumer.data.method}}
    IN  IF AnyMethod(consumer.data.method) THEN selected
        ELSE {p \in selected : p.data.method # "*" \/ p.repoId \notin exactRepos}

\* classifyGroupVersion
classifyGroupVersion(consumer, producer) ==
    LET differ(f) == MethodsDiffer(consumer.data[f], producer.data[f])
        missing(f) == Absent \in {consumer.data[f], producer.data[f]}
    IN  IF differ("group") THEN "dubbo-mismatch"
        ELSE IF differ("version") THEN "dubbo-mismatch"
        ELSE IF missing("group") \/ missing("version") THEN "dubbo-partial" ELSE "dubbo-exact"

\* classifyDubboMatch
classifyDubboMatch(consumer, producer) ==
    IF AnyMethod(consumer.data.method) \/ AnyMethod(producer.data.method)
    THEN "dubbo-interface" ELSE classifyGroupVersion(consumer, producer)

resolveDubboRelations(specs, repoContracts) ==
    LET dubbo == OfKind(specs, "dubbo-method")
        bucket(c) == {p \in Producers(dubbo, repoContracts) : p.data.interfaceName = c.data.interfaceName}
    IN  UNION {{LET how == classifyDubboMatch(c, p)
                IN  SemanticRel(c, p, "CALLS_DUBBO", c.id, how, confidenceFor[how])
                  : p \in {q \in selectProducerCandidates(c, bucket(c)) :
                                q.id # c.id /\ q.repoId # c.repoId}}
               : c \in Consumers(dubbo, repoContracts)}

resolveGraphqlRelations(specs, repoContracts) ==
    LET graphql == OfKind(specs, "graphql-operation")
    IN  {SemanticRel(x[1], x[2], "CALLS_GRAPHQL", x[1].id, "graphql-exact", confidenceFor["graphql-exact"]) :
            x \in {<<c, p>> \in Consumers(graphql, repoContracts) \X Producers(graphql, repoContracts) :
                        c.canonicalKey = p.canonicalKey /\ c.repoId # p.repoId}}

-----------------------------------------------------------------------------
(* Handlers that call out. *)

CallableConsumerKinds == {"http-endpoint", "dubbo-method", "grpc-method", "graphql-operation"}

\* Entries and outbound calls of one source symbol.  `shared` is neither: the
\* role must be known.
resolveInternalCallRelations(specs, repoContracts) ==
    LET entries == {s \in specs : s.sourceSymbolId # Absent
                        /\ RoleOf(s, repoContracts) \in {"producer", "owner"}}
        outbound == {s \in specs : s.sourceSymbolId # Absent /\ s.specKind \in CallableConsumerKinds
                        /\ RoleOf(s, repoContracts) = "consumer"}
    IN  {SemanticRel(x[1], x[2], "INTERNAL_CALL", x[2].id, "internal",
                     IF x[1].confidence < x[2].confidence THEN x[1].confidence ELSE x[2].confidence) :
            x \in {<<e, o>> \in entries \X outbound :
                        /\ e.repoId = o.repoId /\ e.sourceSymbolId = o.sourceSymbolId
                        /\ e.id # o.id /\ e.contractId # o.contractId}}

-----------------------------------------------------------------------------
(* Schemas. *)

\* lookupSchemaId: the schema a type name means to a specification, {} when
\* there is none or several: same spelling first, then same repository.
lookupSchemaId(schemas, name, repoId) ==
    LET candidates == {s \in schemas : s.data.name.key = name.key}
        exactName == {s \in candidates : s.data.name = name}
        pool == IF exactName # {} THEN exactName ELSE candidates
        sameRepo == {s \in pool : s.repoId = repoId}
        selected == IF sameRepo # {} THEN sameRepo ELSE pool
    IN  IF Cardinality(selected) = 1 THEN selected ELSE {}

\* A REQUEST_, RESPONSE_ or PAYLOAD edge of one specification.
SchemaEdges(spec, type, kind, schemas, how, confidence) ==
    IF type = NoName THEN {}
    ELSE {SemanticRel(spec, s, kind, spec.id, how, confidence)
            : s \in lookupSchemaId(schemas, type, spec.repoId)}

resolveHttpSchemaRelations(specs, schemas) ==
    UNION {SchemaEdges(s, s.data.requestType, "REQUEST_SCHEMA", schemas, "body-type", 70)
             \union SchemaEdges(s, s.data.responseType, "RESPONSE_SCHEMA", schemas, "body-type", 70)
           : s \in OfKind(specs, "http-endpoint")}

\* The package-qualified name first, the bare one when it finds nothing.
GrpcSchemaEdges(spec, type, kind, schemas) ==
    LET qualified == [key |-> spec.data.package \o "." \o type.key,
                      text |-> spec.data.package \o "." \o type.text]
        first == IF spec.data.package = Absent THEN {}
                 ELSE SchemaEdges(spec, qualified, kind, schemas, "rpc-type", 100)
    IN  IF type = NoName THEN {}
        ELSE IF first # {} THEN first ELSE SchemaEdges(spec, type, kind, schemas, "rpc-type", 100)

resolveGrpcSchemaRelations(specs, schemas) ==
    UNION {GrpcSchemaEdges(s, s.data.requestType, "REQUEST_SCHEMA", schemas)
             \union GrpcSchemaEdges(s, s.data.responseType, "RESPONSE_SCHEMA", schemas)
           : s \in OfKind(specs, "grpc-method")}

resolveGraphqlSchemaRelations(specs, schemas) ==
    UNION {SchemaEdges(s, s.data.requestType, "REQUEST_SCHEMA", schemas, "operation-type", 100)
             \union SchemaEdges(s, s.data.responseType, "RESPONSE_SCHEMA", schemas, "operation-type", 100)
           : s \in OfKind(specs, "graphql-operation")}

resolveEventPayloadRelations(specs, schemas) ==
    UNION {SchemaEdges(s, s.data.payloadType, "EVENT_PAYLOAD", schemas, "payload-type", 70)
           : s \in OfKind(specs, "event")}

\* resolvePendingSchemaRefs: relations of extractors that name a schema, whose
\* origin is a specification or every specification of a contract.
resolvePendingSchemaRefs(specs, pending, schemas) ==
    UNION {LET byId == {s \in specs : s.id = rel.from}
               origins == IF byId # {} THEN byId
                          ELSE {s \in specs : s.contractId = rel.fromContract}
           IN  {SemanticRel(x[1], x[2], rel.kind, rel.evidence, "pending", rel.confidence) :
                    x \in {<<o, t>> \in origins \X schemas :
                            t \in lookupSchemaId(schemas, rel.type, o.repoId) /\ o.id # t.id}}
           : rel \in pending}

resolveSchemaRelations(specs, pending) ==
    LET schemas == OfKind(specs, "schema")
    IN  UNION {resolveHttpSchemaRelations(specs, schemas), resolveGrpcSchemaRelations(specs, schemas),
               resolveGraphqlSchemaRelations(specs, schemas), resolveEventPayloadRelations(specs, schemas),
               resolvePendingSchemaRefs(specs, pending, schemas)}

-----------------------------------------------------------------------------
(* All of them. *)

\* deduplicateEdges: of the edges of one kind between two specifications the
\* most confident one stays; of equals the one found first, which a pending
\* reference never is.
deduplicateEdges(edges) ==
    LET logical(e) == <<e.from, e.to, e.kind>>
        beats(o, e) == \/ o.confidence > e.confidence
                       \/ o.confidence = e.confidence /\ e.how = "pending" /\ o.how # "pending"
    IN  {e \in edges : \A o \in edges : logical(o) = logical(e) => ~beats(o, e)}

resolveSemanticRelations(specs, repoContracts, pending) ==
    deduplicateEdges(UNION {
        resolveHttpRelations(specs, repoContracts), resolveEventRelations(specs, repoContracts),
        resolveSchemaRelations(specs, pending), resolveGrpcRelations(specs, repoContracts),
        resolveDubboRelations(specs, repoContracts), resolveGraphqlRelations(specs, repoContracts),
        resolveInternalCallRelations(specs, repoContracts)})
=============================================================================

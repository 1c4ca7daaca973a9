-------------------------- MODULE SemanticRelations --------------------------
(***************************************************************************)
(* core/contracts/semanticRelations: what each kind of SEMANTIC_REL edge   *)
(* means to those that follow it.                                          *)
(***************************************************************************)

EXTENDS Integers, TLC

\* SEMANTIC_REL_META
Meta(type, direction, category) ==
    [dependencyType |-> type, direction |-> direction, category |-> category]

NoDependency == "none"

SEMANTIC_REL_META ==
    [k \in {"CALLS_HTTP", "CALLS_DUBBO", "CALLS_GRPC", "CALLS_GRAPHQL"} |->
            Meta("api", "forward", "consumer-to-producer")] @@
    [k \in {"INTERNAL_CALL"} |-> Meta(NoDependency, "forward", "execution-flow")] @@
    [k \in {"SUBSCRIBES_EVENT"} |-> Meta("event", "forward", "consumer-to-producer")] @@
    [k \in {"PUBLISHES_EVENT"} |-> Meta("event", "reverse", "consumer-to-producer")] @@
    [k \in {"USES_SCHEMA"} |-> Meta("shared-contract", "forward", "schema-to-use")] @@
    [k \in {"REQUEST_SCHEMA", "RESPONSE_SCHEMA", "EVENT_PAYLOAD"} |->
            Meta(NoDependency, "forward", "schema-to-use")] @@
    [k \in {"IMPLEMENTS", "COMPATIBLE_WITH", "BREAKS", "IMPACTS"} |->
            Meta(NoDependency, "forward", "intra-spec")]

Category(edge) == SEMANTIC_REL_META[edge.kind].category
Forward(edge) == SEMANTIC_REL_META[edge.kind].direction = "forward"

\* deriveKinds
KindsOf(category) ==
    {k \in DOMAIN SEMANTIC_REL_META : SEMANTIC_REL_META[k].category = category}

\* The producing end of an edge between a consumer and a producer, or between
\* a schema and its user, and the other end.
ProducerEnd(edge) == IF Forward(edge) THEN edge.to ELSE edge.from
ConsumerEnd(edge) == IF Forward(edge) THEN edge.from ELSE edge.to

\* semanticRelationResolution: how much an edge is trusted, by its confidence
\* (in hundredths) and the words of its reason, of which the rules that made
\* it (ContractMatching) stand.
WeakRules == {"wildcard", "path-only", "template-compatible", "static-to-template",
              "grpc-mismatch", "grpc-unspecified", "dubbo-mismatch", "dubbo-partial"}
ExactRules == {"exact-method-path", "grpc-exact", "graphql-exact", "dubbo-exact"}

confidenceBand(c) == IF c >= 90 THEN "exact" ELSE IF c >= 80 THEN "probable" ELSE "heuristic"

semanticRelationResolution(edge) ==
    CASE edge.kind = "INTERNAL_CALL" -> "exact"
      [] edge.kind # "INTERNAL_CALL" /\ edge.confidence < 80 -> "heuristic"
      [] OTHER -> IF edge.how \in WeakRules THEN "probable"
                  ELSE IF edge.how \in ExactRules \/ edge.confidence >= 95 THEN "exact"
                  ELSE confidenceBand(edge.confidence)

\* selectImpactRootIds: of several specifications one name stands for, those
\* that the others consume; all of them when none does.
selectImpactRootIds(matched, relations) ==
    LET inside == {e \in relations : e.from \in matched /\ e.to \in matched
                      /\ Category(e) \in {"consumer-to-producer", "schema-to-use"}}
        roots == {ProducerEnd(e) : e \in inside}
    IN  IF roots # {} THEN roots ELSE matched
=============================================================================

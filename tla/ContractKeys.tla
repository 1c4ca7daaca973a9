----------------------------- MODULE ContractKeys -----------------------------
(***************************************************************************)
(* core/contracts/apiPath, event and targetNormalization: the key by which *)
(* a contract is stored, and the key a user's target is turned into.       *)
(*                                                                         *)
(* A path as written has an origin (https://host), a query, empty segments *)
(* (doubled or trailing slashes) and parameters in the styles of several   *)
(* frameworks.  A target as written has a kind or none, a separator after  *)
(* it, and for HTTP a verb or none.  Names are records [name, spelt] of    *)
(* what they are without case and how they are spelt.                      *)
(***************************************************************************)
EXTENDS Integers, Sequences, SequencesExt

\* A path segment: literal text, or a parameter in one of the styles.
Styles == {"literal", ":name", "${name}", "${expression}", "{name}"}

\* Parameters of routes only, none of client templates.
ParameterOfRoutes(segment) ==
    IF segment.style \in {":name", "{name}"} THEN [style |-> "{name}", name |-> segment.name] ELSE segment

Parameter(segment) ==
    CASE segment.style \in {":name", "${name}", "{name}"} -> [style |-> "{name}", name |-> segment.name]
      [] segment.style = "${expression}" -> [style |-> "{name}", name |-> "param"]
      [] OTHER -> segment

\* normalizeApiPath: origin and query go, parameters get one style, doubled
\* and trailing slashes go.
normalizeApiPath(path) ==
    [origin |-> FALSE, query |-> FALSE,
     segments |-> FlattenSeq([i \in DOMAIN path.segments |->
                    IF path.segments[i].style = "empty" THEN <<>> ELSE <<Parameter(path.segments[i])>>])]

\* joinApiPaths
joinApiPaths(base, route) ==
    CASE base = <<>> -> normalizeApiPath([origin |-> FALSE, query |-> FALSE, segments |-> route])
      [] base # <<>> /\ route = <<>> -> normalizeApiPath([origin |-> FALSE, query |-> FALSE, segments |-> base])
      [] OTHER -> normalizeApiPath([origin |-> FALSE, query |-> FALSE, segments |-> base \o route])

\* canonicalHttpContractKey: the upper-case verb, if any, and the path in lower
\* case.  (Case is not kept in segment names.)
canonicalHttpContractKey(method, path) == <<method, normalizeApiPath(path)>>

\* canonicalGrpcContractKey: package without case, service and method as spelt.
canonicalGrpcContractKey(name) ==
    <<name.package.name, name.service.spelt, name.method.spelt>>

\* canonicalDubboContractKey: interface without case, method as spelt.
canonicalDubboContractKey(name) == <<name.interface.name, name.method.spelt>>

\* canonicalGraphqlContractKey: the root type without case; a bare field is of
\* the queries.
canonicalGraphqlContractKey(name) == <<name.root.name, name.field.spelt>>

\* canonicalEventContractKey
canonicalEventContractKey(topic) == <<topic.name>>
-----------------------------------------------------------------------------
(* Targets. *)

SEMANTIC_KINDS ==
    {"http", "api", "event", "schema", "dto", "grpc", "dubbo", "graphql", "package", "config"}

\* The kind, explicit or inferred from a verb that a space follows.  An alias
\* means the kind it stands for.
TargetKind(target) ==
    CASE target.kind \in {"http", "api"} -> "http"
      [] target.kind \in {"schema", "dto"} -> "schema"
      [] target.kind \in SEMANTIC_KINDS \ {"http", "api", "schema", "dto"} -> target.kind
      [] OTHER -> IF target.verb # "" /\ target.verbSeparator = " " THEN "http" ELSE ""

\* What stays of the text after the kind is cut off; a verb only means
\* something to HTTP.
HttpKey(target) == canonicalHttpContractKey(target.verb, target.rest)

\* splitDubboTarget, splitGraphqlTarget
DubboKey(target) == canonicalDubboContractKey(target.rest)
GraphqlKey(target) == canonicalGraphqlContractKey(target.rest)

\* normalizeSemanticTarget; a target without a kind stays as it is.
normalizeSemanticTarget(target) ==
    LET kind == TargetKind(target)
    IN  [kind |-> kind,
         key |-> CASE kind = "http" -> HttpKey(target)
                   [] kind = "event" -> canonicalEventContractKey(target.rest)
                   [] kind = "grpc" -> canonicalGrpcContractKey(target.rest)
                   [] kind = "dubbo" -> DubboKey(target)
                   [] kind = "graphql" -> GraphqlKey(target)
                   [] OTHER -> <<target.rest>>]

\* semanticTrace has its own copy of the same rules.
normalizeTraceTarget(target) == normalizeSemanticTarget(target)
=============================================================================

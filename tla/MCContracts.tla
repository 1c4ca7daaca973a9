------------------------------ MODULE MCContracts ------------------------------
(***************************************************************************)
(* The contract side of the program, as a sum of its parts: what is asked  *)
(* first decides which of them runs.  A rebuild of the relations and a     *)
(* search of the graph take steps, and so do the plugins that bring parsers *)
(* and extractors and the writers of the graph; the others answer at once. *)
(***************************************************************************)
EXTENDS Integers, Sequences, FiniteSets, TLC

CONSTANTS Rebuilds, Scopes

VARIABLES asked, current, nodes, rels, deps, jobs, dirty, reindexed, search, registry, shelf, store

Matching == INSTANCE ContractMatching

\* Specifications and roles of the worlds below.
Spec(id, repo, contract, kind, data) ==
    [id |-> id, contractId |-> contract, specKind |-> kind, repoId |-> repo, sourceSymbolId |-> "",
     canonicalKey |-> contract, confidence |-> 90, order |-> 1, data |-> data,
     fileId |-> repo, mentionsField |-> FALSE]
None == [key |-> "", text |-> ""]
User == [key |-> "user", text |-> "User"]
Http(id, repo, contract, method, path, request) ==
    Spec(id, repo, contract, "http-endpoint",
         [method |-> method, path |-> path, requestType |-> request, responseType |-> None])
Event(id, repo, contract, payload) == Spec(id, repo, contract, "event", [topic |-> "T", payloadType |-> payload])
Grpc(id, repo, contract, package) ==
    Spec(id, repo, contract, "grpc-method",
         [service |-> "Users", method |-> "Get", package |-> package, requestType |-> None, responseType |-> None])
Schema(id, repo) ==
    Spec(id, repo, "dto", "schema", [name |-> User, fields |-> {[name |-> "f", optional |-> TRUE]}])
In(spec, symbol, mentions) == [spec EXCEPT !.sourceSymbolId = symbol, !.mentionsField = mentions]
Role(repo, contract, role, evidence) ==
    [repoId |-> repo, contractId |-> contract, role |-> role, evidence |-> evidence, confidence |-> 90,
     byImport |-> FALSE]
-----------------------------------------------------------------------------
(* Three repositories: a's revisions call b's and c's, b's serve them.  b    *)
(* owns the schema that a's calls and a route of c's mention, c's in another *)
(* bucket than any of b's, or else has a route whose first segment is a      *)
(* template.                                                                 *)

Api(path, method) == [kind |-> "api", path |-> path, method |-> method]
Contracts ==
    [users7 |-> Api("/users/7", "GET"), usersid |-> Api("/users/{id}", "GET"),
     anyid |-> Api("/{tenant}/{id}", "GET"), anymethod |-> Api("/users/{id}", ""),
     grpc |-> Api("grpc", "Get"), grpcpkg |-> Api("grpcpkg", "Get"),
     orders |-> Api("/orders", "POST"), topic |-> [kind |-> "event", path |-> "", method |-> ""],
     dto |-> [kind |-> "schema", path |-> "", method |-> ""]]
Revisions ==
    [a |-> {[specs |-> {Http("a1", "a", "users7", "GET", <<"users", "7">>, User), Grpc("a3", "a", "grpc", "p")},
             roles |-> {Role("a", "users7", "consumer", "ea1"), Role("a", "grpc", "consumer", "ea3")}],
            [specs |-> {Http("a2", "a", "anymethod", "", <<"users", "{id}">>, None), Event("a4", "a", "topic", None)},
             roles |-> {Role("a", "anymethod", "consumer", "ea2"), Role("a", "topic", "consumer", "ea4")}]},
     b |-> {[specs |-> {Http("b1", "b", "usersid", "GET", <<"users", "{id}">>, None), Schema("b2", "b")},
             roles |-> {Role("b", "usersid", "producer", "eb1"), Role("b", "dto", "producer", "eb2")}],
            [specs |-> {Http("b3", "b", "anyid", "GET", <<"{tenant}", "{id}">>, None), Event("b4", "b", "topic", User)},
             roles |-> {Role("b", "anyid", "producer", "eb3"), Role("b", "topic", "producer", "eb4")}]},
     c |-> {[specs |-> {Grpc("c1", "c", "grpcpkg", "q"), Http("c2", "c", "orders", "POST", <<"orders">>, User)},
             roles |-> {Role("c", "grpcpkg", "producer", "ec1"), Role("c", "orders", "producer", "ec2")}]}]

Rebuild == INSTANCE RelationRebuild WITH Repos <- {"a", "b", "c"}, MaxReindexed <- 1
ASSUME Rebuild!ScopesAssumption /\ Rebuild!RevisionsAssumption

FullAndScoped == {{}, {"a"}, {"b"}}
RebuildSymmetry == Permutations(Rebuilds)
-----------------------------------------------------------------------------
(* A graph to search: b's POST /users(User) is called by a, and its handler *)
(* calls c's GET /orders, whose handler calls POST /users again, and        *)
(* publishes T, whose consumer is c.  c's call of POST /users is a call of  *)
(* a's POST /{id} as well, so it is reached in both ways.  In one of two    *)
(* graphs c's GET /orders was hidden after its relations had been read.     *)

SearchedSpecs ==
    {In(Http("a1", "a", "users", "POST", <<"users">>, User), "sa", TRUE),
     In(Http("b1", "b", "users", "POST", <<"users">>, User), "h", FALSE),
     In(Http("b2", "b", "orders", "GET", <<"orders">>, None), "h", FALSE),
     In(Event("b3", "b", "topic", User), "h", FALSE), In(Schema("b4", "b"), "x", TRUE),
     In(Http("c1", "c", "orders", "GET", <<"orders">>, None), "hc", FALSE),
     In(Http("c3", "c", "pay", "GET", <<"pay">>, None), "hc", FALSE),
     In(Http("a2", "a", "pay", "GET", <<"pay">>, None), "sp", FALSE),
     In(Http("c4", "c", "users", "POST", <<"users">>, User), "hc", FALSE),
     In(Http("a3", "a", "any", "POST", <<"{id}">>, None), "sp", FALSE),
     In(Event("c2", "c", "topic", User), "hc2", TRUE)}
SearchedRoles ==
    {Role("a", "users", "consumer", ""), Role("b", "users", "producer", ""), Role("b", "orders", "consumer", ""),
     Role("b", "topic", "producer", ""), Role("b", "dto", "producer", ""), Role("c", "orders", "producer", ""),
     Role("c", "topic", "consumer", ""), Role("c", "pay", "consumer", ""), Role("c", "users", "consumer", ""),
     Role("a", "pay", "producer", ""), Role("a", "any", "producer", "")}

Impact == INSTANCE ImpactSearch WITH
    Graphs <- {[specs |-> specs, relations |-> Matching!resolveSemanticRelations(SearchedSpecs, SearchedRoles, {})] :
                  specs \in {SearchedSpecs, {s \in SearchedSpecs : s.id # "c1"}}},
    Targets <- {[kind |-> "http", key |-> "users"], [kind |-> "http", key |-> "orders"],
                [kind |-> "event", key |-> "topic"], [kind |-> "schema", key |-> "User"]},
    Changes <- {[changeType |-> "endpoint-removed", detail |-> ""], [changeType |-> "topic-removed", detail |-> ""],
                [changeType |-> "field-removed", detail |-> "f"], [changeType |-> "field-added", detail |-> "f"]},
    HopBounds <- 1..5
ASSUME Impact!GraphsAssumption /\ Impact!HopBoundsAssumption
-----------------------------------------------------------------------------
(* What is answered at once. *)

Fields == INSTANCE FieldSearch
Keys == INSTANCE ContractKeys
Types == INSTANCE PrimitiveTypes
References == INSTANCE ReferenceResolution
Queries == INSTANCE GraphQueries
Extracts == INSTANCE Extraction
Scores == INSTANCE Evaluation

Upto(n, S) == UNION {[1..k -> S] : k \in 0..n}

\* Texts of up to four tokens.
FieldQuestions ==
    [about : {"fields"}, js : BOOLEAN,
     text : Upto(4, {"//", "/*", "*/", "#", "dquote", "squote", "escape", "NL", "dot", "bracket"})]

TypeQuestions ==
    {[about |-> "type", language |-> x[1], type |-> x[2]] :
        x \in UNION {{l} \X Types!RawTypes(l, {"string", "int", "Foo"}, 3) : l \in DOMAIN Types!Forms}}

\* Routes of one or two segments, as spelt in different frameworks.
Segments == [style : Keys!Styles, name : {"users", "param"}] \union {[style |-> "empty", name |-> ""]}
KeyQuestions ==
    [about : {"keys"}, verb : {"", "GET"}, origin : BOOLEAN, one : Upto(2, Segments), other : Upto(2, Segments)]

\* A caller that imports a file which is a barrel or has the symbols itself.
Symbol(file, name, order) ==
    [id |-> <<file, name>>, file |-> file, repo |-> "r", name |-> name, kind |-> "function", owner |-> "",
     class |-> <<"", "">>, arity |-> 0, order |-> order]
Ref(base, exported, local, imported) ==
    [relative |-> TRUE, base |-> base, ext |-> "", package |-> "", last |-> "", exported |-> exported,
     bindings |-> {[local |-> local, imported |-> imported, kind |-> "named"]}]
SourceFile(id, order, imports, names, calls) ==
    [id |-> id, repo |-> "r", base |-> id, ext |-> ".ts", language |-> "javascript", package |-> "", last |-> id,
     order |-> order, imports |-> imports, calls |-> calls, variables |-> {},
     symbols |-> {Symbol(id, n, IF n = "g" THEN 1 ELSE 2) : n \in names}]
Call == [caller |-> <<"main", "run">>, callee |-> "g", receiver |-> "", args |-> 0, constructs |-> FALSE,
         declares |-> ""]
Exports(file) == {b.local : b \in UNION {r.bindings : r \in file.imports}}
CallQuestions ==
    {q \in {[about |-> "calls",
      files |-> {SourceFile("main", 1, {Ref("lib", FALSE, "g", imported)}, {"run"}, {Call}),
                 SourceFile("lib", 2, exports, inLib, {}),
                 SourceFile("impl", order, {}, inImpl, {}),
                 SourceFile("far", 4, {}, inFar, {})}] :
        imported \in {"g", "h"}, inLib \in SUBSET {"g", "h"}, inImpl \in SUBSET {"g", "h"},
        inFar \in SUBSET {"g", "h"}, order \in {0, 3},
        exports \in {{}, {Ref("impl", TRUE, "*", "*")}, {Ref("impl", TRUE, "g", "g")},
                     {Ref("impl", TRUE, "g", "h")}, {Ref("impl", TRUE, "h", "h")}}} :
        \* no file exports one name twice
        \A f \in q.files : f.id = "lib" => ~\E s \in f.symbols : s.name \in Exports(f)}

\* Roles of three repositories for one contract, with and without a method.  The
\* names sort the same with and without regard to locale, or the first one has a
\* capital letter ("Shop" < "api" < "web", but api, Shop, web for localeCompare).
TraceGraph(roles, collation) ==
    [collation |-> collation, contracts |-> {[id |-> 1, kind |-> "api", path |-> "p", method |-> ""],
                    [id |-> 2, kind |-> "api", path |-> "p", method |-> "GET"]},
     evidence |-> {[id |-> e, active |-> e # 4, path |-> 5 - e, line |-> 1] : e \in 1..4},
     roles |-> {[repo |-> x[1], role |-> x[2], contract |-> x[3], evidence |-> x[1] + x[3] - 1, active |-> TRUE] :
                  x \in roles}]
TraceQuestions ==
    {[about |-> "trace", graph |-> TraceGraph(roles, collation), method |-> m, limit |-> n] :
        roles \in SUBSET ((1..3) \X {"producer", "consumer"} \X {1, 2}), m \in {"", "GET"}, n \in 1..3,
        collation \in {<<1, 2, 3>>, <<2, 1, 3>>}}

\* Extractors of five kinds, and files of the languages that detectors know.
Extractor(name, languages, frameworks, reads, needsJava, needsDubboXml) ==
    [name |-> name, languages |-> languages, frameworks |-> frameworks, reads |-> reads, post |-> name = "spring",
     sees |-> TRUE, needsJava |-> needsJava, needsDubboXml |-> needsDubboXml]
Extractors ==
    <<Extractor("http", {"javascript"}, {"js:axios", "js:generic-fetch"}, {"call"}, FALSE, FALSE),
      Extractor("schema", {"javascript", "typescript", "tsx"}, {}, {"schema"}, FALSE, FALSE),
      Extractor("env", {}, {}, {"env"}, FALSE, FALSE),
      Extractor("spring", {"java"}, {"java:spring-mvc"}, {"spring"}, TRUE, FALSE),
      Extractor("dubbo", {"xml"}, {"java:dubbo-xml"}, {"dubbo"}, FALSE, TRUE)>>
Parsed(id, repo, language, marks) == [id |-> id, repo |-> repo, language |-> language, marks |-> marks]
ExtractFiles ==
    {Parsed(1, 1, "java", {"spring", "env"}), Parsed(2, 1, "java", {"env"}),
     Parsed(3, 1, "typescript", {"call", "schema"}), Parsed(4, 2, "typescript", {"call"}),
     Parsed(5, 1, "xml", {"dubbo"}), Parsed(6, 2, "java", {"spring"}), Parsed(7, 1, "tsx", {"call", "schema"})}
ExtractQuestions ==
    {[about |-> "extract", files |-> files,
      repos |-> {[id |-> 1, markers |-> markers], [id |-> 2, markers |-> {}]},
      config |-> [include |-> include, exclude |-> exclude]] :
        files \in {f \in SUBSET ExtractFiles : Cardinality(f) <= 4},
        markers \in {{}, {"pom.xml", "pom spring"}, {"package.json", "axios"}},
        include \in {{}, {"spring"}}, exclude \in {{}, {"java:spring-mvc"}, {"http"}}}

Questions == UNION {FieldQuestions, TypeQuestions, KeyQuestions, CallQuestions, TraceQuestions, ExtractQuestions}
-----------------------------------------------------------------------------
(* Plugins: two owners of bootstraps in one process; two processes that     *)
(* install a plugin.                                                        *)

Plugin(name, languages, extractors) == [name |-> name, languages |-> languages, extractors |-> extractors]

Registries == INSTANCE PluginRegistry WITH
    Owners <- 1..2,
    Plugins <- [csharp |-> Plugin("csharp", {"csharp", "java"}, {"aspnet"}), frames |-> Plugin("frames", {"tsx"}, {}),
                vue |-> Plugin("vue", {"csharp"}, {"java-source"}), routes |-> Plugin("routes", {}, {"common"})],
    Installed <- <<{<<"csharp">>, <<"vue", "csharp", "routes">>}, {<<>>, <<"frames", "csharp">>}>>,
    Contents <- <<{{"csharp", "vue"}, {"java", "csharp"}, {"pom.xml"}}, {{"tsx"}, {"vue", "tsx"}, {"java", "dubbo"}}>>,
    FailFast <- {2},
    MaxBootstraps <- 4

Installs == INSTANCE PluginManagement WITH Processes <- 1..2, MaxInstalls <- 3
-----------------------------------------------------------------------------
(* Two repositories are written: a calls b, and has a document.             *)

Writers == INSTANCE GraphFacts WITH
    RepoOf <- [a1 |-> "a", a2 |-> "a", ad |-> "a", b1 |-> "b"], Documents <- {"ad"}, Consumers <- {"a1"},
    Contents <- [a |-> {{"a1", "a2", "ad"}, {"a1"}, {}}, b |-> {{"b1"}, {}}],
    FailsAt <- {2, 5}, MaxWrites <- 3
-----------------------------------------------------------------------------
rebuilding == <<current, nodes, rels, deps, jobs, dirty, reindexed>>
plugins == <<registry, shelf>>
Parts == {"rebuild", "impact", "bootstraps", "installs", "writes"}
vars == <<asked, rebuilding, search, plugins, store>>

Nothing == [about |-> "nothing"]

Init ==
    /\ asked \in {Nothing} \union {[about |-> part] : part \in Parts}
    /\ Rebuild!Init
    /\ asked.about # "rebuild" => current = [r \in DOMAIN Revisions |-> CHOOSE v \in Revisions[r] : TRUE]
    /\ Impact!Init /\ Registries!Init /\ Installs!Init /\ Writers!Init

Ask == /\ asked = Nothing /\ asked' \in Questions
       /\ UNCHANGED <<rebuilding, search, plugins, store>>
Answer == /\ asked.about \notin {"nothing"} \union Parts
          /\ asked' = Nothing
          /\ UNCHANGED <<rebuilding, search, plugins, store>>

Next ==
    \/ asked.about = "rebuild" /\ Rebuild!Next /\ UNCHANGED <<asked, search, plugins, store>>
    \/ asked.about = "impact" /\ Impact!Next /\ UNCHANGED <<asked, rebuilding, plugins, store>>
    \/ asked.about = "bootstraps" /\ Registries!Next /\ UNCHANGED <<asked, rebuilding, search, shelf, store>>
    \/ asked.about = "installs" /\ Installs!Next /\ UNCHANGED <<asked, rebuilding, search, registry, store>>
    \/ asked.about = "writes" /\ Writers!Next /\ UNCHANGED <<asked, rebuilding, search, plugins>>
    \/ Ask
    \/ Answer

WholeSpec == Init /\ [][Next]_vars
-----------------------------------------------------------------------------
(* Properties. *)

\* See RelationRebuild: what a scoped rebuild leaves out of the candidates
\* (rebuildRelations.ts:156-160) would not have related to its repositories,
\* but for distant specifications that only mention one of their schemas.
NarrowingLosesNothing == Rebuild!NarrowingLosesNothing

\* See RelationRebuild: the promise of rebuildRelations.ts:153.
CrossRepoVisibility == Rebuild!CrossRepoVisibility

\* Once every write was followed by an undisturbed rebuild, the evaluation of
\* the stored dependencies (evaluation/precisionRecall.ts:73-141) finds none
\* missing that follows from a stored relation, and none whose contracts are
\* gone.  Kinds of which a scoped rebuild loads no candidates are left out of
\* the first half: of two rebuilds at once it may be the last to write.
DependenciesAreExact ==
    Rebuild!Quiet =>
        /\ Scores!compareDependencySets(Rebuild!SemanticDependencies(
               {e \in rels : e.kind \in Rebuild!ScopedKinds}, Rebuild!Specs(current)), deps)
               .aggregate.falsePositive = {}
        /\ \A d \in deps : /\ Rebuild!HasContract(d.from, d.source)
                          /\ Rebuild!HasContract(d.to, d.target)

\* See ImpactSearch: what a search has found that does not say it was cut short
\* (semanticImpact.ts:79-161).
UntruncatedIsComplete == Impact!UntruncatedIsComplete

\* A field's type means in the common notation what its writer meant, whatever
\* wraps what, but for the forms known to be misread (spec.ts, normalizePrimitiveType).
TypesKeepTheirMeaning ==
    asked.about = "type" /\ ~Types!Misread(asked.type) =>
        Types!normalizePrimitiveType(asked.language, asked.type) = Types!Meaning(asked.language, asked.type)

Route(path) ==
    [segments |-> SelectSeq([i \in DOMAIN path |->
        [parameter |-> path[i].style \notin {"literal", "empty"},
         name |-> IF path[i].style = "${expression}" THEN "param" ELSE path[i].name,
         empty |-> path[i].style = "empty"]], LAMBDA s : ~s.empty)]

\* Two spellings of a route have one key exactly when they are the same route,
\* and a user's target finds the stored one (apiPath.ts, targetNormalization.ts).
SpellingsMeet ==
    asked.about = "keys" =>
        LET path(segments) == [origin |-> asked.origin, query |-> ~asked.origin, segments |-> segments]
            stored == Keys!canonicalHttpContractKey(asked.verb, path(asked.one))
            target == [kind |-> "http", verb |-> asked.verb, verbSeparator |-> " ", rest |-> path(asked.other)]
        IN  /\ (Keys!normalizeSemanticTarget(target).key = stored) <=> (Route(asked.one) = Route(asked.other))
            /\ Keys!canonicalHttpContractKey(asked.verb, stored[2]) = stored

\* What is written in several ways has one normal form, and it is faithful:
\* the types of fields and the routes, stored and asked for.
NormalFormsAreFaithful == TypesKeepTheirMeaning /\ SpellingsMeet

\* What is found in a file is what its code says: the mentions of a field that
\* are code, found by erasing comments and strings character by character
\* (impact/fieldSearch.ts:13-158), and the symbols that calls mean, which follow
\* imports, through barrels too (resolveReferences.ts:64-193, 606-663).
ReferencesAreReal ==
    /\ asked.about = "fields" =>
           Fields!findFieldReferences(asked.text, asked.js) = Fields!Mentions(asked.text, asked.js)
    /\ asked.about = "calls" => References!ImportsAreFollowed(asked.files)

\* See ImpactSearch: no trace of the semantic graph misses an active
\* specification without saying so (semanticTrace.ts:244-375); and GraphQueries:
\* a trace of a contract that is not the whole one has as many rows as were asked
\* for, and what its limits cut off are the last repositories of the order in
\* which each of them is applied, which is one order only where the database and
\* localeCompare agree on the names (queries.ts:468-535).
TracesSayWhatTheyCut ==
    /\ Impact!UntruncatedTraceIsComplete
    /\ asked.about = "trace" => Queries!CutsLastRepositories(asked.graph, "api", "p", asked.method, asked.limit)


\* See PluginRegistry: bootstraps, overlapping or not, leave what they promise;
\* and PluginManagement: installs lose no plugin and hide none.
PluginsComeAndGo == Registries!PluginsComeAndGo /\ Installs!PluginsStayInstalled

\* See GraphFacts: whichever writers write whichever batches one after another,
\* every fact arrives once and active, no statement fails by what the graph
\* holds, what is active stands on what is active, and no run takes rows of
\* others (Neo4jBatchWriter.ts, bulkWriter.ts, cypherCrud.ts).
WritersKeepTheGraph == [][Writers!FactsArrive' /\ Writers!OnlyOwnRowsGo]_store
=============================================================================

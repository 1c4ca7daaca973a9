----------------------------- MODULE AskRetrieval -----------------------------
(***************************************************************************)
(* features/ask/retrieve and its retrievers: one question after another,   *)
(* the routes one after another, each waiting for its provider.            *)
(*                                                                         *)
(* A provider may fail in any of its calls: a failure is the number of the *)
(* call that fails, 0 for none.  Every route turns it into a status, and   *)
(* the retrieval goes on with what the others found.  Between the search   *)
(* and the loading of the documents an index run may have changed them.    *)
(***************************************************************************)
EXTENDS Integers, Sequences, FiniteSets

CONSTANTS
    Plans,      \* what planQuestion and the caller's options make of a question:
                \* [kind, strict, enabled, topK, graphHops, fitting, exactPaths,
                \*  canonicalIds, code, sections, contracts, entities, hits, semantic];
                \* enabled: the routes that are and have targets, the rows: what
                \* each provider has for them
    Budgets,    \* the limits of the routes
    MaxPerKind, \* DEFAULT_MAX_PER_KIND
    Code, Calls, Implementations, DocumentedIn, Documents, \* the database
    Changed     \* what the documents may have become when they are loaded

VARIABLE ask

Candidates == INSTANCE RetrievalCandidates
LOCAL INSTANCE SequencesExt
LOCAL INSTANCE FiniteSetsExt
-----------------------------------------------------------------------------
(* Results of routes. *)

emptyRouteResult(status) == [status |-> status, candidates |-> {}]
successfulRouteResult(candidates) == [status |-> "succeeded", candidates |-> candidates]
failedRouteResult == emptyRouteResult("failed")

AtMost(rows, limit) == SubSeq(rows, 1, Min({limit, Len(rows)}))
ById(left, right) == Candidates!stableCandidateKey(left) < Candidates!stableCandidateKey(right)
uniqueRows(rows, limit) == AtMost(SetToSortSeq(Range(rows), ById), limit)
OfKind(rows, kind) == SelectSeq(rows, LAMBDA r : r.kind = kind)
-----------------------------------------------------------------------------
(* The routes. *)

\* Code first, then the sections at the paths if there is room.  The second
\* query's failure takes the rows of the first with it.
exactRoute(plan, failing) ==
    LET code == AtMost(plan.code, Budgets["exact"])
        sections == IF plan.exactPaths = {} THEN <<>> ELSE AtMost(plan.sections, Budgets["exact"] - Len(code))
        queries == IF plan.exactPaths # {} /\ Len(code) < Budgets["exact"] THEN 2 ELSE 1
        rows == uniqueRows(code \o sections, Budgets["exact"])
    IN  CASE "exact" \notin plan.enabled -> emptyRouteResult("disabled")
          [] "exact" \in plan.enabled /\ failing \in 1..queries -> failedRouteResult
          [] OTHER -> successfulRouteResult(Candidates!candidatesFromCodeRows(OfKind(rows, "code"))
                          \union Candidates!candidatesFromSectionRows(OfKind(rows, "section")))

\* One query for each target while there is room; a failure ends the route.
contractRoute(plan, failing) ==
    LET Before(n) == FlattenSeq(SubSeq(plan.contracts, 1, n))
        queries == Cardinality({n \in DOMAIN plan.contracts : Len(Before(n - 1)) < Budgets["contract"]})
    IN  CASE "contract" \notin plan.enabled \/ plan.contracts = <<>> -> emptyRouteResult("disabled")
          [] "contract" \in plan.enabled /\ failing \in 1..queries -> failedRouteResult
          [] OTHER -> successfulRouteResult(Candidates!candidatesFromContractRows(
                          uniqueRows(AtMost(Before(Len(plan.contracts)), Budgets["contract"]), Budgets["contract"])))

entityRoute(plan, failing) ==
    CASE "entity" \notin plan.enabled \/ plan.entities = <<>> -> emptyRouteResult("disabled")
      [] "entity" \in plan.enabled /\ failing = 1 -> failedRouteResult
      [] OTHER -> successfulRouteResult(Candidates!candidatesFromEntityRows(uniqueRows(plan.entities, Budgets["entity"])))

\* A hit at a path, or of an id, the question names counts as more.
verifiedLexicalCandidates(candidates, exactPaths, canonicalIds) ==
    {LET located == c.provenance # <<>> /\ c.provenance[1].path \in exactPaths
         named == c.id \in canonicalIds
         confidence == IF located /\ c.kind = "file" THEN "exact" ELSE "corroborated"
     IN  IF \/ located /\ c.kind \in {"file", "code", "contract"}
            \/ named /\ c.kind \in {"code", "contract"}
         THEN Candidates!createRetrievalCandidate(c, {[route |-> r, rank |-> c.routes[r]] : r \in DOMAIN c.routes},
                 {[p EXCEPT !.confidence = confidence] : p \in Range(c.provenance)},
                 c.reasons \union {IF located THEN "exact-path" ELSE "canonical-id"}, confidence)
         ELSE c : c \in candidates}

\* health: what the gate or the store says; "error" when asking fails.
\* retrieveWorkspaceLexical and the branch of retrieveForQuestion above it.
lexicalRoute(plan, health, failing) ==
    CASE "lexical" \notin plan.enabled -> emptyRouteResult("disabled")
      [] "lexical" \in plan.enabled /\ health = "error" -> failedRouteResult
      [] "lexical" \in plan.enabled /\ health \in {"unavailable", "unhealthy"} -> emptyRouteResult(health)
      [] "lexical" \in plan.enabled /\ health = "healthy" /\ failing = 1 -> failedRouteResult
      [] OTHER -> successfulRouteResult(verifiedLexicalCandidates(
                      Candidates!candidatesFromLexicalHits(AtMost(plan.hits, plan.topK)), plan.exactPaths,
                      plan.canonicalIds))
-----------------------------------------------------------------------------
(* The graph around what was found. *)

\* What more than a search speaks for, or the search as an exact match.
strongLexicalSeed(c) ==
    /\ "lexical" \in DOMAIN c.routes /\ c.kind \in {"code", "contract"}
    /\ c.reasons \intersect {"exact-identifier", "exact-path", "exact-contract", "canonical-id"} # {}
eligible(c) == c.confidence # "discovery" \/ strongLexicalSeed(c)

compareSeedStrength(left, right) ==
    LET RouteStrength(c) == Min({Candidates!Place(Candidates!RetrievalRoute, r) : r \in DOMAIN c.routes})
        Weight(c) == <<Candidates!Place(Candidates!CandidateConfidence, c.confidence), RouteStrength(c),
                       c.routes[Candidates!RetrievalRoute[RouteStrength(c)]], Candidates!stableCandidateKey(c)>>
    IN  Candidates!Precedes(Weight(left), Weight(right))

\* The strongest candidate of every key, the strongest keys first.
Seeds(candidates) ==
    LET ordered == SetToSortSeq({c \in candidates : eligible(c)}, compareSeedStrength)
        First(i) == \A j \in 1..(i - 1) : Candidates!stableCandidateKey(ordered[j])
                                          # Candidates!stableCandidateKey(ordered[i])
    IN  {ordered[i] : i \in {j \in DOMAIN ordered : First(j)
            /\ Cardinality({k \in 1..j : First(k)}) <= Budgets["graph"]}}

EdgeOrder(left, right) == Candidates!Precedes(<<left.from, left.to>>, <<right.from, right.to>>)
callEdgesAround(ids, limit) ==
    AtMost(SetToSortSeq({e \in Calls : {e.from, e.to} \intersect ids # {}}, EdgeOrder), limit)

\* One hop from the frontier.  The provider is asked for as many more edges
\* as are known, so that these cannot use up what remains.
Hop(state, room) ==
    LET seeds == state.frontier \ state.visited
        remaining == room - Len(state.edges)
        additions == AtMost(SelectSeq(callEdgesAround(seeds, remaining + Len(state.edges)),
                                      LAMBDA e : e \notin Range(state.edges)), remaining)
        visited == state.visited \union seeds
    IN  IF seeds = {} \/ remaining <= 0 THEN state
        ELSE [edges |-> state.edges \o additions, visited |-> visited, queries |-> state.queries + 1,
              frontier |-> UNION {{e.from, e.to} : e \in Range(additions)} \ visited]

\* One candidate of each key; on a tie of ranks the key decides what remains.
mergeGraphCandidates(candidates, limit) ==
    LET merged == Candidates!reciprocalRankFusion(candidates)
        order == SetToSortSeq(merged, LAMBDA c, d : Candidates!Precedes(
                    <<c.routes["graph"], Candidates!stableCandidateKey(c)>>,
                    <<d.routes["graph"], Candidates!stableCandidateKey(d)>>))
    IN  Range(AtMost(order, limit))

\* retrieveBoundedGraph: what implements the contracts, the calls around, and
\* the sections that document them, sharing one limit.
graphRoute(plan, candidates, failing) ==
    LET limit == Budgets["graph"]
        seeds == Seeds(candidates)
        contracts == {c.id : c \in {s \in seeds : s.kind = "contract"}}
        implementations ==
            uniqueRows(SetToSeq({Code[id] : id \in UNION {Implementations[c] : c \in contracts}}), limit)
        initial == {c.id : c \in {s \in seeds : s.kind = "code"}} \union {r.id : r \in Range(implementations)}
        first == [edges |-> <<>>, visited |-> {}, frontier |-> initial, queries |-> IF contracts = {} THEN 0 ELSE 1]
        found == FoldLeft(LAMBDA state, hop : Hop(state, limit - Len(implementations)), first,
                          [hop \in 1..plan.graphHops |-> hop])
        room == limit - Len(implementations) - Len(found.edges)
        discovered == initial \union UNION {{e.from, e.to} : e \in Range(found.edges)}
        sections == uniqueRows(SetToSeq(UNION {DocumentedIn[id] : id \in discovered}), room)
        queries == found.queries + (IF discovered # {} /\ room > 0 THEN 1 ELSE 0)
    IN  CASE plan.graphHops = 0 \/ "graph" \notin plan.enabled \/ seeds = {} \/ found.queries = 0 ->
                emptyRouteResult("disabled")
          [] plan.graphHops > 0 /\ "graph" \in plan.enabled /\ found.queries > 0 /\ failing \in 1..queries ->
                failedRouteResult
          [] OTHER -> successfulRouteResult(mergeGraphCandidates(
                Candidates!candidatesFromGraphCodeRows(implementations)
                \union Candidates!candidatesFromGraphEdges(found.edges, Code)
                \union {Candidates!CandidateOfRow("graph", i, sections[i], {"exact-section"}, "corroborated") :
                            i \in DOMAIN sections}, limit))

\* "fallback": the primary provider failed and another one answered; "unreadable":
\* the answer is due to the JSON file, and could not be read, which its reader takes
\* for an empty one (semanticIndex.ts:117-123).
semanticRoute(plan, provider) ==
    LET found == Candidates!candidatesFromSemanticResults(AtMost(plan.semantic, Budgets["semantic"]))
    IN  CASE "semantic" \notin plan.enabled \/ provider = "off" -> emptyRouteResult("disabled")
          [] "semantic" \in plan.enabled /\ provider = "unavailable" -> emptyRouteResult("unavailable")
          [] "semantic" \in plan.enabled /\ provider = "failing" -> failedRouteResult
          [] "semantic" \in plan.enabled /\ provider = "fallback" -> [status |-> "unhealthy", candidates |-> found]
          [] "semantic" \in plan.enabled /\ provider = "unreadable" -> successfulRouteResult({})
          [] OTHER -> successfulRouteResult(found)
-----------------------------------------------------------------------------
(* The retrieval. *)

Idle == [stage |-> "idle"]
Init == ask = Idle

\* What the graph starts from: for a question about routes of an API only, its
\* contract must have been found.
resolvedApiTarget(plan, routes) == plan.strict => routes["contract"].candidates # {}
Found(routes, names) == UNION {routes[r].candidates : r \in names}
graphSeeds(plan, routes) ==
    IF ~resolvedApiTarget(plan, routes) THEN {}
    ELSE Found(routes, IF plan.strict THEN {"exact", "contract"} ELSE {"exact", "contract", "entity", "lexical"})
candidatesForFusion(plan, routes) ==
    IF ~resolvedApiTarget(plan, routes) THEN {}
    ELSE Found(routes, IF plan.strict THEN {"exact", "contract", "graph"} ELSE DOMAIN routes)

Selected(plan, routes) ==
    Candidates!selectCandidates(Candidates!reciprocalRankFusion(candidatesForFusion(plan, routes)),
                                plan.topK, MaxPerKind, plan.fitting)

\* As if only what failed could have had more to say.
determineOutcomeOfFailures(evidence, statuses) ==
    CASE evidence # <<>> -> IF "failed" \in statuses THEN "degraded" ELSE "succeeded"
      [] evidence = <<>> /\ "failed" \in statuses -> "failed"
      [] OTHER -> "no_results"

\* A problem anywhere shows, whatever was found.
determineRetrievalOutcome(evidence, statuses) ==
    LET problem == statuses \intersect {"failed", "unavailable", "unhealthy"} # {}
    IN  CASE evidence # <<>> -> IF problem THEN "degraded" ELSE "succeeded"
          [] evidence = <<>> /\ problem -> "failed"
          [] OTHER -> "no_results"

Ask(plan) ==
    /\ ask.stage \in {"idle", "answered"}
    /\ ask' = [stage |-> "exact", plan |-> plan, routes |-> <<>>, selected |-> <<>>,
               loading |-> <<>>, outcome |-> ""]

\* The answer of the provider of one stage; the next stage follows.
Step(stage, next, result) ==
    /\ ask.stage = stage
    /\ ask' = [ask EXCEPT !.stage = next,
                          !.routes = [r \in DOMAIN @ \union {stage} |-> IF r = stage THEN result ELSE @[r]]]

RetrieveExact(failing) == Step("exact", "contract", exactRoute(ask.plan, failing))
RetrieveContract(failing) == Step("contract", "entity", contractRoute(ask.plan, failing))
RetrieveEntity(failing) == Step("entity", "lexical", entityRoute(ask.plan, failing))
RetrieveLexical(health, failing) == Step("lexical", "graph", lexicalRoute(ask.plan, health, failing))
RetrieveGraph(failing) ==
    Step("graph", "semantic", graphRoute(ask.plan, graphSeeds(ask.plan, ask.routes), failing))
RetrieveSemantic(provider) == Step("semantic", "select", semanticRoute(ask.plan, provider))

Select ==
    /\ ask.stage = "select"
    /\ ask' = [ask EXCEPT !.stage = "load", !.selected = Selected(ask.plan, ask.routes)]

Load(store, provider) ==
    /\ ask.stage = "load"
    /\ ask' = [ask EXCEPT !.stage = "dependencies",
                          !.loading = Candidates!loadSelectedEvidence(ask.selected, ask.plan.topK, store, provider)]

\* The repository dependencies are read for some kinds of questions; then the
\* outcome is determined from everything.
Answer(failing) ==
    LET dependencies == CASE ask.plan.kind \notin {"workflow", "dependency", "impact"} -> "disabled"
                          [] ask.plan.kind \in {"workflow", "dependency", "impact"} /\ failing = 1 -> "failed"
                          [] OTHER -> "succeeded"
    IN  /\ ask.stage = "dependencies"
        /\ ask' = [ask EXCEPT !.stage = "answered",
                !.outcome = determineRetrievalOutcome(ask.loading.evidence,
                    {ask.routes[r].status : r \in DOMAIN ask.routes} \union {dependencies, ask.loading.status}
                    \union (IF ask.loading.rejected THEN {"failed"} ELSE {}))]

Next ==
    \/ \E plan \in Plans : Ask(plan)
    \/ \E failing \in 0..2 : RetrieveExact(failing) \/ RetrieveContract(failing)
    \/ \E failing \in 0..1 : RetrieveEntity(failing) \/ Answer(failing)
    \/ \E health \in {"healthy", "unhealthy", "unavailable", "error"}, failing \in 0..1 :
            RetrieveLexical(health, failing)
    \/ \E failing \in 0..3 : RetrieveGraph(failing)
    \/ \E provider \in {"on", "off", "unavailable", "failing", "fallback", "unreadable"} :
            RetrieveSemantic(provider)
    \/ Select
    \/ \E store \in Changed, provider \in {"ready", "unavailable", "failing"} : Load(store, provider)
-----------------------------------------------------------------------------
(* Properties. *)

\* The evidence for a plan when nothing fails and nothing changes.
UndisturbedRoutes(plan, semantic) ==
    LET first == [exact |-> exactRoute(plan, 0), contract |-> contractRoute(plan, 0),
                  entity |-> entityRoute(plan, 0), lexical |-> lexicalRoute(plan, "healthy", 0)]
    IN  [exact |-> first.exact, contract |-> first.contract, entity |-> first.entity,
         lexical |-> first.lexical, graph |-> graphRoute(plan, graphSeeds(plan, first), 0),
         semantic |-> semanticRoute(plan, semantic)]
Undisturbed(plan, semantic) ==
    Candidates!loadSelectedEvidence(Selected(plan, UndisturbedRoutes(plan, semantic)), plan.topK,
                                    Documents, "ready").evidence

Cited(evidence) == {evidence[i].doc : i \in DOMAIN evidence}

\* An answer that is reported as complete is complete: whichever calls failed,
\* and whatever an index run did to the documents in between, an outcome of
\* "succeeded" or "no_results" (diagnostics.ts:120-138) means that the evidence
\* is the one an undisturbed retrieval of the same question would have found, but
\* for what the semantic index has when it finds nothing: then its file may be one
\* that cannot be read, which nothing tells from an empty one.
SilenceIsComplete ==
    ask.stage = "answered" /\ ask.outcome \in {"succeeded", "no_results"} =>
        LET route == ask.routes["semantic"]
            semantic == CASE route.status = "disabled" -> "off"
                          [] route.status # "disabled" /\ route.candidates = {} -> "unreadable"
                          [] OTHER -> "on"
        IN  Cited(ask.loading.evidence) = Cited(Undisturbed(ask.plan, semantic))

\* A reader gets to hear of every repository: what is selected has a candidate
\* of each repository that has a reliable one, as long as no quota is used up
\* and as many candidates fit as there are repositories (selection.ts:187-192).
EveryRepoIsHeard ==
    ask.stage = "load" =>
        LET reliable == Candidates!Selectable(Candidates!reciprocalRankFusion(
                            candidatesForFusion(ask.plan, ask.routes)))
            Count(kind) == Cardinality({i \in DOMAIN ask.selected : ask.selected[i].kind = kind})
        IN  /\ Cardinality({c.repo : c \in reliable}) <= Min({ask.plan.topK, ask.plan.fitting})
            /\ \A c \in reliable : Count(c.kind) < MaxPerKind
            => \A c \in reliable : \E i \in DOMAIN ask.selected : ask.selected[i].repo = c.repo
=============================================================================

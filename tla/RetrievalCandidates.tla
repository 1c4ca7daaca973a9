------------------------- MODULE RetrievalCandidates --------------------------
(***************************************************************************)
(* features/ask: candidates, fusion, selection and sourceLoader.  What the *)
(* routes found for a question is merged by identity, scored, cut to the   *)
(* caller's quotas, and loaded from the workspace lexical store.           *)
(*                                                                         *)
(* Repositories, items, documents and paths are positive numbers, 0 is     *)
(* none; the order of the numbers is the order of the texts.  A list whose *)
(* order later sorting makes irrelevant is a set.                          *)
(***************************************************************************)
LOCAL INSTANCE Integers
LOCAL INSTANCE Sequences
LOCAL INSTANCE FiniteSets
LOCAL INSTANCE SequencesExt
LOCAL INSTANCE FiniteSetsExt

CandidateConfidence == <<"exact", "resolved-contract", "corroborated", "discovery">>
RetrievalRoute == <<"exact", "contract", "entity", "lexical", "graph", "semantic">>
CandidateSourceKind == <<"code", "contract", "entity", "file", "section">>

Place(order, x) == CHOOSE i \in DOMAIN order : order[i] = x

\* s comes before t when they first differ at a smaller component of s.
Precedes(s, t) ==
    \E i \in DOMAIN s : s[i] < t[i] /\ \A j \in 1..(i - 1) : s[j] = t[j]
-----------------------------------------------------------------------------
(* Candidates. *)

\* The order of the keys, which is also their identity.
stableCandidateKey(c) == c.repo * 1000 + Place(CandidateSourceKind, c.kind) * 100 + c.id

\* The strongest of several confidences.
strongestCandidateConfidence(values) ==
    CandidateConfidence[Min({Place(CandidateConfidence, v) : v \in values} \union {4})]

\* Memberships [route, rank]: the best rank of each route.
normalizeCandidateRoutes(memberships) ==
    [route \in {m.route : m \in memberships} |-> Min({m.rank : m \in {x \in memberships : x.route = route}})]

compareProvenance(left, right) ==
    LET Weight(p) == <<Place(CandidateConfidence, p.confidence), Place(RetrievalRoute, p.route), p.rank,
                       p.doc, p.path>>
    IN  Precedes(Weight(left), Weight(right))

normalizeCandidateProvenance(values) == SetToSortSeq(values, compareProvenance)

createRetrievalCandidate(item, memberships, provenance, reasons, confidence) ==
    [repo |-> item.repo, kind |-> item.kind, id |-> item.id,
     routes |-> normalizeCandidateRoutes(memberships),
     provenance |-> normalizeCandidateProvenance(provenance), reasons |-> reasons, confidence |-> confidence]

\* A row of one route.  Its document is 0 for a route that names none.
CandidateOfRow(route, rank, row, reasons, confidence) ==
    createRetrievalCandidate(row, {[route |-> route, rank |-> rank]},
        {[route |-> route, rank |-> rank, confidence |-> confidence, doc |-> row.doc, path |-> row.path]},
        reasons, confidence)

candidatesFromCodeRows(rows) ==
    {CandidateOfRow("exact", i, rows[i], {"exact-code"}, "exact") : i \in DOMAIN rows}
candidatesFromSectionRows(rows) ==
    {CandidateOfRow("exact", i, rows[i], {"exact-section"}, "exact") : i \in DOMAIN rows}
candidatesFromContractRows(rows) ==
    {CandidateOfRow("contract", i, rows[i], {"contract-role"},
                    IF rows[i].exact THEN "resolved-contract" ELSE "discovery") : i \in DOMAIN rows}
\* An entity has no document of its own.
candidatesFromEntityRows(rows) ==
    {CandidateOfRow("entity", i, [rows[i] EXCEPT !.doc = 0], {"entity-role"}, "discovery") : i \in DOMAIN rows}
\* Neither has what the vectors found, nor a path; rows of no repository go.
candidatesFromSemanticResults(rows) ==
    {CandidateOfRow("semantic", i, [rows[i] EXCEPT !.doc = 0, !.path = 0], {"semantic-match"}, "discovery") :
        i \in {j \in DOMAIN rows : rows[j].repo # 0}}
candidatesFromGraphCodeRows(rows) ==
    {CandidateOfRow("graph", i, rows[i], {"contract-implementation"}, "corroborated") : i \in DOMAIN rows}

\* The hits of one item, as one candidate with a document for each.
candidatesFromLexicalHits(hits) ==
    {LET of == {i \in DOMAIN hits : stableCandidateKey(hits[i]) = key}
     IN  createRetrievalCandidate(hits[Min(of)], {[route |-> "lexical", rank |-> Min(of)]},
            {[route |-> "lexical", rank |-> i, confidence |-> "discovery", doc |-> hits[i].doc,
              path |-> hits[i].path] : i \in of},
            UNION {hits[i].reasons : i \in of}, "discovery") :
        key \in {stableCandidateKey(hits[i]) : i \in DOMAIN hits}}

\* Both ends of the call edges; code names the symbols.
candidatesFromGraphEdges(edges, code) ==
    LET Strength(edge) == IF edge.exact THEN "corroborated" ELSE "discovery"
    IN  {LET of == {i \in DOMAIN edges : id \in {edges[i].from, edges[i].to}}
         IN  createRetrievalCandidate(code[id], {[route |-> "graph", rank |-> i] : i \in of},
                {[route |-> "graph", rank |-> i, confidence |-> Strength(edges[i]), doc |-> code[id].doc,
                  path |-> code[id].path] : i \in of},
                {"call-edge"}, strongestCandidateConfidence({Strength(edges[i]) : i \in of})) :
            id \in UNION {{edges[i].from, edges[i].to} : i \in DOMAIN edges}}
-----------------------------------------------------------------------------
(* Fusion. *)

\* One candidate of all that share a key.
mergeCandidates(values) ==
    createRetrievalCandidate(CHOOSE c \in values : TRUE,
        UNION {{[route |-> r, rank |-> c.routes[r]] : r \in DOMAIN c.routes} : c \in values},
        UNION {Range(c.provenance) : c \in values}, UNION {c.reasons : c \in values},
        strongestCandidateConfidence({c.confidence : c \in values}))

\* Rounded to twelve decimals; here the score is in units of 1 / Precision.
Precision == 10000000
fusionScore(c) ==
    <<Precision, Precision \div 2, 0, 0>>[Place(CandidateConfidence, c.confidence)]
    + MapThenSumSet(LAMBDA r : Precision \div (60 + c.routes[r]), DOMAIN c.routes)

reciprocalRankFusion(candidates) ==
    {mergeCandidates({c \in candidates : stableCandidateKey(c) = key}) :
        key \in {stableCandidateKey(c) : c \in candidates}}
-----------------------------------------------------------------------------
(* Selection. *)

\* A document to load, at a path of a file.
isLocatable(c) == \E p \in Range(c.provenance) : p.doc # 0 /\ p.path # 0

\* What two routes found, or the full text index ranked high.
isReliableCandidate(c) ==
    \/ c.confidence # "discovery"
    \/ Cardinality(DOMAIN c.routes) >= 2
    \/ DOMAIN c.routes = {"lexical"} /\ c.routes["lexical"] <= 5 /\ "full-text" \in c.reasons

directQueryMatchPriority(c) ==
    CASE c.kind = "file" /\ "exact-path" \in c.reasons -> 0
      [] {"exact-path", "canonical-id"} \intersect c.reasons # {} -> 1
      [] OTHER -> 2

priorityOrder(left, right) ==
    LET Weight(c) == <<directQueryMatchPriority(c), -Cardinality(DOMAIN c.routes),
                       Place(CandidateConfidence, c.confidence), -fusionScore(c), stableCandidateKey(c)>>
    IN  Precedes(Weight(left), Weight(right))

Selectable(fused) == {c \in fused : isLocatable(c) /\ isReliableCandidate(c)}

RepoQuota(maxCandidates, repos) ==
    IF Cardinality(repos) <= 1 THEN maxCandidates
    ELSE Max({1, (maxCandidates + Cardinality(repos) - 1) \div Cardinality(repos)})

\* The candidate is taken unless a quota is used up.
consider(selected, c, maxCandidates, maxPerRepo, maxPerKind, fitting) ==
    IF /\ c \notin Range(selected)
       /\ Len(selected) < Min({maxCandidates, fitting})
       /\ Cardinality({i \in DOMAIN selected : selected[i].repo = c.repo}) < maxPerRepo
       /\ Cardinality({i \in DOMAIN selected : selected[i].kind = c.kind}) < maxPerKind
    THEN Append(selected, c) ELSE selected

\* As if there were only the one order.
selectByPriority(fused, maxCandidates, maxPerKind, fitting) ==
    LET located == SetToSortSeq(Selectable(fused), priorityOrder)
        quota == RepoQuota(maxCandidates, {c.repo : c \in Range(located)})
    IN  FoldLeft(LAMBDA selected, c : consider(selected, c, maxCandidates, quota, maxPerKind, fitting), <<>>, located)

\* The best of every repository in the order of their ids, then the others by
\* priority; fitting is the budget over the estimated size of a candidate.
selectCandidates(fused, maxCandidates, maxPerKind, fitting) ==
    LET located == SetToSortSeq(Selectable(fused), priorityOrder)
        repos == {c.repo : c \in Range(located)}
        best == [i \in 1..Cardinality(repos) |->
                    LET repo == SetToSortSeq(repos, <)[i]
                    IN  located[Min({j \in DOMAIN located : located[j].repo = repo})]]
    IN  FoldLeft(LAMBDA selected, c :
                    consider(selected, c, maxCandidates, RepoQuota(maxCandidates, repos), maxPerKind, fitting),
                 <<>>, best \o located)
-----------------------------------------------------------------------------
(* Source loading. *)

\* The references of a candidate in the order of its provenance, up to the
\* maximum over all candidates.  state: the loadables [candidate, doc, path]
\* and whether anything was rejected.
parseLoadable(state, candidate, p, maxDocuments) ==
    CASE Len(state.loadables) >= maxDocuments \/ p.doc = 0 -> state
      [] p.doc # 0 /\ p.path = 0 -> [state EXCEPT !.rejected = TRUE]
      [] \E i \in DOMAIN state.loadables : state.loadables[i].doc = p.doc -> state
      [] OTHER -> [state EXCEPT !.loadables =
                      Append(@, [candidate |-> candidate, doc |-> p.doc, path |-> p.path])]

Loadables(selected, maxDocuments) ==
    FoldLeft(LAMBDA state, c :
                FoldLeft(LAMBDA s, p : parseLoadable(s, c, p, maxDocuments), state, c.provenance),
             [loadables |-> <<>>, rejected |-> FALSE], selected)

\* The document is still what the reference says.
validateDocument(loadable, document) ==
    /\ document.active
    /\ stableCandidateKey(document) = stableCandidateKey(loadable.candidate)
    /\ document.path = loadable.path

\* store: the documents by id; provider: "ready", "unavailable" or "failing".
loadSelectedEvidence(selected, maxDocuments, store, provider) ==
    LET found == Loadables(selected, maxDocuments)
        Valid(l) == l.doc \in DOMAIN store /\ validateDocument(l, store[l.doc])
        Result(status, evidence, rejected) == [status |-> status, evidence |-> evidence, rejected |-> rejected]
    IN  CASE found.loadables = <<>> -> Result("skipped", <<>>, found.rejected)
          [] found.loadables # <<>> /\ provider = "unavailable" -> Result("unavailable", <<>>, TRUE)
          [] found.loadables # <<>> /\ provider = "failing" -> Result("failed", <<>>, TRUE)
          [] OTHER -> Result("completed", SelectSeq(found.loadables, Valid),
                             found.rejected \/ \E i \in DOMAIN found.loadables : ~Valid(found.loadables[i]))
=============================================================================

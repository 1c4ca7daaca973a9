------------------------------ MODULE Evaluation ------------------------------
(***************************************************************************)
(* core/contracts/evaluation: how the dependencies that follow from the    *)
(* semantic relations are compared with those stored, and extracted facts  *)
(* with the golden corpus.  A ratio is a pair <<part, whole>>; of nothing  *)
(* it counts as 1.                                                         *)
(***************************************************************************)
EXTENDS Integers, FiniteSets

\* toStructuredKey
toStructuredKey(d) == <<d.from, d.to, d.type, d.source, d.target>>

\* scoreSet, and one entry of compareDependencySets
Score(candidate, baseline) ==
    [expected |-> Cardinality(baseline), actual |-> Cardinality(candidate),
     falsePositive |-> candidate \ baseline, falseNegative |-> baseline \ candidate,
     truePositive |-> Cardinality(candidate \intersect baseline)]

Ratio(part, whole) == IF whole = 0 THEN <<1, 1>> ELSE <<part, whole>>
Precision(score) == Ratio(score.truePositive, score.actual)
Recall(score) == Ratio(score.truePositive, score.expected)

\* The harmonic mean, 0 when both are.
F1(score) ==
    LET p == Precision(score)  r == Recall(score)
    IN  IF p[1] = 0 /\ r[1] = 0 THEN <<0, 1>>
        ELSE <<2 * p[1] * r[1], p[1] * r[2] + r[1] * p[2]>>

\* compareDependencySets: each type of dependency by itself, and all.
compareDependencySets(candidate, baseline) ==
    LET keys(edges) == {toStructuredKey(e) : e \in edges}
        ofType(edges, t) == {e \in edges : e.type = t}
    IN  [byType |-> [t \in {e.type : e \in candidate \union baseline} |->
                        Score(keys(ofType(candidate, t)), keys(ofType(baseline, t)))],
         aggregate |-> Score(keys(candidate), keys(baseline))]
-----------------------------------------------------------------------------
(* The golden corpus. *)

\* Facts are compared by names, not by ids, which move with the lines of the
\* fixtures; what names no known contract or repository is not compared.
GoldenKeys(facts, contracts, repoNames) ==
    [contracts |-> {<<c.kind, c.key>> : c \in contracts},
     participants |-> {<<repoNames[x[1].repoId], x[1].role, x[2].kind, x[2].key>> :
        x \in {<<e, c>> \in facts.roles \X contracts :
                 e.contractId = c.id /\ e.repoId \in DOMAIN repoNames}},
     dependencies |-> {<<repoNames[x[1].from], repoNames[x[1].to], x[1].type, x[2].kind, x[2].key>> :
        x \in {<<d, c>> \in facts.deps \X contracts :
                 d.source = c.id /\ {d.from, d.to} \subseteq DOMAIN repoNames}}]

\* evaluateGoldenCorpus: `passed` when nothing is missing, nothing is too much
\* and nothing is there that must not be.
evaluateGoldenCorpus(facts, contracts, repoNames, expected) ==
    LET actual == GoldenKeys(facts, contracts, repoNames)
        scores == [part \in {"contracts", "participants", "dependencies"} |->
                      Score(actual[part], expected[part])]
        violations == expected.absentContracts \intersect actual.contracts
    IN  [scores |-> scores, violations |-> violations,
         passed |-> /\ violations = {}
                    /\ \A part \in DOMAIN scores :
                          scores[part].falsePositive = {} /\ scores[part].falseNegative = {}]
=============================================================================

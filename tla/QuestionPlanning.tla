--------------------------- MODULE QuestionPlanning ---------------------------
(***************************************************************************)
(* features/ask: queryLexer, queryTargets, planner and planningContext.    *)
(* A question is cut into spans and clauses, every span is classified as a *)
(* target or not from its own shape and from the words around it, and the  *)
(* targets decide which routes are asked.                                  *)
(*                                                                         *)
(* A question is a sequence of symbols: SPACE, COMMA (every clause         *)
(* separator that is a separator), STOP (what is trimmed off the end of a  *)
(* token and closes the clause), QUOTE, APOSTROPHE, and words.  A word is  *)
(* [shapes, roles, intents, ext]: the patterns it matches.                 *)
(***************************************************************************)
LOCAL INSTANCE Integers
LOCAL INSTANCE Sequences
LOCAL INSTANCE FiniteSets
LOCAL INSTANCE SequencesExt
LOCAL INSTANCE FiniteSetsExt

Mark(name) == [mark |-> name, shapes |-> {}, roles |-> {}, intents |-> {}, ext |-> ""]
SPACE == Mark("space")
COMMA == Mark("comma")
STOP == Mark("stop")
QUOTE == Mark("quote")
APOSTROPHE == Mark("apostrophe")
Word(shapes, roles, intents, ext) ==
    [mark |-> "word", shapes |-> shapes, roles |-> roles, intents |-> intents, ext |-> ext]
\* What several symbols without a separator make: no pattern matches it.
Compound(symbols) ==
    [mark |-> "word", shapes |-> {}, roles |-> {}, ext |-> "",
     intents |-> UNION {symbols[i].intents : i \in DOMAIN symbols}]
-----------------------------------------------------------------------------
(* The lexer. *)

\* Within a word, as in don't.
isApostrophe(question, i) ==
    /\ question[i] = APOSTROPHE
    /\ i > 1 /\ question[i - 1].mark = "word"
    /\ i < Len(question) /\ question[i + 1].mark = "word"

\* The next of the same kind; 0: there is none.
closingQuote(question, start) ==
    LET closing == {i \in (start + 1)..Len(question) : question[i] = question[start] /\ ~isApostrophe(question, i)}
    IN  IF closing = {} THEN 0 ELSE Min(closing)

Span(symbols, clause, quoted) ==
    [word |-> IF Len(symbols) = 1 THEN symbols[1] ELSE Compound(symbols), clause |-> clause, quoted |-> quoted]

\* The run of symbols read so far ends here.  Stops at its end do not belong
\* to the token, and begin a new clause after it.
trimTokenEnd(run) ==
    LET last == Max({i \in DOMAIN run : run[i] # STOP} \union {0}) IN SubSeq(run, 1, last)
EndOfToken(s) ==
    LET value == trimTokenEnd(s.run)
    IN  [s EXCEPT !.run = <<>>,
                  !.spans = IF value = <<>> THEN @ ELSE Append(@, Span(value, s.clause, FALSE)),
                  !.clause = IF Len(value) < Len(s.run) THEN @ + 1 ELSE @]

\* s.until: the end of the quotation that was read ahead.
LexSymbol(question, s, i) ==
    LET symbol == question[i]
        ended == EndOfToken(s)
        close == closingQuote(question, i)
        quoted == SubSeq(question, i + 1, close - 1)
    IN  CASE i <= s.until -> s
          [] i > s.until /\ symbol = SPACE -> ended
          [] i > s.until /\ symbol = COMMA -> [ended EXCEPT !.clause = @ + 1]
          [] i > s.until /\ symbol \in {QUOTE, APOSTROPHE} /\ ~isApostrophe(question, i) ->
                IF close = 0 THEN ended
                ELSE [ended EXCEPT !.until = close,
                          !.spans = IF quoted = <<>> THEN @ ELSE Append(@, Span(quoted, ended.clause, TRUE))]
          [] OTHER -> [s EXCEPT !.run = Append(@, symbol)]

lexQuery(question) ==
    EndOfToken(FoldLeft(LAMBDA s, i : LexSymbol(question, s, i),
                        [spans |-> <<>>, clause |-> 0, run |-> <<>>, until |-> 0],
                        [i \in DOMAIN question |-> i])).spans
-----------------------------------------------------------------------------
(* The classification.  context: the known file extensions. *)

Is(span, role) == role \in span.word.roles
Looks(span, shape) == shape \in span.word.shapes
Distance(i, j) == IF i < j THEN j - i ELSE i - j

\* A clause of its own, or a connector between the two.
BoundaryByConnector(spans, first, second) ==
    \E i \in DOMAIN spans : /\ i > Min({first, second}) /\ i < Max({first, second})
                            /\ Is(spans[i], "connector")
hasClauseBoundary(spans, first, second) ==
    spans[first].clause # spans[second].clause \/ BoundaryByConnector(spans, first, second)

hasKnownFileExtension(span, context) == span.word.ext \in context

isPotentialTargetSpan(span, class, context) ==
    \/ \E shape \in {"explicit-api", "explicit", "slash", "strong-file", "relative", "generic-file"} : Looks(span, shape)
    \/ hasKnownFileExtension(span, context)
    \/ class = "any" /\ (span.quoted \/ \E shape \in {"code", "pascal", "structured"} : Looks(span, shape))

\* The evidence belongs to the nearest potential target on its side; of two
\* at the same distance to the one before or after it, as tie says.
evidenceBindsTarget(spans, target, evidence, direction, maxDistance, class, tie, context) ==
    LET OnSide(i) == (direction = "before" => i > evidence) /\ (direction = "after" => i < evidence)
        candidates == {i \in DOMAIN spans \ {evidence} :
                        /\ Distance(i, evidence) <= maxDistance
                        /\ isPotentialTargetSpan(spans[i], class, context)
                        /\ ~hasClauseBoundary(spans, evidence, i)
                        /\ OnSide(i)}
    IN  /\ target \in candidates
        /\ \A i \in candidates \ {target} :
              \/ Distance(target, evidence) < Distance(i, evidence)
              \/ Distance(target, evidence) = Distance(i, evidence)
                 /\ (IF tie = "following" THEN target > i ELSE target < i)

Unbound == 99
boundEvidenceDistance(spans, target, role, direction, maxDistance, class, tie, context) ==
    Min({Unbound} \union
        {Distance(e, target) : e \in {x \in DOMAIN spans :
            /\ Is(spans[x], role)
            /\ evidenceBindsTarget(spans, target, x, direction, maxDistance, class, tie, context)}})

isStructuralUrl(spans, i, context) ==
    \/ Looks(spans[i], "url")
    \/ Looks(spans[i], "dotted")
       /\ boundEvidenceDistance(spans, i, "url", "before", 2, "path", "preceding", context) # Unbound

contractContextKind(spans, i, context) ==
    boundEvidenceDistance(spans, i, "contract-kind", "either", 3, "any", "preceding", context) # Unbound

FileDistance(spans, i, context) ==
    Min({boundEvidenceDistance(spans, i, bound[1], bound[2], 4, "path", "preceding", context) :
            bound \in {<<"file-leading", "before">>, <<"file-label", "before">>, <<"file-label", "after">>}})
ApiDistance(spans, i, context) ==
    Min({boundEvidenceDistance(spans, i, "api-leading", "before", 4, "path", "preceding", context),
         boundEvidenceDistance(spans, i, "api-label", "either", 4, "path", "following", context)})
HasMethod(spans, i, context) ==
    boundEvidenceDistance(spans, i, "method", "before", 4, "path", "following", context) # Unbound

\* A target [type, span] or the reason to ignore the span; the first that fits.
Named(span) == span.quoted \/ \E shape \in {"code", "pascal", "structured"} : Looks(span, shape)
FirstFit(choices) == choices[Min({k \in DOMAIN choices : choices[k][1]})][2]
ClassOf(spans, i, context, span, file, api) ==
    FirstFit(<<
      <<Looks(span, "explicit-api"), "api">>,
      <<Looks(span, "explicit"), "contract">>,
      <<isStructuralUrl(spans, i, context), "url">>,
      <<Looks(span, "version"), "version">>,
      <<\/ hasKnownFileExtension(span, context) \/ Looks(span, "strong-file")
        \/ file < api /\ (Looks(span, "generic-file") \/ Looks(span, "relative")), "path">>,
      <<Looks(span, "slash") /\ (HasMethod(spans, i, context) \/ (api # Unbound /\ api <= file)), "api">>,
      <<Looks(span, "slash") /\ file < api, "path">>,
      <<Looks(span, "slash") /\ Len(spans) = 1, "api">>,
      <<Looks(span, "slash"), "ambiguous">>,
      <<contractContextKind(spans, i, context) /\ Named(span), "contract">>,
      <<Looks(span, "schema-suffix"), "contract">>,
      <<span.word.roles # {}, "context">>,
      <<\/ Looks(span, "code")
        \/ /\ boundEvidenceDistance(spans, i, "code", "either", 4, "any", "preceding", context) # Unbound
           /\ Looks(span, "pascal") \/ span.quoted, "identifier">>,
      <<TRUE, "ambiguous">>>>)
classifySpan(spans, i, context) ==
    ClassOf(spans, i, context, spans[i], FileDistance(spans, i, context), ApiDistance(spans, i, context))

classifyQueryTargets(spans, context) == [i \in DOMAIN spans |-> classifySpan(spans, i, context)]
-----------------------------------------------------------------------------
(* The plan. *)

\* The extensions of the built-in parsers and of the plugins, and of the
\* active parsers that are not another workspace's.
createQueryPlanningContext(builtin, parsers, repos) ==
    builtin \union UNION {p.extensions : p \in {x \in parsers : x.scope \in repos \union {""}}}

Targets == {"contract", "api", "path", "identifier"}

\* The words that are no targets tell what is asked; the first that fits.
questionKind(spans, classified) ==
    LET intents == UNION {spans[i].word.intents : i \in {j \in DOMAIN spans : classified[j] \notin Targets}}
        kinds == <<"impact", "workflow", "dependency", "debugging", "symbol">>
        asked == {k \in DOMAIN kinds : kinds[k] \in intents}
    IN  IF asked = {} THEN "general" ELSE kinds[Min(asked)]

Some(types, S) == Range(types) \intersect S # {}
RoutesOf(strict, text, types) ==
    (IF Some(types, {"identifier", "path"}) THEN {"exact"} ELSE {})
    \union (IF Some(types, {"api", "contract"}) THEN {"contract"} ELSE {})
    \union (CASE strict -> {"graph"}
              [] ~strict /\ text -> {"entity", "lexical", "graph", "semantic"}
              [] OTHER -> {})
PlanOf(spans, types, text) ==
    LET strict == Some(types, {"api"}) /\ ~Some(types, {"contract"})
    IN  [kind |-> questionKind(spans, types), strict |-> strict, targets |-> types,
         enabled |-> RoutesOf(strict, text, types)]
TypesOf(question, context) == classifyQueryTargets(lexQuery(question), context)
planQuestion(question, context) ==
    PlanOf(lexQuery(question), TypesOf(question, context), \E i \in DOMAIN question : question[i] # SPACE)
-----------------------------------------------------------------------------
(* Properties. *)

Alone(spans, types) ==
    IF Len(spans) = 1 /\ Looks(spans[1], "slash") /\ types = <<"api">> THEN <<"ambiguous">> ELSE types

\* A clause speaks for itself: what is said before a clause separator has no
\* influence on how the words after it are classified, and the other way
\* round (queryTargets.ts:39-44).  The only exception is a path that is the
\* whole question and names a route (:230).  Quotations are left out of the
\* first clause: one that is not closed there would reach into the second.
ClausesStandAlone(left, right, context) ==
    \/ lexQuery(left) = <<>> \/ lexQuery(right) = <<>>
    \/ {QUOTE, APOSTROPHE} \intersect Range(left) # {}
    \/ planQuestion(left \o <<COMMA, SPACE>> \o right, context).targets
         = Alone(lexQuery(left), TypesOf(left, context)) \o Alone(lexQuery(right), TypesOf(right, context))
=============================================================================

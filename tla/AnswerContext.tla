---------------------------- MODULE AnswerContext -----------------------------
(***************************************************************************)
(* features/ask/context: the evidence given to the language model.  Each   *)
(* item is cut so that the whole context, serialized as JSON, stays within *)
(* a budget that is part of what is serialized.                            *)
(*                                                                         *)
(* A text is a sequence of characters, known by how they serialize:        *)
(* "plain", "escaped" (two characters in JSON), and "high" and "low", the  *)
(* halves of a surrogate pair.                                             *)
(***************************************************************************)
LOCAL INSTANCE Integers
LOCAL INSTANCE Sequences
LOCAL INSTANCE FiniteSets
LOCAL INSTANCE SequencesExt
LOCAL INSTANCE FiniteSetsExt
LOCAL INSTANCE TLC

CONSTANTS
    Wrapping,  \* length of the header and the end mark around a text
    Marker,    \* length of TRUNCATION_MARKER; one of its characters is escaped
    PerItem,   \* serialized size of an item's and its citation's other fields
    Fixed      \* serialized size of everything else but the numbers

Width(char) == IF char = "escaped" THEN 2 ELSE 1
WidthOf(text) == FoldLeft(LAMBDA sum, char : sum + Width(char), 0, text)
Digits(n) == 1 + Cardinality({k \in {10, 100, 1000, 10000} : n >= k})

\* No half of a pair is left at the end.
safePrefix(text, maxChars) ==
    LET end == Min({Len(text), maxChars})
    IN  SubSeq(text, 1, IF end > 0 /\ end < Len(text) /\ text[end] = "high" THEN end - 1 ELSE end)

\* [width, truncated] of the wrapped text; width 0: it does not fit.
wrapEvidence(text, limit) ==
    LET available == limit - Wrapping
        body == safePrefix(text, available - Marker)
        Wrapped(width, truncated) == [width |-> width, truncated |-> truncated, limit |-> limit]
    IN  CASE available < 0 -> Wrapped(0, TRUE)
          [] available >= 0 /\ Len(text) <= available -> Wrapped(Wrapping + WidthOf(text), FALSE)
          [] available >= 0 /\ Len(text) > available /\ available < Marker -> Wrapped(0, TRUE)
          [] OTHER -> Wrapped(Wrapping + WidthOf(body) + Marker + 1, TRUE)

minimumWrapLimit(text) == Wrapping + Min({Len(text), Marker})

\* serializeContext(...).length when the budget field says used.
Serialized(items, maxChars, total, truncated, used) ==
    Fixed + Digits(maxChars) + Digits(used) + Digits(total) + Digits(Len(items)) + Digits(truncated)
    + FoldLeft(LAMBDA sum, item : sum + PerItem + item.width, 0, items)

\* As if the length did not depend on itself.
finalizeOnce(items, maxChars, total, truncated) ==
    [converged |-> TRUE, used |-> IF items = <<>> THEN 0 ELSE Serialized(items, maxChars, total, truncated, 0)]

\* The length is written into what it measures, until it is right.
finalizeContext(items, maxChars, total, truncated) ==
    LET Attempt(s, attempt) ==
            LET length == Serialized(items, maxChars, total, truncated, s.used)
            IN  IF s.converged THEN s ELSE [used |-> length, converged |-> length = s.used]
    IN  IF items = <<>> THEN [used |-> 0, converged |-> TRUE]
        ELSE FoldLeft(Attempt, [used |-> 0, converged |-> FALSE], [i \in 1..8 |-> i])

\* All are counted as truncated, so that later cuts cannot exceed the budget.
Accepted(items, text, limit, maxChars, total) ==
    LET item == wrapEvidence(text, limit)
    IN  item.width > 0 /\ finalizeContext(Append(items, item), maxChars, total, total).used <= maxChars

\* The limit for the next item: all of maxItem or what a binary search finds
\* above the smallest; 0 if not even that is accepted.
ItemLimit(items, text, maxItem, maxChars, total) ==
    LET smallest == minimumWrapLimit(text)
        Ok(limit) == Accepted(items, text, limit, maxChars, total)
        Halve(s, round) ==
            LET middle == (s.low + s.high) \div 2
            IN  CASE s.low > s.high -> s
                  [] s.low <= s.high /\ Ok(middle) -> [s EXCEPT !.best = middle, !.low = middle + 1]
                  [] OTHER -> [s EXCEPT !.high = middle - 1]
    IN  CASE Ok(maxItem) -> maxItem
          [] ~Ok(maxItem) /\ (smallest > maxItem \/ ~Ok(smallest)) -> 0
          [] OTHER -> FoldLeft(Halve, [low |-> smallest + 1, high |-> maxItem, best |-> smallest],
                               [i \in 1..maxItem |-> i]).best

AddWithin(s, text, limit) ==
    IF limit = 0 THEN [s EXCEPT !.truncated = @ + 1]
    ELSE [s EXCEPT !.items = Append(@, wrapEvidence(text, limit)), !.texts = Append(@, text),
                   !.truncated = IF wrapEvidence(text, limit).truncated THEN @ + 1 ELSE @]
AddItem(s, text, maxItem, maxChars, total) ==
    AddWithin(s, text, ItemLimit(s.items, text, maxItem, maxChars, total))

\* texts: of the reliable evidence, in its order.
Finished(s, maxChars, total) ==
    finalizeContext(s.items, maxChars, total, s.truncated)
        @@ [items |-> s.items, texts |-> s.texts, truncated |-> s.truncated]
buildAnswerContext(texts, maxItem, maxChars) ==
    Finished(FoldLeft(LAMBDA acc, text : AddItem(acc, text, maxItem, maxChars, Len(texts)),
                      [items |-> <<>>, texts |-> <<>>, truncated |-> 0], texts),
             maxChars, Len(texts))
-----------------------------------------------------------------------------
(* Properties. *)

Uses(context, total, maxItem, maxChars) ==
    /\ context.converged /\ context.used <= maxChars
    /\ context.items # <<>> =>
          context.used = Serialized(context.items, maxChars, total, context.truncated, context.used)
    /\ \A i \in DOMAIN context.items : context.items[i].truncated =>
          \A limit \in (context.items[i].limit + 1)..maxItem :
              ~Accepted(SubSeq(context.items, 1, i - 1), context.texts[i], limit, maxChars, total)

\* The context is within its budget and says truly how long it is, and no item
\* is cut shorter than it has to be: with the items before it, one more
\* character would not have fitted (context.ts:158-259; "exceeded its
\* serialized character budget" and "did not converge" are never thrown).
BudgetIsUsed(texts, maxItem, maxChars) ==
    Uses(buildAnswerContext(texts, maxItem, maxChars), Len(texts), maxItem, maxChars)
=============================================================================

----------------------------- MODULE FieldSearch -----------------------------
(***************************************************************************)
(* core/contracts/impact/fieldSearch: where a source text mentions a field.*)
(* A text is a sequence of tokens: the marks that open and close comments  *)
(* and strings, the end of a line (NL), and                                *)
(*   dot, bracket, accessor   .field   ["field"]   getField                *)
(*   word                     anything else                                *)
(* A token is erased ("blank") as a whole; the NLs are what keeps the      *)
(* lines of the three versions of the text in step.                        *)
(***************************************************************************)
EXTENDS Integers, Sequences, SequencesExt, FiniteSets

Quotes == {"dquote", "squote", "backtick"}
Tokens == Quotes \union {"//", "/*", "*/", "#", "escape", "NL", "dot", "bracket", "accessor", "word"}

\* `noStrings` keeps no string; a comment is missing from both.
Start == [mode |-> "code", noComments |-> <<>>, noStrings |-> <<>>]

Keep(s, mode, token) ==
    [mode |-> mode, noComments |-> Append(s.noComments, token), noStrings |-> Append(s.noStrings, token)]
Erase(s, mode) == Keep(s, mode, "blank")

\* Within a string only `noStrings` loses the token; a line end stays.
InString(s, mode, token) ==
    [mode |-> mode, noComments |-> Append(s.noComments, token),
     noStrings |-> Append(s.noStrings, IF token = "NL" THEN token ELSE "blank")]

\* The rounds of stripCommentsAndStrings inside a comment.
ScanBlock(s, token) ==
    CASE token = "*/" -> Erase(s, "code")
      [] token = "NL" -> Keep(s, "block", token)
      [] OTHER -> Erase(s, "block")
ScanLine(s, token) == IF token = "NL" THEN Keep(s, "code", token) ELSE Erase(s, "line")

\* Any mark closes the string, escaped or not.
ScanStringUnescaping(s, token) ==
    IF token = s.mode THEN Keep(s, "code", token) ELSE InString(s, s.mode, token)

\* Inside a string: an escape protects the next token, and only the same mark
\* closes it, never the end of the line.
ScanString(s, token) ==
    CASE token = "escape" -> InString(s, s.mode \o " escaped", token)
      [] token = s.mode -> Keep(s, "code", token)
      [] OTHER -> InString(s, s.mode, token)
Unescaped == [m \in {q \o " escaped" : q \in Quotes} |-> CHOOSE q \in Quotes : q \o " escaped" = m]

\* In code, # opens a comment in a file that is not JavaScript or TypeScript.
ScanCode(s, token, isJsOrTs) ==
    CASE token = "//" -> Erase(s, "line")
      [] token = "/*" -> Erase(s, "block")
      [] token = "#" /\ ~isJsOrTs -> Erase(s, "line")
      [] token \in Quotes -> Keep(s, token, token)
      [] OTHER -> Keep(s, "code", token)

Scan(s, token, isJsOrTs) ==
    CASE s.mode = "code" -> ScanCode(s, token, isJsOrTs)
      [] s.mode = "line" -> ScanLine(s, token)
      [] s.mode = "block" -> ScanBlock(s, token)
      [] s.mode \in Quotes -> ScanString(s, token)
      [] OTHER -> InString(s, Unescaped[s.mode], token)

stripCommentsAndStrings(text, isJsOrTs) ==
    FoldLeft(LAMBDA s, token : Scan(s, token, isJsOrTs), Start, text)

\* The lines of a text, as sequences of tokens.
Lines(text) ==
    LET ends == {i \in DOMAIN text : text[i] = "NL"}
        number(i) == Cardinality({e \in ends : e < i}) + 1
    IN  [n \in 1..Cardinality(ends) + 1 |->
            {text[i] : i \in {j \in DOMAIN text : number(j) = n /\ text[j] # "NL"}}]

\* The numbers of the lines with a reference: brackets where only comments are
\* gone, dots and accessors where strings are gone too.
findFieldReferences(text, isJsOrTs) ==
    LET stripped == stripCommentsAndStrings(text, isJsOrTs)
    IN  {n \in DOMAIN Lines(text) :
            \/ "bracket" \in Lines(stripped.noComments)[n]
            \/ {"dot", "accessor"} \intersect Lines(stripped.noStrings)[n] # {}}
-----------------------------------------------------------------------------
(* Reference definition: a token is in a comment when a mark before it on   *)
(* its line, or an unclosed block mark, is itself neither in a comment nor  *)
(* in a string.                                                             *)

\* What the i-th token is part of, told from the tokens before it.
Region(text, isJsOrTs) ==
    LET opens(i) == CASE text[i] = "//" \/ (text[i] = "#" /\ ~isJsOrTs) -> "line"
                      [] text[i] = "/*" -> "block"
                      [] text[i] \in Quotes -> text[i]
                      [] OTHER -> "code"
        escapes(i) == \* an odd run of escapes since the string began protects i
            LET run == {j \in 1..i - 1 : \A k \in j..i - 1 : text[k] = "escape"}
            IN  Cardinality(run) % 2 = 1
        region[i \in 0..Len(text)] ==
            IF i = 0 THEN "code"
            ELSE LET r == region[i - 1]
                 IN  CASE r = "code" -> opens(i)
                       [] r = "line" -> IF text[i] = "NL" THEN "code" ELSE "line"
                       [] r = "block" -> IF text[i] = "*/" THEN "code" ELSE "block"
                       [] OTHER -> IF text[i] = r /\ ~escapes(i) THEN "code" ELSE r
    IN  [i \in DOMAIN text |-> region[i - 1]]

\* The lines that mention the field outside comments, and outside strings
\* unless by its quoted name.
Mentions(text, isJsOrTs) ==
    LET region == Region(text, isJsOrTs)
        number(i) == Cardinality({e \in 1..i - 1 : text[e] = "NL"}) + 1
    IN  {number(i) : i \in {j \in DOMAIN text :
            \/ text[j] = "bracket" /\ region[j] \notin {"line", "block"}
            \/ text[j] \in {"dot", "accessor"} /\ region[j] = "code"}}
=============================================================================

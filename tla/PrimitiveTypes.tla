---------------------------- MODULE PrimitiveTypes ----------------------------
(***************************************************************************)
(* core/contracts/spec.normalizePrimitiveType: the types of schema fields  *)
(* in one notation for all languages.                                      *)
(*                                                                         *)
(* A raw type is a tree of what is written:                                *)
(*   [form |-> "name", name |-> n]                                         *)
(*   [form |-> f, of |-> t]   f one of the Forms below                     *)
(* A normalized type is a tree of "array", "?" (nullable) and names.       *)
(***************************************************************************)
EXTENDS Integers, Sequences

Name(n) == [form |-> "name", name |-> n]
Of(form, t) == [form |-> form, of |-> t]

\* The tables *_PRIMITIVE_MAP, for the names that stand for the others of
\* their kind; a name that is in no table stays.
TS_PRIMITIVE_MAP(n) ==
    CASE n = "string" -> "string" [] n = "number" -> "number" [] n = "boolean" -> "boolean"
      [] n = "Date" -> "date" [] n = "bigint" -> "bigint" [] n = "never" -> "void" [] OTHER -> n
JAVA_PRIMITIVE_MAP(n) ==
    CASE n = "String" -> "string" [] n \in {"int", "Integer", "BigDecimal"} -> "number"
      [] n \in {"boolean", "Boolean"} -> "boolean" [] n = "Instant" -> "date"
      [] n = "BigInteger" -> "bigint" [] n = "UUID" -> "uuid" [] n = "Object" -> "any" [] OTHER -> n
GO_PRIMITIVE_MAP(n) ==
    CASE n \in {"string", "error"} -> "string" [] n \in {"int64", "float64", "byte"} -> "number"
      [] n = "bool" -> "boolean" [] n = "time.Time" -> "date" [] n = "complex64" -> "any" [] OTHER -> n
PYTHON_PRIMITIVE_MAP(n) ==
    CASE n \in {"str", "bytes"} -> "string" [] n \in {"int", "float", "Decimal"} -> "number"
      [] n = "bool" -> "boolean" [] n = "datetime" -> "date" [] n = "UUID" -> "uuid"
      [] n \in {"list", "set"} -> "array" [] n = "dict" -> "map" [] OTHER -> n
PROTO_PRIMITIVE_MAP(n) ==
    CASE n \in {"string", "bytes"} -> "string" [] n \in {"int32", "int64", "double"} -> "number"
      [] n = "bool" -> "boolean" [] n = "google.protobuf.Timestamp" -> "date" [] OTHER -> n
GRAPHQL_PRIMITIVE_MAP(n) ==
    CASE n \in {"Int", "Float"} -> "number" [] n \in {"String", "ID"} -> "string"
      [] n = "Boolean" -> "boolean" [] OTHER -> n

Primitive(language, n) ==
    CASE language = "typescript" -> TS_PRIMITIVE_MAP(n)
      [] language = "java" -> JAVA_PRIMITIVE_MAP(n)
      [] language = "go" -> GO_PRIMITIVE_MAP(n)
      [] language = "python" -> PYTHON_PRIMITIVE_MAP(n)
      [] language = "proto" -> PROTO_PRIMITIVE_MAP(n)
      [] language = "graphql" -> GRAPHQL_PRIMITIVE_MAP(n)

\* What each language may wrap a type in.  "t|null" is a union with null or
\* undefined; "Union[t,None]" is Python's; "t[]" has parentheses around a union.
Forms == [typescript |-> {"t|null", "Array<t>", "t[]", "Map<k,t>"},
          java       |-> {"Optional<t>", "List<t>", "t[]", "Map<k,t>"},
          go         |-> {"*t", "[]t", "map[k]t"},
          python     |-> {"Optional[t]", "Union[t,None]", "List[t]", "Dict[k,t]"},
          proto      |-> {"repeated t", "map<k,t>"},
          graphql    |-> {"t!", "[t]"}]

Nullable(t) == Of("?", t)
ArrayOf(t) == Of("array", t)

\* A nullable element makes the array nullable instead, in Go and proto.
LiftedArray(t) == IF t.form = "?" THEN Nullable(ArrayOf(t.of)) ELSE ArrayOf(t)

RECURSIVE Contains(_, _)
Contains(t, forms) == t.form \in forms \/ (t.form # "name" /\ Contains(t.of, forms))

\* splitTopLevelTypeArgs counts only angle brackets: a comma inside takes a
\* Python Union apart, as a bar inside takes a TypeScript union apart.
SplitsApart(t) ==
    \/ t.form = "Union[t,None]" /\ Contains(t.of, {"Dict[k,t]", "Union[t,None]"})
    \/ t.form = "t|null" /\ Contains(t.of, {"t|null"})

\* An array of nullables without the lifting of Go.
RECURSIVE normalizeSwallowingNull(_, _)
normalizeSwallowingNull(language, t) ==
    CASE t.form = "name" -> Name(Primitive(language, t.name))
      [] t.form \in {"t|null", "Optional<t>", "*t", "Optional[t]", "Union[t,None]", "t!"} ->
            normalizeSwallowingNull(language, t.of)
      [] t.form \in {"Map<k,t>", "map[k]t", "Dict[k,t]", "map<k,t>"} -> Name("map")
      [] OTHER -> ArrayOf(normalizeSwallowingNull(language, t.of))

\* normalizePrimitiveType
RECURSIVE normalizePrimitiveType(_, _)
normalizePrimitiveType(language, t) ==
    CASE t.form = "t!" ->       \* only GraphQL's are nullable when unmarked
            IF t.of.form = "[t]" THEN ArrayOf(normalizePrimitiveType(language, t.of.of))
            ELSE Name(Primitive(language, t.of.name))
      [] t.form = "[t]" -> Nullable(ArrayOf(normalizePrimitiveType(language, t.of)))
      [] t.form = "name" ->
            IF language = "graphql" THEN Nullable(Name(Primitive(language, t.name)))
            ELSE Name(Primitive(language, t.name))
      [] t.form \in {"t|null", "Optional<t>", "*t", "Optional[t]", "Union[t,None]"} ->
            IF SplitsApart(t) THEN t ELSE Nullable(normalizePrimitiveType(language, t.of))
      [] t.form \in {"[]t", "repeated t"} -> LiftedArray(normalizePrimitiveType(language, t.of))
      [] t.form = "t[]" ->      \* a union in parentheses is not taken apart
            ArrayOf(IF t.of.form = "t|null" THEN t.of ELSE normalizePrimitiveType(language, t.of))
      [] t.form \in {"Array<t>", "List<t>", "List[t]"} -> ArrayOf(normalizePrimitiveType(language, t.of))
      [] t.form \in {"Map<k,t>", "map[k]t", "Dict[k,t]", "map<k,t>"} -> Name("map")
-----------------------------------------------------------------------------
(* Reference definition: what the writer of a type meant. *)

RECURSIVE Meaning(_, _)
Meaning(language, t) ==
    CASE t.form = "name" ->
            IF language = "graphql" THEN Nullable(Name(Primitive(language, t.name)))
            ELSE Name(Primitive(language, t.name))
      [] t.form = "t!" -> Meaning(language, t.of).of
      [] t.form \in {"t|null", "Optional<t>", "*t", "Optional[t]", "Union[t,None]"} -> Nullable(Meaning(language, t.of))
      [] t.form \in {"Map<k,t>", "map[k]t", "Dict[k,t]", "map<k,t>"} -> Name("map")
      [] t.form = "[t]" -> Nullable(ArrayOf(Meaning(language, t.of)))
      [] OTHER -> ArrayOf(Meaning(language, t.of))

\* What the code does not read as it was meant: arrays of nullables in Go
\* (lifted) and in TypeScript's suffix form, and the unions taken apart.
RECURSIVE Misread(_)
Misread(t) ==
    /\ t.form # "name"
    /\ \/ t.form \in {"[]t", "t[]"} /\ t.of.form \in {"*t", "t|null"}
       \/ SplitsApart(t)
       \/ Misread(t.of)

\* The raw types of a language with at most `depth` wrappings that it has: no
\* mark of nullability on another, and wrapped names only in proto.
Marks == {"t|null", "Optional<t>", "*t", "Optional[t]", "Union[t,None]", "t!"}
RECURSIVE RawTypes(_, _, _)
RawTypes(language, names, depth) ==
    IF depth = 0 THEN {Name(n) : n \in names}
    ELSE LET smaller == RawTypes(language, names, depth - 1)
         IN  smaller \union {Of(x[1], x[2]) : x \in {<<f, t>> \in Forms[language] \X smaller :
                               /\ ~(f \in Marks /\ t.form \in Marks)
                               /\ language = "proto" => t.form = "name"}}
=============================================================================

-------------------------- MODULE ReferenceResolution --------------------------
(***************************************************************************)
(* core/extraction/resolveReferences: which symbol a call in a source file *)
(* means, among the symbols of the files that were parsed together.        *)
(*                                                                         *)
(* A file has an `order`, its place in parsedFiles, and a symbol one among *)
(* the symbols of its file; `owner` is the qualified name without the last *)
(* segment.  The module of an import is `relative` with a base path (and   *)
(* an extension or ""), or else a package and a last segment.  Scores are  *)
(* in tenths.                                                              *)
(***************************************************************************)
EXTENDS Integers, Sequences, FiniteSets, SequencesExt

None == [id |-> ""]
SymbolsOf(files) == UNION {f.symbols : f \in files}

\* The first (or last) of a set of records in their order.
FirstOf(s) == CHOOSE x \in s : \A y \in s : x.order <= y.order
LastOf(s) == CHOOSE x \in s : \A y \in s : x.order >= y.order
FileById(files, id) == CHOOSE f \in files : f.id = id
SymbolOrder(files, s) == 100 * FileById(files, s.file).order + s.order
FirstSymbol(files, symbols) ==
    IF symbols = {} THEN None
    ELSE CHOOSE s \in symbols : \A t \in symbols : SymbolOrder(files, s) <= SymbolOrder(files, t)
-----------------------------------------------------------------------------
(* Imports. *)

Extensions == <<"", ".ts", ".tsx", ".js", ".jsx", ".vue",
                "/index.ts", "/index.tsx", "/index.js", "/index.jsx", "/index.vue">>

\* resolveImports: the file of the same repository a relative import names, as
\* it stands or with the first extension that exists.
Imported(files, file, ref) ==
    LET at(i) == {g \in files : /\ g.repo = file.repo
                                /\ g.base = ref.base
                                /\ g.ext = ref.ext \o Extensions[i]}
        hits == {i \in DOMAIN Extensions : at(i) # {}}
    IN  IF ~ref.relative \/ hits = {} THEN {}
        ELSE at(CHOOSE i \in hits : \A j \in hits : i <= j)
ImportedFiles(files, file) == UNION {Imported(files, file, ref) : ref \in file.imports}

Named(symbols, name) == {s \in symbols : s.name = name}

\* buildReExportTargets: what `name` (or "*") means to importers of a barrel.
ReExported(files, barrel, name) ==
    LET reachable == SymbolsOf(ImportedFiles(files, barrel))
        bindings == UNION {r.bindings : r \in {x \in barrel.imports : x.exported}}
    IN  UNION {IF b.local = "*" THEN IF name = "*" THEN reachable ELSE {}
               ELSE IF b.local = name THEN Named(reachable, b.imported) \union Named(reachable, b.local)
               ELSE {} : b \in bindings}

\* Barrels are not looked into.
AliasTargetsDirect(files, file, local) ==
    LET bindings == UNION {r.bindings : r \in {x \in file.imports : ~x.exported}}
    IN  UNION {Named(SymbolsOf(ImportedFiles(files, file)), n) :
                 n \in UNION {{b.local, b.imported} \ {"", "default"} :
                              b \in {x \in bindings : x.local = local /\ x.kind # "namespace"}}}

\* buildImportedAliasTargets: what a local name may mean by the file's imports.
AliasTargets(files, file, local) ==
    LET bindings == UNION {r.bindings : r \in {x \in file.imports : ~x.exported}}
        imported == ImportedFiles(files, file)
    IN  UNION {Named(SymbolsOf(imported), n)
                 \union UNION {ReExported(files, g, n) \union ReExported(files, g, "*") : g \in imported} :
                 n \in UNION {{b.local, b.imported} \ {"", "default"} :
                              b \in {x \in bindings : x.local = local /\ x.kind # "namespace"}}}
-----------------------------------------------------------------------------
(* Languages whose own rules name the target. *)

TopLevelKinds == {"function", "class", "struct", "interface"}

\* findTopLevelSymbol
findTopLevelSymbol(file, name) ==
    LET found == {s \in Named(file.symbols, name) : s.kind \in TopLevelKinds /\ s.owner = ""}
    IN  IF found = {} THEN None ELSE FirstOf(found)

\* buildPythonModuleTargets: a file answers to its dotted path and to its last
\* segment; of several files that do, the last parsed is taken.
PythonModule(files, file, ref) ==
    LET answering(name) == {g \in files : g.language = "python" /\ g.repo = file.repo
                                             /\ name \in {g.package, g.last}}
    IN  IF answering(ref.package) # {} THEN {LastOf(answering(ref.package))}
        ELSE IF answering(ref.last) # {} THEN {LastOf(answering(ref.last))} ELSE {}

PythonTarget(files, file, call) ==
    LET bound(kind) == {<<b, g>> \in UNION {r.bindings \X PythonModule(files, file, r) : r \in file.imports} :
                            b.kind = kind}
        direct == {findTopLevelSymbol(x[2], x[1].imported) :
                     x \in {y \in bound("named") : y[1].local = call.callee /\ y[1].imported # "*"}} \ {None}
        through == {findTopLevelSymbol(x[2], call.callee) :
                     x \in {y \in bound("namespace") : y[1].local = call.receiver}} \ {None}
        found == IF call.receiver = "" THEN direct ELSE through
    IN  IF file.language # "python" \/ found = {} THEN None ELSE CHOOSE s \in found : TRUE

\* buildGoPackageTargets: functions of the imported package, by its alias or
\* last segment, or of the file's own.
GoTarget(files, file, call) ==
    LET inPackage(name) == {g \in files : g.language = "go" /\ g.repo = file.repo /\ g.package = name}
        imported == {r.last : r \in file.imports} \ {"_"}
        searched == IF call.receiver = "" THEN inPackage(file.package)
                    ELSE IF call.receiver \in imported THEN inPackage(call.receiver) ELSE {}
    IN  IF file.language # "go" THEN None
        ELSE FirstSymbol(files, {s \in Named(SymbolsOf(searched), call.callee) : s.kind = "function"})

JavaTypes == {"class", "interface", "enum"}

\* resolveJavaTypeName: exact import, own package, wildcard import, own package
\* even if it has no such class.
resolveJavaTypeName(files, file, type) ==
    LET exact == {r \in file.imports : r.last = type}
        exists(package) == \E s \in SymbolsOf({f \in files : f.language = "java"}) :
                               s.kind \in JavaTypes /\ s.owner = package /\ s.name = type
        wildcards == {r.package : r \in {x \in file.imports : x.last = "*" /\ exists(x.package)}}
    IN  IF exact # {} THEN <<(CHOOSE r \in exact : TRUE).package, type>>
        ELSE IF exists(file.package) \/ wildcards = {} THEN <<file.package, type>>
        ELSE <<CHOOSE p \in wildcards : TRUE, type>>

\* javaReceiverType: a variable of the caller, of the class, or a class.
JavaReceiverType(files, file, call) ==
    LET declared(scope) == {v \in file.variables : v.scope = scope /\ v.name = call.receiver}
        scopes == IF declared(call.caller) # {} THEN declared(call.caller) ELSE declared("")
    IN  resolveJavaTypeName(files, file,
            IF scopes # {} THEN (CHOOSE v \in scopes : TRUE).type ELSE call.receiver)

\* buildJavaStaticTargets: the receiver's class decides, then the number of
\* arguments, if it does.
JavaTarget(files, file, call) ==
    LET symbols == SymbolsOf({f \in files : f.language = "java"})
        callers == {s \in file.symbols : s.id = call.caller}
        owner == IF call.receiver # "" THEN JavaReceiverType(files, file, call)
                 ELSE IF callers = {} THEN <<"", "">> ELSE (CHOOSE s \in callers : TRUE).class
        methods == {s \in Named(symbols, call.callee) : s.kind = "method" /\ s.class = owner}
        byArity == {s \in methods : s.arity = call.args}
    IN  CASE file.language # "java" -> None
          [] file.language = "java" /\ call.constructs ->
                LET type == resolveJavaTypeName(files, file, call.callee)
                IN  FirstSymbol(files, {s \in symbols : s.kind \in JavaTypes /\ <<s.owner, s.name>> = type})
          [] OTHER -> FirstSymbol(files, IF Cardinality(byArity) = 1 THEN byArity ELSE methods)

\* buildTypeScriptCompilerTargets: the compiler tells the declaration, given as
\* `declares`; it counts when its file was parsed and a symbol holds its line.
CompilerTarget(files, file, call) ==
    LET found == {s \in SymbolsOf(files) : s.id = call.declares}
    IN  IF file.language # "typescript" \/ found = {} THEN None ELSE CHOOSE s \in found : TRUE

StaticTarget(files, file, call) ==
    CASE file.language = "python" -> PythonTarget(files, file, call)
      [] file.language = "go" -> GoTarget(files, file, call)
      [] file.language = "java" -> JavaTarget(files, file, call)
      [] OTHER -> CompilerTarget(files, file, call)
-----------------------------------------------------------------------------
(* Calls. *)

\* scoreCallResolution; with all of them it would be 12.
scoreCallResolution(nameExact, sameFile, imported, sameRepo) ==
    LET points(b, n) == IF b THEN n ELSE 0
        total == points(nameExact, 4) + points(sameFile, 4) + points(imported, 3) + points(sameRepo, 1)
    IN  IF total > 10 THEN 10 ELSE total

confidenceBand(score) ==
    IF score >= 9 THEN "exact" ELSE IF score >= 8 THEN "probable" ELSE "heuristic"

IsImported(files, file, call, s) ==
    \/ \E g \in ImportedFiles(files, file) : g.id = s.file
    \/ s \in AliasTargets(files, file, call.callee)

Score(files, file, call, s) ==
    scoreCallResolution(s.name = call.callee \/ s \in AliasTargets(files, file, call.callee),
                        s.file = file.id, IsImported(files, file, call, s), s.repo = file.repo)

\* The candidates in the order of the final sort: score, import, same file,
\* and then the order in which they were collected, by name and by alias.
Precedes(files, file, call, s, t) ==
    LET rank(x) == <<Score(files, file, call, x),
                     IF IsImported(files, file, call, x) THEN 1 ELSE 0,
                     IF x.file = file.id THEN 1 ELSE 0,
                     IF x.name = call.callee THEN 1 ELSE 0,
                     0 - SymbolOrder(files, x)>>
        differing == {i \in 1..5 : rank(s)[i] # rank(t)[i]}
    IN  \E i \in differing : rank(s)[i] > rank(t)[i] /\ \A j \in differing : i <= j

\* The edge of one call: static rules, else the best candidate.
CallEdge(files, file, call) ==
    LET static == StaticTarget(files, file, call)
        candidates == {s \in Named(SymbolsOf(files), call.callee) \union AliasTargets(files, file, call.callee) :
                          s.id # call.caller}
        best == {s \in candidates : \A t \in candidates \ {s} : Precedes(files, file, call, s, t)}
        edge(s, score) == {[from |-> call.caller, to |-> s.id, score |-> score, resolution |-> confidenceBand(score)]}
    IN  IF call.caller = "" THEN {}
        ELSE IF static # None /\ static.id # call.caller THEN edge(static, 9)
        ELSE UNION {IF Score(files, file, call, s) >= 4 THEN edge(s, Score(files, file, call, s)) ELSE {} : s \in best}

\* resolveCalls
resolveCalls(files) == UNION {UNION {CallEdge(files, f, c) : c \in f.calls} : f \in files}
-----------------------------------------------------------------------------
(* What an answer must be. *)

\* What a binding of an import from g means: a symbol of g, or one behind g if
\* g is a barrel; `export *` passes every name on.
Bound(files, g, name) ==
    LET behind(r) == SymbolsOf(Imported(files, g, r))
    IN  Named(g.symbols, name) \union
        UNION {UNION {IF b.local = "*" THEN Named(behind(r), name)
                      ELSE IF b.local = name THEN Named(behind(r), b.imported) ELSE {} : b \in r.bindings} :
               r \in {x \in g.imports : x.exported}}

\* A call by a name the file imports, and does not define, goes to what the
\* import means, by the name it is imported or used by, or to a namesake behind
\* the imported file.  A renaming import through `export *` is left out: any
\* symbol behind it may be taken.
ImportsAreFollowed(files) ==
    \A f \in files : \A r \in {x \in f.imports : ~x.exported} : \A b \in r.bindings :
        \A g \in Imported(files, f, r) : \A c \in {x \in f.calls : x.callee = b.local /\ x.caller # ""} :
            LET meant == Bound(files, g, b.imported)
                star == \E x \in g.imports : x.exported /\ \E y \in x.bindings : y.local = "*"
            IN  meant # {} /\ StaticTarget(files, f, c) = None /\ Named(f.symbols, c.callee) = {}
                  /\ (star => b.imported = b.local) =>
                \E edge \in CallEdge(files, f, c) :
                    edge.to \in {s.id : s \in meant \union Bound(files, g, b.local)
                                        \union Named(SymbolsOf(ImportedFiles(files, g)), c.callee)}
=============================================================================

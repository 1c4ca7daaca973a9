------------------------------ MODULE Extraction ------------------------------
(***************************************************************************)
(* core/contracts/extraction and core/frameworks/detect: which extractors  *)
(* run on which parsed files, and what becomes of the facts they collect.  *)
(*                                                                         *)
(* A file is [id, repo, language, marks]: the marks are what detectors and *)
(* extractors look for in its text.  A repository is [id, markers]: which  *)
(* of the marker files it has on disk and what is in them.  An extractor   *)
(* is [name, languages, frameworks, reads, post, sees]: it takes a fact    *)
(* from each file it is shown with one of the marks it `reads`.            *)
(***************************************************************************)
EXTENDS Integers, Sequences, FiniteSets, SequencesExt

Framework(name, language) == [name |-> name, language |-> language]
When(condition, framework) == IF condition THEN {framework} ELSE {}

(* Detectors. *)

\* packageJsonDetector: nothing when the file does not parse.
packageJsonDetector(repo) ==
    IF "package.json" \notin repo.markers \/ "broken" \in repo.markers THEN {}
    ELSE {Framework("js:package-json", "javascript")}
           \union When("axios" \in repo.markers, Framework("js:axios", "javascript"))

pomXmlDetector(repo) ==
    IF "pom.xml" \notin repo.markers THEN {}
    ELSE {Framework("java:pom", "java")}
           \union When("pom spring" \in repo.markers, Framework("java:spring-mvc", "java"))

\* build.gradle, or else build.gradle.kts
gradleDetector(repo) ==
    LET files == <<"build.gradle", "build.gradle.kts">>
        first == SelectSeq(files, LAMBDA f : f \in repo.markers)
    IN  IF first = <<>> THEN {}
        ELSE {Framework("java:gradle", "java")}
               \union When(first[1] \o " spring" \in repo.markers, Framework("java:spring-mvc", "java"))

goModDetector(repo) ==
    IF "go.mod" \notin repo.markers THEN {}
    ELSE {Framework("go:mod", "go")} \union When("gin" \in repo.markers, Framework("go:gin", "go"))

requirementsDetector(repo) ==
    When("requirements fastapi" \in repo.markers, Framework("python:fastapi", "python"))
pyprojectDetector(repo) ==
    When("pyproject fastapi" \in repo.markers, Framework("python:fastapi", "python"))

HasLanguage(files, languages) == \E f \in files : f.language \in languages

javaFallbackDetector(files) == When(HasLanguage(files, {"java"}), Framework("java:package", "java"))
jsFallbackDetector(files) ==
    When(HasLanguage(files, {"javascript", "typescript", "vue"}), Framework("js:generic-fetch", "javascript"))
pythonFallbackDetector(files) == When(HasLanguage(files, {"python"}), Framework("python:generic", "python"))
goFallbackDetector(files) == When(HasLanguage(files, {"go"}), Framework("go:generic", "go"))


springMvcFallbackDetector(files) ==
    When(\E f \in files : f.language = "java" /\ "spring" \in f.marks, Framework("java:spring-mvc", "java"))

dubboXmlFrameworkDetector(files) ==
    When(\E f \in files : f.language = "xml" /\ "dubbo" \in f.marks, Framework("java:dubbo-xml", "java"))

\* detectFrameworks: all the detectors, on the repository's files.
detectFrameworks(repo, files) ==
    LET own == {f \in files : f.repo = repo.id}
    IN  UNION {packageJsonDetector(repo), pomXmlDetector(repo), gradleDetector(repo),
               goModDetector(repo), requirementsDetector(repo), pyprojectDetector(repo),
               jsFallbackDetector(own), pythonFallbackDetector(own), goFallbackDetector(own),
               javaFallbackDetector(own), springMvcFallbackDetector(own), dubboXmlFrameworkDetector(own)}
-----------------------------------------------------------------------------
(* Extractors. *)

\* isExtractorEnabled: by its name first, then by its frameworks if it has any,
\* then by its languages if it has any; an extractor with neither always runs.
isExtractorEnabled(extractor, detected, config) ==
    LET names == {d.name : d \in detected}
        languages == {d.language : d \in detected}
    IN  CASE extractor.name \in config.exclude -> FALSE
          [] extractor.name \notin config.exclude /\ extractor.name \in config.include -> TRUE
          [] OTHER ->
                IF extractor.frameworks # {}
                THEN /\ extractor.frameworks \intersect config.exclude = {}
                     /\ extractor.frameworks \intersect (config.include \union names) # {}
                ELSE extractor.languages # {} => extractor.languages \intersect languages # {}

\* registerBuiltinsForParsedFiles: extractors of Java only come with Java files,
\* or Dubbo's with its configuration.
Registered(extractors, files) ==
    {x \in extractors : /\ x.needsJava => HasLanguage(files, {"java"})
                        /\ x.needsDubboXml => \E f \in files : f.language = "xml" /\ "dubbo" \in f.marks}

EnabledRepos(extractor, repos, files, config) ==
    {r \in repos : isExtractorEnabled(extractor, detectFrameworks(r, files), config)}

\* buildExtractContext: the files of the repositories it is enabled for, unless
\* it declares that it needs none.
ShownFiles(extractor, repos, files, config) ==
    LET enabled == {r.id : r \in EnabledRepos(extractor, repos, files, config)}
    IN  IF extractor.sees THEN {f \in files : f.repo \in enabled} ELSE {}

\* What one extractor takes from the files.  A fact's id says nothing of the
\* extractor: two extractors may find the same contract.
Collected(extractor, shown) ==
    {[id |-> <<f.id, m>>, by |-> extractor.name] :
        <<f, m>> \in {x \in shown \X extractor.reads : x[2] \in x[1].marks}}

\* dedupById, dedupBy: of what has one id the last stays.
LastOfEachId(facts) ==
    LET last(id) == CHOOSE i \in DOMAIN facts : facts[i].id = id
                        /\ \A j \in DOMAIN facts : facts[j].id = id => j <= i
    IN  {facts[last(id)] : id \in {facts[i].id : i \in DOMAIN facts}}

\* extractContractFactsWithRegistry: the extractors in their order, and then
\* those with a postExtract on what all of them found before the first such.
extractContractFactsWithRegistry(order, repos, files, config) ==
    LET run == SelectSeq(order, LAMBDA x : /\ x \in Registered(Range(order), files)
                                           /\ EnabledRepos(x, repos, files, config) # {})
        collect(x) == SetToSeq(Collected(x, ShownFiles(x, repos, files, config)))
        extracted == FlattenSeq([i \in DOMAIN run |-> collect(run[i])])
        merged == LastOfEachId(extracted)
        amend(x) == SetToSeq({[id |-> <<fact.id[1], "amended">>, by |-> x.name] :
                        fact \in {g \in merged : \E f \in ShownFiles(x, repos, files, config) :
                                                    f.id = g.id[1] /\ g.id[2] \in x.reads}})
        posts == SelectSeq(run, LAMBDA x : x.post)
    IN  LastOfEachId(extracted \o FlattenSeq([i \in DOMAIN posts |-> amend(posts[i])]))
-----------------------------------------------------------------------------
(* Workflows. *)

\* extractCrossRepoContracts: relations that name a pending schema are dropped,
\* and each API or event dependency makes a workflow of its contract's
\* operations.
Written(relations) == {r \in relations : ~r.pending}

Workflows(dependencies, contracts, operations) ==
    LET contract(d) == CHOOSE c \in contracts : c.id = d.source
        known == {d \in dependencies : \E c \in contracts :
                      c.id = d.source /\ c.kind \in {"api", "event"} /\ c.entity # ""}
    IN  UNION {{[workflow |-> contract(d).id, operation |-> o.id, step |-> IF o.serves THEN 1 ELSE 2] :
                   o \in {p \in operations : p.entity = contract(d).entity /\ p.contract = contract(d).id}} :
               d \in known}
-----------------------------------------------------------------------------
(* What must hold. *)

\* The fallback detector does not count .tsx and .jsx (detect.ts:359) that the
\* extractors it enables read (jsHttpClientExtractor.ts:246, tsSchemaExtractor.ts:59):
\* what is in them is found beside a file that counts.
NeedsCompany(file, files) ==
    /\ file.language \in {"tsx", "jsx"}
    /\ HasLanguage({f \in files : f.repo = file.repo}, {"javascript", "typescript", "vue"})


=============================================================================
